# Verification of gooo-semantic-observer

TLA+ models of the observer in this repository, the TLC runs that check them
and the TLAPS proofs about them. Line numbers refer to the sources as they
stand beside this directory.

## The system

The observer is a command-line program without threads or network. Its
difficulty lies in the order in which facts are found and used, in state that is
kept twice (flags and the records they summarise), and in the files that it
leaves to others.

| component | state | operations | interacts with |
|---|---|---|---|
| claim evaluation, `internal/observer/evaluate.go` `Observe` | admitted claims, evidence by claim, the first refutation, transitions, claim states, UNKNOWN records, decision and reason | decode; check the header; admit claims; admit evidence; judge claims; resolve | called by `observeFile`; reads the built-in constants of `internal/generated` |
| publication, `cmd/gooo-observer/main.go` `observeFile`, `ensureEmptyDirectory`, `verifyArtifactSet`, `verifyDetachedReceiptBinding`, `writeFile` | the output directory | check that it is empty; write three streams, the receipt, the report and the manifest; read back and verify | the caller, other runs |
| authority chain, `validateMeta`, `validateSemanticIR`, the five files that `observeFile` reads | digests of source, IR, generated Go, evaluator and contract | read, digest, compare with the built-in digests | `compile` writes two of the files |
| compilation, `internal/observer/compile.go` and `compile` | denominator, activities | load and validate the denominator; parse the source; write IR and Go | authority chain |
| conformance, `conformance` | one output directory per fixture, reports | run the fixtures, compare decisions, count, substitute a receipt | publication |
| inventory, `measureInventory` | counters | walk the input directory | only reported |
| rendering, digests, metrics, generated code, CI | - | - | decide nothing |

What makes them correct:

* evaluation: CLOSED is earned by every claim; a fault of the authority refutes
  every claim wherever in the input it is found, the refutation of one claim
  refutes no other; what is published (states, transitions, UNKNOWN records,
  decision, reason) is consistent; the streams only grow.
* publication: a manifest seals a complete observation of one run, whatever
  stopped before it; success is reported only of what is in the directory, also
  when several runs use it at the same time; the data of the caller and of earlier
  runs are left alone.
* authority chain: an admitted observation has read one chain, whatever changed
  between its reads; after a stopped `compile`, another `compile` heals it.
* compilation: exactly the contracts and sources of the documented form are
  accepted, and what is accepted is what the running observer accepts.
* conformance: it succeeds only on this run's observations of the twelve cases.
* inventory: what is there throughout the walk is counted, and only what is to be
  counted can fail it.

The hard behaviours, each with its line, are the `hazards` of `PROJECT.json`.

## Modules

| module | what it is |
|---|---|
| `ClaimLedger` | the abstract specification of an observation: a ledger of claims that leave UNVERIFIED once, faults that refute all, a verdict that is a function of the ledger |
| `Observer` | `Observe`, one action per loop iteration |
| `ObserverProofs` | the answers of the validation and of the scan of the evidence, type correctness, the inductive invariant of a call; that its decision follows its states, that it only adds to its streams and that it implements `ClaimLedger` |
| `FaultProofs` | that faults are contained and CLOSED is earned; that the streams replay to the states, UNVERIFIED claims are explained and the reason is the first one |
| `MCObserver` | the inputs of the runs of `Observer` |
| `ObservationVault` | the abstract specification of an output directory: it holds the observation of one run or none |
| `Publication` | `observeFile` on the output directory, one action per system call, several runs and the caller |
| `PublicationProofs` | types for any runs, and what success says of the receipt with any number of runs at the same time; for runs in turn, that a manifest seals, remains are refused and the vault is implemented |
| `MCPublication` | two runs and a caller |
| `Compilation` | `LoadDenominator`, `ValidateDenominator`, `CompileSource`, `GenerateGo`, one action per loop iteration, and the comparison of `validateMeta` |
| `CompilationProofs` | type correctness, that the running observer accepts the cells that were compiled and no others, and that exactly the documented form compiles |
| `MCCompilation` | a contract and its source, edited |
| `Attributes` | `parseAttributes`, one action per scan |
| `AttributesProofs` | that no scan leaves its text, that the loop gets on, and that what is accepted is read right and what is refused has a known reason |
| `MCAttributes` | all short texts |
| `AuthorityChain` | the five files, `compile`, the build and the reads of `observeFile`, with edits and stops |
| `AuthorityProofs` | type correctness and the inductive invariant of the chain |
| `MCAuthorityChain` | three sources and five contracts |
| `Conformance` | the `conformance` command over the fixtures, run again and again, on an `ObservationVault` per case |
| `ConformanceProofs` | that success and the summary are of this run and true, that the late checks follow, and that the vaults are used as they allow |
| `MCConformance` | the shipped fixtures and eleven changes of them |
| `Inventory` | `measureInventory` and `countFile` on a tree that changes |
| `InventoryProofs` | the bounds of the counts, and that the walk fails only for a reason |
| `MCInventory` | a tree of nine entries and four roots |

How they compose: `Publication` implements `ObservationVault`, and `Conformance`
uses one `ObservationVault` per case directory (`UsesVaults`). `Attributes` gives
the attributes of the lines that `Compilation` reads. `Compilation` says which
contracts and sources compile; `AuthorityChain` takes that as the operator
`CompileSource` on the activities and cells that are compared. The verdict of
`AuthorityChain` is the answer of `validateMeta` that `Observer` has in its header.

### Observer

The variables are those of the function: `claims`, `claimByID`,
`evidenceByClaim`, `hasRefuted`/`refutedReason`, their copies
`authorityRefuted`/`authorityReason` (evaluate.go:89-90), `transitions`,
`unknowns`, `states` for `report.Claims`, `decision` and `reason` of the report.
`pc` and `index` are the position in the code. `input` is chosen in `Init` and
never changes.

| action | code |
|---|---|
| `RejectMalformed` | evaluate.go:24-26 |
| `CheckHeader` | 38-49, all four checks, the first reason is kept |
| `AdmitClaim`, `ClaimsAdmitted` | 54-75 |
| `AdmitEvidence`, `EvidenceAdmitted` | 78-90 |
| `RefuteSelfAttested`, `RefuteByAuthority`, `JudgeByEvidence` | the three branches 98-122, each with the tail of the iteration, 123 |
| `Resolve` | 126-142 |

The chains of early returns in `validateEvaluator`, `validateClaim` and
`validateEvidence` are `FirstReason` of a tuple in the order of the code.
`observeClaim` is given declaratively: the first decisive item decides; without
one the class of the first blocked, stale or ambiguous item is reported, in
this order of preference.

Digest strings are members of a set, some of them well formed; a source
reference is its prefix and the shape of what follows; the versions of the
evaluator are the one Boolean `immutableTag`. Titles, sequence numbers, wall
time and memory are left out.

### Publication

`entry` is what the directory holds under every name: nothing, a subdirectory or
a file, known by who wrote its head, how much of it is there and whose tail was
left behind it. A manifest also records the receipt bytes whose digest it holds.
`os.WriteFile` is two steps, open with truncation (`OpenFile`) and write
(`WriteFile`, or `ShortWrite` when it stops in the middle). `BindReceipt` is the
read-back at main.go:285, `VerifyArtifactSet` 393-412, `ReadManifest` and
`ReadReceipt` the two reads and the checks of 414-455. `Stop` is an error
returned by any other call, or a kill between two of them. `CallerCreates` and
`CallerClears` are the owner of the directory.

### Compilation

A call is one pass over `pc`: the checks of the contract (compile.go:19-42), the
loop over the cells with its two sets and two counters (47-58), the counts (59-64),
the header (91), the loop over the lines (95-120), the count of the nodes (121) and
the loop that binds nodes to cells (124-129). The 12 cells and the 4 of every proof
choice are `3 * Share` and `Share`. `AcceptsExactly` compares the outcome with
`WellFormed` and `Defines`, which describe a contract and its source without loops.
`AcceptsWhatWasCompiled` follows a compiled contract, or another one that is there
when the observer runs (`RunContracts`), into `validateMeta`: the fields of a cell are
listed three times, where a node is bound (compile.go:126), where `GenerateGo` writes
the activity, and where it is compared (evaluate.go:214), and the three definitions of
the model are separate lists as in the code. A contract passes exactly when its cells
are those compiled.

### Attributes

Positions count from 1. `ReadKey`, `OpenQuote`, `ReadValue` and `UnquoteValue` are
the four parts of the loop body (compile.go:170-204), `ReturnAttributes` its end.
`unquote` is what `strconv.Unquote` does with the characters of the model. The
reference reading, `AttributesOf` and `Binding`, ends a value at a quote with an
even number of backslashes before it.

### AuthorityChain

`disk` holds the five files, `binary` the observer as built. `compiler` is a run of
`compile` (main.go:43-88), whose two writes are each a truncation and a write;
`observer`, `built` and `meta` are an observation (204-257), which reads the contract
first and last. `Edit` changes a hand-written file, `Checkout` brings a generated
file of another compile. A digest of bytes is the bytes. `InTurn` says whether
commands are started one after the other or at any time; one compile and one
observation are enough for what the other can meet.

### Conformance

`dir` is the directory of every case as `ObservationVault` sees it; `BeginCase`,
`PublishCase` and `ReturnReport` are the call of `observeFile` (main.go:136),
`CheckReport` what follows it (141-149), then the counts, the substitution
counterexample and the summary. What a fixture reports is an input (`Outcome`),
which the module `Observer` computes; that includes the `case_id` that the input gives
itself, which need not be the name of the file, may be that of another fixture, and is
empty when the input does not decode. The rows of the summary show it (report.go:53)
and are sorted by it (main.go:181). A summary that is cut off shows the first rows in
this order (`SummaryCutOff`). The fixtures may change between runs (`FixturesChange`).

### Inventory

`pending` is the recursion of `filepath.WalkDir`: entries to visit and directories
to list. A directory is counted before it is listed (main.go:335-341), a file when
it is read (347-366). `barred` are the entries that `os.ReadFile` or the listing
cannot read: no permission, a socket, a link to nothing; they may become readable, or
stop being so, at any time. `before`, `come`, `gone` and `refused` remember what changed
since, for the properties. A link to a file is read and counted as a file is. The kind
`link` is one to a directory: below the root it cannot be read and fails the walk; as
the root it passes `os.Stat` and is not walked, and the counts stay 0.

## Runs

| run | question | instance |
|---|---|---|
| `observer_calls` | does a fault, wherever it is found, refute everything and a refuted claim nothing else; is the report consistent, and does the call implement `ClaimLedger`? | three families of calls: a sound header, 2 claims out of 4 kinds (equal ids, self attestation by the child, by another), 3 items out of 10 kinds; 10 kinds of claims and 15 kinds of evidence with one fault each, two of each; 9 headers, 3 claims with distinct, repeated and empty ids, 2 items |
| `observer_contradiction` | is a contradiction always heard? | the first family |
| `publication_turns` | is the directory safe when runs take turns, fail and are killed? | 2 runs, one at a time; the caller uses 3 names |
| `publication_together` | what is success worth when runs overlap? | 2 runs of one case at once; the caller uses 3 names |
| `publication_caller` | is the caller's data kept? | as `publication_turns` |
| `compilation_edits` | which contracts and sources compile, and are they and no others accepted at run time? | 6 cells, all pairs of 18 edits of cells, 12 edits of the form, all edits of a line; at run time all contracts with one edit |
| `compilation_binding` | is every cell bound one to one? | 3 cells, one edit |
| `attributes_texts` | is every line read as it is written? | all texts of up to 6 pieces over 5 characters and the opening of an attribute |
| `authority_edits` | has an admitted observation read one chain? | 3 sources, 5 contracts, 2 cells, 2 edits, 1 stop, commands at the same time |
| `authority_heals` | do interrupted compiles heal? | 2 sources, 2 contracts, 2 edits, 2 stops, commands in turn, which somebody goes on to start |
| `conformance_reruns` | is success, and the summary, of this run and true? | 12 cases, 12 fixture directories, 2 runs, 1 change of the fixtures |
| `inventory_changes` | are the counts right while the tree changes, and what fails the walk? | every closed part of a tree of 9 entries, 2 sets of unreadable ones, 4 roots, 2 changes |

**Bounds.** The evaluation of a claim depends on its own evidence, on one flag
of the authority and on records of other claims only through identifiers, so
two claims (three where ids repeat) and three items of evidence, in every order,
reach every combination of two classes before or after a third. Pairs of faulty
elements show the order in which faults are found. Two runs are enough for what
one run leaves and another finds; a run writes each file once, so nothing in
`Publication` needs a bound beside the sets. With a `Share` of 2 every proof choice
and indicator class has two cells, so one edit can unbalance two of them and a second
edit balance them again. The scans of `Attributes` look at one character back, and a
value with an escaped backslash before another attribute fits in six pieces.
`MaxEdits` and `MaxStops` bound how often files change and commands stop: two edits
change the contract between its two readings and back. `MaxRuns` of 2 lets a run meet
what another left, of the same fixtures or, with the `MaxChanges` of 1 of `Conformance`,
of others; all that a third could meet is the summary of the first, which nothing reads.
`MaxChanges` of 2 in `Inventory` removes an entry and creates it again during one walk.

**Fairness.** Four runs have a liveness property. `RunsEnd` (`publication_turns`),
`CleanRunSucceeds` (`conformance_reruns`) and `WalkEnds` (`inventory_changes`) assume
weak fairness of the steps of a run: the process is scheduled and its system calls
return, with an error or without. Nobody is assumed to start a run, to clear a
directory or to change a file, and stops are never assumed not to happen:
`CleanRunSucceeds` allows a run to be stopped. `ChainHeals` (`authority_heals`) assumes
the same of `compile` and of an observation, and nothing else. That somebody starts
`compile` and the observer again and again, builds in between, and leaves a source and a
contract that compile is the premise of the property (`CommandsAreRun`), not an
assumption of the specification: no script does it. `scripts/conformance.sh` runs the
tests, `gofmt`, `go vet`, the build, `compile`, `git diff` and `conformance`, in this
order, and stops at the first that fails. While the chain is broken its tests fail
(observer_test.go:87), and with cut-off generated Go nothing builds, so it never gets to
its `compile`: the property is about somebody who starts `compile` itself, with an
observer built before, or with `go run` where the generated Go builds.

**Deadlock** is checked in every run; `Returned` and `Finished` are the
program after its end. In `AuthorityChain` and `Conformance` somebody can always act.

### Findings

The `violation` runs show where a document and the code differ:

1. `ContradictionRefutes`: a contradiction behind a support is never read and the
   report is CLOSED (evaluate.go:293-301; README.md:21-23).
2. `CallerDataIsKept`: the directory is checked once and files are truncated
   later (main.go:196, 524; docs/rfcs/semantic-observer-v1.md:36-37).
3. `BoundOneToOne`: cells may share an activity id, a metric id or a metric path
   (compile.go:51, 134; README.md:34-35).

Differences that follow from one line and need no run: evidence declared MISSING is
reported AMBIGUOUS (evaluate.go:286; docs/rfcs/semantic-observer-v1.md:28), evidence
without an exact tuple is valid and never matches (evaluate.go:245;
docs/rfcs/semantic-observer-v1.md:21-23), and directories called `.git` are left out
of the inventory (main.go:336; docs/rfcs/semantic-observer-v1.md:39).

## Proofs

TLAPS proves, for every value of the constants:

| module | theorem | statement |
|---|---|---|
| `ObserverProofs` | `TypeCorrect` | `Spec => []TypeOK` |
| `ObserverProofs` | `CallInvariant` | `Spec => []CallInv` |
| `ObserverProofs` | `DecisionCorrect` | `Spec => []DecisionFollowsStates` |
| `ObserverProofs` | `OnlyAppended` | `Spec => AppendOnly` |
| `ObserverProofs` | `LedgerImplemented` | `Spec => ImplementsLedger` |
| `FaultProofs` | `FaultInvariant` | `Spec => []FaultInv` |
| `FaultProofs` | `FaultsContained` | `Spec => []FaultsAreContained` |
| `FaultProofs` | `ClosedEarned` | `Spec => []ClosedIsEarned` |
| `FaultProofs` | `HistoryInvariant` | `Spec => []HistoryInv` |
| `FaultProofs` | `StreamsReplay` | `Spec => []ReplayAgrees` |
| `FaultProofs` | `UnverifiedExplained` | `Spec => []UnverifiedIsExplained` |
| `FaultProofs` | `ReasonInvariant` | `Spec => []ReasonInv` |
| `FaultProofs` | `ReasonCorrect` | `Spec => []ReasonIsTheFirst` |
| `PublicationProofs` | `TypeInvariant`, `TypeCorrect` | `Spec => []TypeInv`, `Spec => []TypeOK` |
| `PublicationProofs` | `TogetherInvariant` | `Spec => []TogetherInv` |
| `PublicationProofs` | `SuccessBound` | `Spec => []SuccessIsBound` |
| `PublicationProofs` | `TurnInvariant` | runs in turn: `Spec => []TurnInv` |
| `PublicationProofs` | `ManifestSealsTheWhole` | runs in turn: `Spec => []ManifestSeals` |
| `PublicationProofs` | `RemainsRefused` | runs in turn: `Spec => RemainsAreRefused` |
| `PublicationProofs` | `VaultImplemented` | runs in turn: `Spec => ImplementsVault` |
| `AuthorityProofs` | `TypeCorrect` | `Spec => []TypeOK` |
| `AuthorityProofs` | `ChainInvariant` | `Spec => []ChainInv` |
| `AuthorityProofs` | `OneChainAdmitted` | `Spec => []AdmittedIsOneChain` |
| `AuthorityProofs` | `IndicesInRange` | `Spec => []IndexIsInRange` |
| `CompilationProofs` | `TypeCorrect` | `Spec => []TypeOK` |
| `CompilationProofs` | `CompiledIsAccepted` | `Spec => []AcceptsWhatWasCompiled` |
| `CompilationProofs` | `AcceptInvariant` | `Spec => []AcceptInv` |
| `CompilationProofs` | `AcceptedExactly` | `Spec => []AcceptsExactly` |
| `AttributesProofs` | `ScanInvariant`, `TypeCorrect` | `Spec => []ScanInv`, `Spec => []TypeOK` |
| `AttributesProofs` | `LoopAdvances` | `Spec => [][Forward]_vars` |
| `AttributesProofs` | `ReadInvariant` | `Spec => []ReadInv` |
| `AttributesProofs` | `AttributesRead` | `Spec => []ReadsWhatIsWritten` |
| `AttributesProofs` | `RefusalsExplained` | `Spec => []RefusesOnlyTrailingBackslash` |
| `ConformanceProofs` | `ConfCorrect`, `TypeCorrect` | `Spec => []ConfInv`, `Spec => []TypeOK` |
| `ConformanceProofs` | `LateChecksNeverFail` | `Spec => []LateChecksFollow` |
| `ConformanceProofs` | `SummariesAreTrue` | `Spec => []SummaryIsTrue` |
| `ConformanceProofs` | `SuccessEarned` | `Spec => SuccessIsOfThisRun` |
| `ConformanceProofs` | `ConformanceUsesVaults` | `Spec => UsesVaults` |
| `InventoryProofs` | `WalkInvariant`, `TypeCorrect` | `Spec => []WalkInv`, `Spec => []TypeOK` |
| `InventoryProofs` | `StayingCounted` | `Spec => []CountsWhatStays` |
| `InventoryProofs` | `FailsForReason` | `Spec => []FailsOnlyWhenDisturbed` |

The assumptions are one per module, and TLC evaluates them in every run.

* `InputAssumption` (`Observer`): the inputs have their types, the well-formed
  digests are among the digest strings, and the empty string is no identifier.
* `PublicationAssumption` (`Publication`): runs, the caller and nobody are different,
  and the caller uses names of the directory.
* `CompilationAssumption` (`Compilation`): the share is positive, the choices and
  classes the code knows are among the texts a contract may hold, a source has a first
  line (`strings.Split` never returns an empty list), and the contracts at run time are
  contracts.
* `AttributesAssumption` (`Attributes`): a line is trimmed and not empty, as
  `CompileSource` passes it on.
* `AuthorityAssumption` (`AuthorityChain`): sources have activities and contracts have
  cells, the number of cells is positive.
* `ConformanceAssumption` (`Conformance`): fixture directories are of their type and
  the names in one directory differ; there is a run.
* `InventoryAssumption` (`Inventory`): the entries are the elements of a sequence
  without repetition (so there are finitely many), each behind its directory as its
  path is; only a directory has entries. Which of them can be read is left open.

The theorems about runs in turn assume besides that `MaxRunning = 1` and that the set
of runs is finite, so that `Start` waits for the run before it. `SuccessBound` assumes
none of that: any number of runs, of one case or of several, may overlap.

*Types.* `FirstReasonType` and its instances for two to six checks say that a
chain of early returns answers one of its reasons, and none exactly when every
check passes. From them `EvaluatorCheck`, `ClaimCheck` and `EvidenceCheck` show
that the validation accepts exactly what `Immutable`, `WellBound` and
`WellObserved` describe. `ObserveClaimAnswers` lists the answers of the scan: a
contradiction or a support by a decisive item, or an UNKNOWN record of the claim.
`TypeOK` is inductive with these.

*The decision.* The code decides by a flag and a count (`hasRefuted`, the length
of the UNKNOWN list), while `DecisionFollowsStates` speaks of the published
states, so it is not inductive. `CallInv` adds what connects the two
(`FlagsAgree`): while claims are judged the flag is up exactly when the authority
was refuted or some judged claim is, there are UNKNOWN records exactly when some
judged claim is UNVERIFIED, and a refuted authority has refuted all of them. That
an observation without claims is refuted needs `NoClaimsIsAFault`, and that the
states are those of all claims needs the positions of the loops (`Positions`).
`CallInv` was checked with TLC on these instances before it was proved. `Judgement` says once what the three
branches of the judging loop have in common; one lemma per phase of the call
shows that the invariant is kept.

*Faults.* `FaultsAreContained` speaks of the input: which claims and items are at
fault, which evidence names which claim. The code has kept of it a map of ids, the
evidence sorted by claim, and one flag. `FaultInv` says what each of them stands for at
any point of the two loading loops: the keys of the map are the ids of the claims read
(`IdsAdmitted`), a list of the sorted evidence holds exactly the items read that name its
claim (`EvidenceSorted`), and the flag is up exactly when a fault was read
(`FaultsNoted`). A duplicate id is a fault of the second claim, so `ClaimFaultAt` looks
at the claims before it. With these the scan of a claim's list is a scan of its own
evidence, and `ClosedIsEarned` follows at the decision. `FaultInv` was checked with TLC
on the inputs of `observer_calls` first.

*The history.* What is published beside the decision (`ReplayAgrees`,
`UnverifiedIsExplained`, `ReasonIsTheFirst`) relates streams whose records name their
claims by ids, and ids may repeat. `HistoryInv` names positions: the k-th claim and the
k-th state are of the k-th claim of the input (`RecordsNamed`), a transition goes to the
state of a claim of its id (`TransitionsOfStates`), and a settled claim has one
(`SettledHaveMoved`). A repeated id is a fault of the authority, which refutes every
claim alike, so the replay by ids gives the same state for both; without such a fault ids
are positions.

*The reason.* `ReasonIsTheFirst` says which reason a report has to have, from the input
and the states alone. `ReasonInv` carries it through the call: while loading, the kept
reason is that of the first fault among the header, the claims and the items read so far
(`FirstFaultKept`); while claims are judged it is still that one when there is a fault,
and otherwise what refuted the first refuted claim, a self attestation or a contradiction
(`FirstRefutationKept`); and the first UNKNOWN record explains the first claim left
UNVERIFIED, although records are merged (`FirstUnknownKept`). `Resolve` takes the reason
from there (`ReasonReported`). A reason that is replaced by a later one breaks the first
two.

*The refinement.* `ledgerOfCall` pads the states with UNVERIFIED up to the length
of the claims. Reading the header, the end of the claims and the evidence find a
fault or stutter, `AdmitClaim` registers, `EvidenceAdmitted` opens the ledger, a
judging step settles the next claim or stutters when it stays UNVERIFIED, and
`Resolve` publishes the verdict by `DecisionOfStates`.

*The publication.* `ManifestSeals` looks at the directory only, so it is not inductive:
what matters is what the running run may rely on after its single check that the directory
is empty. `TurnInv` adds that runs do not overlap (`Alone`), that every file is the
running run's own or the caller's (`OwnOnly`), that no manifest decodes before the last
write (`Unsealed`), that the files up to `next` are whole and the one being written is
empty (`WrittenSoFar`), and that the receipt bytes to be bound are those on the disk
(`Bound`). `OwnOnly` gives `RemainsRefused`: a run in progress opens and writes files, and
none of them is of a run that has ended. For the vault, `WriteFile` of the manifest is
`Publish`, the end of a run is `Succeed` or `End`, `CallerClears` is `Clear`, and all else
stutters; the caller's additions move no seal because an artifact under its name is not of a
run. `TurnInv` was checked with TLC on the instance of `publication_turns` first.

*Runs at the same time.* Two runs may both find the directory empty and then write over
each other. `SuccessIsBound` says what is left of the promise: once all have written, the
run whose manifest is there has reported success only if this manifest records the digest
of the receipt that is there, beside five complete files. `TogetherInv` follows the last
writer of every file (`FilesComplete`): an incomplete file is of a run that is still at it
or has stopped. No file that a running run has written is gone (`NothingGone`), so once
all have written, the directory does not change any more, and the run whose manifest is
there has compared this manifest with this receipt (`LastOne`). No more is true: for one
case the five other files may be of several runs, and a run may report success although
the manifest that stays is of the other, which binds a receipt of either. Cases are
compared (main.go:451-453), runs are not.

*The chain.* That an admitted observation has read one chain needs what was true
when the binary was made: `ChainInv` says that every generated file, on the disk or
built in, is that of a source and a contract that compile (`GeneratedOnly`), that
`compile` writes only such pairs (`CompilesWhatIsWritten`), that the contract of the
second reading is valid when it is judged (`JudgesValidContract`), and that an
admission rests until the next observation starts. The step that matters is
`JudgeAdmits`: the first reading equals the contract built in, whose cells are the
built-in activities; the second reading has as many cells and agrees with those
activities one by one; so the two readings have the same cells. Two contracts that
differ elsewhere in their bytes may still be read, which is why the property speaks of
cells. `ChainInv` was checked with TLC on the instance of `authority_edits` first.

*The compilation.* `BindInv` carries the number of cells from the first check to the
end, the number of nodes from their count on, and which nodes are bound already. At the
end every cell has a node that says of the activity what the cell says: the list of
compile.go:126 leaves out no field (`BindsDescribed`). Neither does the list of
evaluate.go:214, applied to what `GenerateGo` writes for the node (`GeneratedDescribed`).
`SameCellFields` says that two cells agree on all that an activity says of them exactly when
they differ at most in their number and the prefix of their id; so the activities are
accepted for a contract exactly when it says of every cell what the compiled one said.

*Acceptance.* `AcceptInv` says that the two sets, the two counters and the nodes are
those of the cells and lines read so far, and that a refusal was right. Two points are
not in the loops. The balances of a contract are checked by name: that three entries
with three expected names are one entry for each is a pigeonhole argument. And cells of
an unknown choice are refused although no check looks for them, because three shares of
known choices use up all cells.

*Attributes.* `ScanInv` adds to the types that a value begins before the position, and
that the text is not empty; every index of the code then lies inside the text. A key
takes a character, so every turn of the loop gets on (`Forward`).

*Reading.* The code goes from the front of a text and `AttributesOf` from its end.
`ReadInv` joins them: the attributes read so far are those of a list `done`, and the
lists that the text may be are `done` continued by the lists from the place where the
running turn of the loop began (`Continued`); `Reading` says how far that turn has got.
Two lemmas compare where a value ends. What can be unquoted up to a quote ends there for
the reference too (`UnquotedCloses`): walking its characters, every place either begins
a character, with an even number of backslashes before it, or is the second half of an
escape. And the reference never goes further than a quote with no backslash before it
(`ClosesNotLater`). So when the code refuses a list of attributes, the reference has
ended the value before the code did, at a quote with a backslash before it and with more
text behind it. That the two recursive functions are what their equations say is proved
by giving solutions from a place on, down to the first (`UnquotedSolved`,
`AttributesSolved`). `ReadInv` was checked with TLC on the instance of `attributes_texts`
first, with one piece less.

*Conformance.* The code keeps reports and looks at nothing else after the loop.
`ConfInv` says what a report stands for: an entry of the fixture directory, in the order
of the names (`ReportsAreOfEntries`), a decision as the name expects it
(`ReportsAreExpected`), a directory that this run has left whole. Twelve reports of
different cases are one of every case: an injection between finite sets of equal size.
From this the counts of 3, 4 and 5 follow, so the checks behind the loop never fail. The
rows printed are one of each case, whatever they show as case id (`RowsAreTrue`): a
bijection from the cases of a decision to its rows. A summary once written stays true as
it says of which reports it is, also when the fixtures change. For `ConformanceUsesVaults` a step touches the directory of one case
at most, as `BeginCase`, `PublishCase`, a stop or the caller's clearing allow.

*The inventory.* `CountsWhatStays` compares numbers, at the end. `WalkInv` speaks of sets:
there is a set of entries that has been counted (`IsCounted`), none of which a pending
task will meet again, and whatever stays is in it or is still to come; every task leads to
entries of its own (`Owns`, `Apart`), inside the root and outside of every `.git` (`Due`).
A step replaces the next task by tasks that share out what it led to (`TaskDone`): the
entries of a directory are below it, siblings have nothing in common below them, and what
stays below a directory is below one of the entries listed, as a tree contains the
directories of its entries. A change of the tree only makes less stay and more be seen
(`TreeChanged`). Numbers come from the sets at the end: more entries, greater counts
(`MetricsMonotone`), one entry more, its own counts more (`FileCounted`). A walk fails at
the entry of its next task (`WalkFailed`), and that is the root or one that is to be counted
(`VisitedIsCounted`), so no fault of another entry, in a `.git` for instance, can matter.
`Above` is
recursive; that it is what its equation says is proved by giving the solution, the least
set with the entry that holds the directory of every member. `WalkInv` was checked with
TLC on the instance of `inventory_changes` first.

Model-checked only: the properties of the findings, which do not hold, and the liveness
properties, as liveness under fairness is outside the prover's reach. Every invariant and
every action property of the passing runs is proved.

## Not modelled, and the plan

Not modelled: rendering of reports beside the rows and counts of the conformance
summary, sha256 (digests are taken as injective), wall time and memory, the encoding of
the semantic IR and the formatting of the generated Go, `jq` and `go vet` checks of the
scripts. They decide nothing that another part uses. `Decode` stops behind the first
JSON value of an input (evaluate.go:24); the model knows only whether that value
decodes.

What is left: the safety half of the liveness properties, that is a measure of the work
that remains (the tasks and entries ahead of the walk, the files a run has still to
write) with the theorem that every step of the process lowers it, as `LoopAdvances` has
it for the loop of `parseAttributes`.
