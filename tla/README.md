# SBOMit-strace-prototype: specification, model checking and proofs

This directory holds a TLA+ development of the scripts in `src/`. The program is
a chain of shell and Python scripts, one process at a time, that hand each other
files: there is no lock, no transaction and no database, only the file system, the
shell's position in it, and the order in which the scripts are run. What can go
wrong is therefore what happens between two commands: a directory that cannot be
entered, a script killed half way and run again, a folder that changed between
two stages, a file of one stage that another takes for something else. The models
keep every command that changes a file, a directory or the shell's position, and
abstract what the files hold to sets.

## 1. The system

```
 projects/ --run_all.sh--> *-pkg.txt ---------+--> run_combine_pkgs.sh --> *-combine-pkgs.txt
     |           |                            |          ^       |               |
     |           +--> binaries --run_bin_pkgs.sh--> *-bins-pkg.txt |               +--> attest-gen.sh --> signed link
     |                                        |          |       |               |
     +--sbom_generation.sh--> *-sbom.json ----+----------+       |               +--> new_sbom_gen.sh
                                   |                             |                     (golang-ir-sbom-gen.sh)
                                   +--> run_compare.sh, run_pkgs_compare.sh (evaluation)
```

(`attest-gen.sh` takes any list: the README of the repository passes `*-pkg.txt`.)

| Component | State | Operations | What is hard | What makes it correct |
|---|---|---|---|---|
| Go collection loop, `Golang/run_all.sh` | `$PWD`, `$OLDPWD`, the log, the package file, the binaries | enter, `go mod tidy`, `go build` under strace, `cd -`, subshell per subdirectory, filter, append, remove the log | failed `cd`, kills, second run over leftovers, edits under a running script | no evidence is lost, every binary is explained by evidence, evidence is the project's own, the loop does not stray without bound |
| Log and filters, the pipelines of the three `run_all.sh` | the log's lines | calls of several processes, output of the build, the pipelines | lines cut by other processes, and the build's words behind a cut line | whatever was opened is reported, unless the build itself prints what a pattern looks for |
| Combine, `run_combine_pkgs.sh`, `combine_pkgs.py` | three arrays, an index, the output files | list, guard, truncate, read, print | positional pairing, failing python, kills | never mixes projects; a result is blank or whole |
| SBOM generation, `sbom_generation.sh` (three) | projects and SBOM files | `cdxgen`, test, delete | it deletes projects; stale files; relative paths | projects and SBOMs stay in step; healthy projects survive |
| Attestation, `attest-gen.sh` (two) | list, module cache or registry, link file | resolve, record materials, build, record products, sign | the cache changes between the stages; the list may be cut short or be that of an older product | every signed product is explained by signed materials, as far as the list goes |
| New SBOMs, `new_sbom_gen.sh` with `golang-ir-sbom-gen.sh`, and `rust-ir-sbom-gen.sh` | generated `go.mod` or `Cargo.toml`, new SBOM, position in the folder | copy, add, rename, `cdxgen`, stop | stops in the middle, kills, stale folders; names and versions cut at dashes and `@` | an SBOM is made of exactly its project's lines, and names what they meant |
| Binary lists, `run_bin_pkgs.sh` (three) | `*-bins-pkg.txt`, a temporary file | read, append | appends to what is there, kills | a list is explained by binaries, and complete when gathered |
| Comparison, `run_compare.sh`, `run_pkgs_compare.sh`, `compare_*analysis.py` | two arrays, index, five counters | list, check, compare, count, print | positional pairing, failing python | the totals are true; aligned folders are never refused |
| Rust and C collection loops, `Rust/run_all.sh`, `C-C++/run_all.sh` | as in Go; in C the build folder, and a log that is kept | `cd && cargo build`, `cmake && make`, `cd -`, filter, remove the log | `>` empties logs and lists; failing and incremental builds; a guard that skips the build | evidence is of one build and the project's own; nothing a run saw is missing; products are explained |
| Earlier two-step Go collection, `collect_syscall.sh`, `collect_pkg.sh` | as in Go; logs are kept | the loop, and a second script over all logs | `cd &&` over the whole build, logs that grow | the same |
| The stages in sequence (the README's steps), `collect_project.py` | all folders | each stage, in any order | every stage must leave a file for every project, or positions shift | a pass in order is whole, whatever was there before |
| `find_comm.sh`, `find_exec.sh`, `evaluation/scripts`; `demo/` | | | | not modelled, section 7 |

The components interact only through files and the order of the runs. The models
let an earlier stage be run again before any run of a later one, leave what a
killed run leaves, and let a developer edit projects, clean the module cache or
replace binaries where the code leaves room for it.

## 2. The modules

Each component has a module (constants with named assumptions, variables, one
action per command or loop step, `Next`, `Spec`, `FairSpec`, properties), an `MC`
module where the instance needs definitions, and a `...Proofs` module. Actions are
named after what the code does; the comment in front gives the command. Definitions
marked *Seeded fault* are mutated forms of the definition that follows them; they
are used by no specification, only to show that the properties can fail.

* **RunAll** is the loop of `Golang/run_all.sh`. `cwd` and `oldpwd` are the
  shell's `$PWD` and `$OLDPWD`; `path` is what `realpath` made of the loop's
  relative name, which depends on `cwd`. `CdRoot`, `Tidy`, `Build` are line 43 (the
  `&&` guards only `Tidy`), `CdBack` line 45, `FindSubs`, `EnterSub`, `SubsDone` the
  `find | while` loop and its subshell, `Filter`, `AppendLine`, `AppendDone`,
  `RemoveLog` lines 69-110. `Crash`, `StartAgain`, `Edit` and `Vanish` are the
  environment. `Star` is the literal `*/` of an empty folder.
* **CollectLoops** is the loop of the Rust and C `run_all.sh` and of
  `collect_syscall.sh`; `variant` tells them apart. `CdRoot` is `cd &&` with the
  build behind it, `TraceOver` and `TraceOn` are `>` and `>>`; `Build`, `Configure`,
  `Make` and `MakeDir` are `cargo build` or `go build`, `cmake`, `make -j4` in a build
  folder that keeps what was compiled (`objects`), and `make` of a directory, which
  builds nothing. `Filter` empties the list and `Distil` fills it, `RemoveLog` is
  Rust's alone, `CollectPkg` is `collect_pkg.sh`. Every line of a log or list carries,
  as a ghost, the run and the directory of the build that opened the file.
* **StraceLog** says how the opens of several processes and the build's own output
  become lines of one log, and what the three pipelines make of each line. An open
  succeeds, finds nothing or fails otherwise (`Result`); the build prints lines that may
  have in them what the pipelines' patterns look for (`Mention`: a quote, a library's
  name, what line 68 of the C script drops, a path with `/cache/`, the quoted path of a
  crate), and these run on behind the head of a call that was waiting. The names
  every component has (`LogInit`, `LogNext`, `LogTypeOK`) begin with `Log` in it, so that
  PipelineProofs can have it beside Pipeline, whose `Distil` it details.
* **EvidenceUnion** is the abstract specification of the combine stage: a result
  per project, blank or the project's whole evidence, unless the worker dies.
  **CombinePkgs** is `run_combine_pkgs.sh` with the `combine_pkgs.py` it calls;
  it implements EvidenceUnion under a refinement mapping that counts the file
  python3 is printing as blank.
* **SbomGeneration** is the loop of the three `sbom_generation.sh`; `lang` tells them
  apart (Go and Rust remove SBOM and project, C only looks). `RemoveBegins` and
  `RemoveEnds` are `rm -rf`, which can be killed in between.
* **Attest** is `attest-gen.sh` with what in-toto-run does: `FindRoot`, `ReadList`,
  `RecordMaterial`, `Build`, `Sign`. `Change` and `Edit` are the users of the cache and
  of the project. `CollectAgain` and `CombineAgain` are `run_all.sh` and
  `run_combine_pkgs.sh`, run again one without the other or killed: the list the script
  finds may be any, and `whole` (a ghost) says whether it is that of the product and
  was written to its end.
* **Names** says what becomes of a name and a version on their way: `FromCrate` is the
  `sed` of `Rust/run_all.sh`, which puts an `@` for every dash in front of a digit,
  `FromPurl` what `combine_pkgs.py` takes of a bom-ref, `Written` what `awk -F @` reads
  back. A name is the sequence of the parts between its dashes.
* **NewSboms** is the batch of `new_sbom_gen.sh` with the steps of
  `golang-ir-sbom-gen.sh` inlined, and, for `lang = "rust"`, `rust-ir-sbom-gen.sh`
  called by hand (`CallByHand`) for one project after the other in any order.
* **BinPkgs** is `run_bin_pkgs.sh` in three variants. `SortFolder` and `AppendFolder`
  are `sort` and `uniq >>`, and C's `sort -u -o`, which empties the list before it
  writes it back. **Evaluation** extends it with
  the two comparing scripts and composes them: binaries change, lists are made and
  made again, and compared at any moment.

* **Pipeline** puts the stages together: all folders, and one iteration of each stage
  in two steps (`Describe` and `Decide`, `Collect` and `Distil`, `Touch` and
  `AppendLinked`, `Pair` and `Unite`, `NewSbom`), so that a kill can fall in between.
  `Start` is the user, who may run any stage at any time; `Clone` is
  `collect_project.py`. `ListFiles`, `BinFiles` and `At` are the arrays the combine
  stage pairs by position, with the logs that a killed collection left among the
  lists. `absolute` is how the first stage's `-o` was given; a relative one, as in
  `Golang/README.md:22`, puts the SBOMs into the projects (`inner`). `modules` are the
  projects with a `go.mod`, which the batch tests for: a clone may come without, and
  a killed `rm -rf` may take it and leave the directory.

The stages have modules of their own with every command, which keeps each state
space small enough to be searched completely; Pipeline has what passes between them.
What EvidenceUnion promises of a list, and `PairingNeverMixes` proves of the combine
stage under any kills, is what NewSboms (`Left`) lets the earlier stages leave.

## 3. What the runs show

| Run | Instance | Shows |
|---|---|---|
| `runall_core` | two projects, one with two subdirectories of one basename, either may be impossible to enter; two runs, one edit or removal at any step; 0.8 M states | `TypeOK`; `NothingLost`: log and package file together hold all that was opened, at every command; `BinaryExplained`: a binary's packages are in the evidence kept; `OwnEvidence`: evidence is of the project's own tree, whenever it and the project before it could be entered; `DriftBounded`: at the head of the loop the projects folder is `$PWD` or `$OLDPWD`; `HandledComplete`; `EveryEntryHandled`: no entry makes the loop stop |
| `runall_cwd` (violation) | three projects, any of them impossible to enter | the comment of line 45, that `cd -` goes back to the projects folder, is wrong after a `cd` that failed: the loop leaves the folder |
| `loops_core` | three projects, the first with a subdirectory and a `CMakeLists.txt`, the second perhaps impossible to enter; all three scripts; two runs, one edit or removal at any step, builds that fail anywhere; 0.9 M states | `OwnBuildOnly`: what a log or list names was opened by a build in the project's own tree and, in Rust and C, in one run; `SeenIsListed`: all that this run's builds opened is in the evidence when the loop is past the project; `ProductExplained`: a build folder filled from scratch is explained by the list; `ReachableBuilt`: a build is started for every project that can be entered, unless the one before could not |
| `combine_core` | two projects and a stray file, every combination of folders and malformed SBOMs, three runs, kills; 67 k states | `NoMixing`, `AlignedComplete`; the refinement `KeepsPromise` |
| `strace_core` | two processes, three calls, each of which may succeed, find nothing or fail otherwise, two lines of output; 3.1 M states | `LibrariesComplete`, `ModulesComplete`, `CratesComplete`: what each pipeline is sure to report, and under which condition on the build's output; `AbsentNotReported`: what the C pipeline reports was opened, or refused for another reason than that it is not there, or its line was cut |
| `sbom_core` | three projects, one perhaps impossible to enter; all languages, absolute or relative `-o`, kills, later runs; 190 k states | `NoOrphanSbom`, `Settled`, `HealthyDescribed` |
| `sbom_relative` (violation) | the same | with a relative `-o`, as in the documented example, no SBOM reaches the output folder |
| `attest_core` | two packages, one with a capital; both languages; any list; kills, edits, cleaned caches, collection and combine run again; 2.2 M states | `ProductExplained`: what is signed as a product is explained by what is signed as materials, in the very version, as far as the list names it and wholly if the list was whole; for packages nobody touched that lie where the script looks |
| `attest_mixed` (violation) | the same | a Go package with a capital in its name is missing from the materials |
| `newsboms_core` | two projects, any list or `go.mod` missing, two batches in Go or rounds of calls in Rust, kills, any change between them; four packages with dashes, numbers behind dashes, no version; 251 k states | `NewSbomExact`, `NamesSurvive`, `AbortKeepsLater`, `BatchEnds` |
| `evaluation_core` | two projects, two changes of binaries, two runs of the list script in each language, comparison with any of 18 left folders at any moment; 1.1 M states | `ListsExplained`, `CollectedComplete`; `TotalsTrue`, `RefusesOnlyMisaligned`; across both stages, `AgreementIsEvidence`: condition 0 for all projects means that all the binaries name is in the SBOM |
| `pipeline_core` | two projects, Go or Rust, one of which may have no `go.mod`, absolute or relative `-o`, any five stages and then a pass, kills (also inside `rm -rf`), failing builds and SBOMs, clones; 5.4 M states | `PassIsWhole`: a pass in the README's order, with an absolute `-o`, gives every project that is left its whole evidence and, in Go and if each has a `go.mod`, a new SBOM, whatever was run and killed before; unless files of deleted projects are in the way |

The three violation runs are the findings of `PROJECT.json`: places where the code
does not do what a comment or the documentation says.

**Bounds.** Constants named `Max...` bound runs, changes, calls and outputs and are
used in guards only. Two runs are the least that show what a killed run leaves to
the next; three where a leftover can be covered up by a second run (combine). Two
projects are the least in which one's evidence can reach the other; three are used
where a position in a sequence matters (a drifting loop, a batch with something
before and behind the project in hand). Two packages tell "all" from "some". The
safety properties are proved without any of these bounds (section 5), so the
instances matter most for the liveness properties, where every loop of the code runs
at least twice. The ten starts of Pipeline are a complete pass of five stages after
any five others, a whole pass among them; those after which no whole pass would fit
into the bound are left out (`Start`).

## 4. Fairness and assumptions

`FairSpec` adds weak fairness of the script's own next step: the commands the
scripts run (`go`, `cargo`, `cdxgen`, `strings`, `python3`) return, and the shell
goes on to the next. There is no fairness of the environment: nobody has to kill,
edit, or run a script again that is over. There is one exception: for Rust the batch of
NewSboms is a user who calls `rust-ir-sbom-gen.sh` for one project after the other, and
`BatchEnds` supposes that this user goes on (`CallByHand` is in the fairness). Every
liveness property lets the script be killed.

Assumptions on the environment, each visible in a module:

* Stages run one after another. RunAll and Attest let projects and caches change
  under a running script; Evaluation lets binaries change between scripts,
  CombinePkgs and NewSboms let folders change between runs; SbomGeneration starts
  again from what it left.
* A directory that cannot be entered can also not be listed; `$PWD` and `$OLDPWD`
  are not deleted under a running shell; the directory the script was started in and
  the projects folder are not themselves Go modules, and hold no entry that is
  named like a project except the projects folder's own.
* A build that succeeds has opened the module file of every package in its binary.
* `rm -rf` and `mkdir -p` succeed when they are not killed.
* in-toto-run passes over materials that do not exist. cdxgen, go, cargo and strace
  are modelled from how the scripts use them and marked external in the map.
* File names have no blanks, base names in nested folders do not repeat, and `sort` and
  the shell order them bytewise, so that the literal `*` comes first.
* Pipeline assumes that every directory can be entered and that SBOMs parse; RunAll,
  CollectLoops, SbomGeneration and CombinePkgs have the other cases.
* A file is a set of whole lines: where a kill cuts the last line in two, the models
  take that line for lost. The build's output, too, comes in whole lines.
* The comparison orders files by the project's name. The shell, which expands a literal
  `*-pkg.txt`, orders by the whole file name (`a-c-pkg.txt` before `a-pkg.txt`); where
  one name is the beginning of another that goes on with a character below a dash, or
  with a dash, `Listing` does not show the difference.
* An incremental `make` recompiles what its build folder lacks and nothing else.

Abstractions: contents of files are sets, because every consumer removes duplicates
or reads into a Python set; the decoding of names (`!x` to `X`) is a property of the
package in Attest, where it matters, and left out elsewhere; wording and the
parsing of options are left out.

## 5. What is proved

All theorems are checked by TLAPS for every value of the constants that satisfies
the named assumption of its module; in particular for any number of projects,
runs, changes, kills and packages. Each proof has an inductive invariant of named
parts, a lemma that `Init` establishes it, and a lemma for each part (in
EvaluationProofs for each action) that every step keeps it, in which the actions that
leave alone what the part speaks of are one case; the theorem is then a consequence.
TLC had checked the invariants on the instances above before.

| Module | Theorems | Inductive invariant, and why it is needed |
|---|---|---|
| RunAllProofs | `TypeCorrect`, `NothingIsLost`, `BinariesAreExplained`, `DriftIsBounded`, `EvidenceIsOwn`, `HandledAreComplete` | relates the shell's position to whether the last entry could be entered, and says at each command what is in the log and what is in the package file. The safety properties speak of kills at any command, so the invariant must say where evidence is at each of them |
| CombinePkgsProofs | `TypeCorrect`, `PairingNeverMixes`, `Refinement`, `AlignedRunsComplete` | after the guard the three names in hand are one name or empty; the output in hand is contained in that project's evidence. `Refinement` maps `Init` to the abstract `Init` and every step to a step or a stutter |
| CollectLoopsProofs | `TypeCorrect`, `EvidenceIsOfOneBuild`, `SeenIsKept`, `ProductsAreExplained`, `ReachableIsBuilt` | which script is at which command; that log and list of the entry in hand hold what this run's builds opened so far and, before the first of them, that there is nothing yet; where the shell is, given whether the last two entries could be entered |
| PipelineProofs, of Pipeline | `TypeCorrect`, `PassesAreWhole`, `StopsAreExplained` | what each stage has done for the entries its loop is past, and that the stages behind it keep that; on a first pass, that all files are of projects that are there; that what a list has linked was built; see below |
| PipelineProofs, of StraceLog | `LogTypeCorrect`, `LibrariesAreComplete`, `ModulesAreComplete`, `CratesAreComplete`, `AbsentAreNotReported` | a path a process opened is at the head of the last line, or in a complete line with nothing behind it that the build did not say; a line that does not say `ENOENT` has a path that was opened, refused or cut off |
| SbomGenerationProofs | `TypeCorrect`, `NoOrphans`, `RunsSettle`, `HealthyAreDescribed` | where the shell is; that projects still to visit are untouched by this run; what the file of a visited project says about the project |
| AttestProofs | `TypeCorrect`, `ProductsAreExplained` | what is on the list has been recorded as it lies there, is still to be, or could not be found; a list that is whole names all the product, and so the next build, is compiled from; and a package nobody touched since is what it was |
| NewSbomsProofs | `TypeCorrect`, `NewSbomsAreExact`, `NamesSurviveConversion`, `AbortsAreClean` | the `go.mod` in hand is the project's own plus the kept lines read so far; folders are visited in order, those ahead untouched and those behind finished |
| EvaluationProofs | `TypeCorrect`, `ListsAreExplained`, `CollectionsAreComplete`, `TotalsAreTrue`, `RefusalsAreMisaligned`, `AgreementsAreEvidence` | what has not been read of the folder in hand is all that list and temporary file lack, and while C sorts, the list is in the memory of `sort`; the counters are the cardinalities of the visited part of the array, which the absence of `*-pkg.txt` makes free of repetitions; a verdict is there only while what it was given on cannot change |

`AgreementsAreEvidence` is a result about two scripts together: it needs the
invariants of both.

`PassesAreWhole` is the result about all stages. `PassIsWhole` speaks of the end of a
pass, so the invariant must say what holds in the middle of one: for each stage,
what it has done for the entries that are no longer in `todo` (`SweepInv`,
`CombineInv`, `BatchInv`), also half way through an iteration (`LoopInv`); that a pass
counts no stage that was not started, and the first only with an absolute `-o`
(`PassInv`); and that a first pass has made every file there is for a project that is
there, or for the literal `*` if there is none (`FirstInv`). That the combine stage then pairs every project with its own files is
no induction but a fact about positions (`Aligned`, `Paired`): two folders with the
same names list them in the same order, and the number of names in front of one tells
it from all others. Folders are sets of any size here, so the lemmas count the names
in front of one, which are finitely many, and nothing else.

`StopsAreExplained` is an action property that follows from the same invariant: in such
a pass the combine stage never takes its `exit 1`, and the batch takes it at a project
without a `go.mod` and nowhere else. It is stated in PipelineProofs
(`StopsExplained`), as `pipeline_core` has the state property that a user sees.

`NamesSurviveConversion` rests on lemmas about sequences: for a name with no digit
behind a dash, `Written` undoes `FromCrate` and `FromPurl`.

Only model-checked: the liveness properties `EveryEntryHandled` and `BatchEnds`, which
are outside what the prover supports. Every other property of a passing run has a
theorem.

## 6. Hazards

`PROJECT.json` lists what in this code is hard to test, each at its line, with the
properties that would catch it. Several are faults that the models reproduce and the
properties are stated around, which a reader of the properties should know:

* After an empty projects folder `run_all.sh` leaves `*-pkg.txt`. The unquoted array
  of `run_pkgs_compare.sh` expands it to every file of its folder; with
  `*-bins-pkg.txt` on the other side every project is counted twice. `TotalsTrue` is
  stated for folders without it.
* `compare_analysis.py` drops components that contain the project's name as a
  substring (`Mentions`); `AgreementIsEvidence` speaks of what remains.
* `golang-ir-sbom-gen.sh` skips packages that are a substring of a replacement
  (`Hidden`); `NewSbomExact` speaks of what is kept.
* Evidence files are appended to: packages of earlier builds stay. The properties say
  that nothing is lost and nothing foreign gets in, not that nothing old stays.
* Failed opens are reported as evidence by the Go pipeline, and by the C pipeline
  when they failed for any reason but that the file is not there, or when the line was
  cut (`AbsentNotReported`).
* The C pipeline drops an opened library when the build prints `.cache`, `.conf` or
  `(No such file or directory)` behind the head of the open, and reports something else
  when it prints a quote there; `LibrariesComplete` speaks of output without these.
* The greedy `sed` of the Rust pipeline prefers the quoted path of a crate that the
  build prints to the one that was opened; `CratesComplete` speaks of output without
  such a path.
* `sort -u -o` of C's `run_bin_pkgs.sh` rewrites the list in place: killed there, it
  loses what an earlier run had listed. `CollectedComplete` speaks of lists that no
  later run has begun to sort.
* With a combined list that is cut short or older than the product, the attestation
  signs a product with packages no material explains. `ProductExplained` excuses
  exactly the packages such a list does not name.
* A Rust build that fails overwrites the list and leaves the product of an earlier
  build; a second run of the C loop lists only what it recompiled. `ProductExplained`
  of CollectLoops speaks of build folders filled from scratch.
* When a Rust project cannot be entered its list is emptied, and so is the list of
  the next project, which is not built.
* A crate with a number behind a dash in its name comes out of the two conversions as
  another crate; `NamesSurvive` speaks of the others (`Plain`).
* When `sbom_generation.sh` deletes a project of an earlier pass, the files of that
  pass stay and stop every later combine; `PassIsWhole` speaks of folders without
  such files (`Orphans`).
* With the relative `-o` of the README's example no SBOM reaches the folder that the
  later stages read (`sbom_relative`); `PassIsWhole` speaks of passes with an absolute one.
* A `rm -rf` that is killed leaves a project without its `go.mod` that a later run can
  keep, and the batch stops there; `PassIsWhole` promises new SBOMs if every project has
  a `go.mod`, and `StopsAreExplained` says that nothing else stops it.
* A project that `cdxgen` fails on is kept if an earlier run left an SBOM for it. No
  property excludes that, because the code accepts it: `Settled` counts the stale SBOM,
  and `HealthyDescribed` speaks of projects `cdxgen` did not fail on.

## 7. What is not modelled

* `collect_project.py`, but for the clone itself (Pipeline): which repositories it
  finds on a web page is network input.
* `find_comm.sh`, `find_exec.sh`, `Golang/evaluation/scripts`: read-only reports over
  finished files. The scripts of `evaluation/scripts` are earlier copies of
  `run_compare.sh` and `compare_analysis.py`, which Evaluation models.
* What `cargo` and `cdxgen` make of a `Cargo.toml` with two `[dependencies]` tables.
* `demo/`, `Golang/evaluation/examples`: third-party sources and recorded output.
  The tree has 3244 files, of which nearly all, and every Rust and Go file, are
  vendored crates and demonstration projects (also under
  `Golang/evaluation/examples`) that the program is tried on. The program is the
  shell and Python scripts of `Golang/`, `Rust/` and `C-C++/`, some 2600 lines, a
  good third of them alternative copies and one-off reports; a count of the lines
  covered that is taken over the Rust and Go sources is zero and says nothing about
  the scripts.

## 8. Plan

Done, in this order: RunAll, CombinePkgs over EvidenceUnion, StraceLog,
SbomGeneration, Attest, NewSboms, BinPkgs and Evaluation, CollectLoops, Names with the
Rust variant of NewSboms, each with its proofs, and Pipeline.

Left:

1. Pipeline with directories that cannot be entered: SBOM generation passes over them
   and the collection does not, so that they shift the pairing.
2. `find_comm.sh`, whose count of equal lines needs lists without repetitions, which
   the Go and Rust lists are not after a second run.
