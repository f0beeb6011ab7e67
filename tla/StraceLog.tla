----------------------------- MODULE StraceLog -----------------------------
(***************************************************************************)
(* How the opens of a build become lines of a strace log, and what the     *)
(* three collection scripts distil from the log.                           *)
(*                                                                         *)
(* `strace -f -e openat <build> >> log 2>&1` follows every process of the  *)
(* build and writes to the one file the build itself prints to.  The head  *)
(* of a call (with its path) is written on entry, its result on return.    *)
(* When anything else is written in between, the line ends there: strace   *)
(* writes `<unfinished ...>` and later a `<... openat resumed>` line that  *)
(* has the result but no path, and the build's own output simply runs on   *)
(* behind the head, where the filters' patterns meet it.  A log is         *)
(* abstracted to the set of its lines, a line to what the filters look at; *)
(* all three end in sort -u or sort | uniq, so neither order nor           *)
(* repetition matters.                                                     *)
(*                                                                         *)
(* The names that every component has (Init, Spec) begin with Log here, so *)
(* that a module can have this one beside the stages the log is a part of. *)
(***************************************************************************)
EXTENDS Naturals

CONSTANTS
  Proc,     \* processes of the build
  Path,     \* paths they open
  Lib,      \* paths with ".so." in them ...
  Conf,     \* ... of which these also match \.cache|\.conf
  Mod,      \* paths that match /go/pkg/mod, @v and \.mod$ ...
  Cached,   \* ... of which these lie below /cache/
  Crate,    \* paths that match \.cargo/registry/cache/.*\.crate"
  Noise,    \* what a line of the build's output may have in it, see Mention
  None,     \* no path
  Text,     \* a field that is no path: build output, or a quoted part of it
  MaxCalls, \* bound: calls of openat
  MaxOutput \* bound: lines the build prints

Mention == {"quoted",  \* a double quote
            "lib",     \* a name with ".so."
            "drop",    \* .cache, .conf or (No such file or directory)
            "cache",   \* a path with /cache/
            "crate"}   \* .cargo/registry/cache/....crate and a quote behind it

ASSUME PathAssumption ==
  /\ Lib \subseteq Path /\ Conf \subseteq Lib
  /\ Mod \subseteq Path /\ Cached \subseteq Mod /\ Crate \subseteq Path
  /\ Mod \cap Lib = {} /\ Mod \cap Crate = {} /\ Lib \cap Crate = {}
  /\ None \notin Path /\ Text \notin Path /\ None \notin Proc
  /\ Noise \subseteq SUBSET Mention
  /\ \A n \in Noise : "crate" \in n => "quoted" \in n
  /\ MaxCalls \in Nat /\ MaxOutput \in Nat

VARIABLES
  phase,    \* "build" while strace runs, then "filter"
  call,     \* call[q]: the path q is opening, or None
  head,     \* the process whose call's head ends the log, or None
  log,      \* the complete lines
  result,   \* what each filter made of the log
  got,      \* history: paths some process opened successfully
  refused,  \* history: paths some process could not open though they exist
  cut,      \* history: paths whose line was cut before the result
  said,     \* history: what the build's output has mentioned
  calls, outputs  \* how many of each so far (bounded)

logVars == <<phase, call, head, log, result, got, refused, cut, said, calls,
             outputs>>

\* EACCES, ELOOP, EMFILE and so on are all the same to the filters.
Result == {"ok", "ENOENT", "failed"}

\* enoent: the line says "(No such file or directory)".
LineOf == [path : Path \cup {None}, enoent : BOOLEAN, noise : SUBSET Mention]
Line(f, e, n) == [path |-> f, enoent |-> e, noise |-> n]

LogTypeOK ==
  /\ phase \in {"build", "filter"}
  /\ call \in [Proc -> Path \cup {None}]
  /\ head \in Proc \cup {None}
  /\ log \subseteq LineOf
  /\ got \subseteq Path /\ refused \subseteq Path /\ cut \subseteq Path
  /\ said \subseteq Mention
  /\ result \in [{"c", "go", "rust"} -> SUBSET (Path \cup {Text})]
  /\ calls \in 0..MaxCalls /\ outputs \in 0..MaxOutput

-----------------------------------------------------------------------------
(* The filters. *)

\* Seeded fault: $NF in place of $(NF-1), what follows the last quote.
CFieldLast(l) == Text

\* Seeded fault: the second field, whether anything is quoted or not.
CFieldSecond(l) == IF "quoted" \in l.noise THEN Text ELSE l.path

\* C-C++/run_all.sh:69.  awk -F'"' '{print $(NF-1)}' takes what stands before
\* the last quote, or the whole line if there is none.
CField(l) == IF "quoted" \in l.noise \/ l.path = None THEN Text ELSE l.path

\* Seeded fault: the lines of failed opens are kept.
CFilterKeepsFailed(lines) ==
  {CField(l) : l \in {l \in lines : /\ l.path \in Lib \/ "lib" \in l.noise
                                    /\ l.path \notin Conf
                                    /\ "drop" \notin l.noise}}

\* C-C++/run_all.sh:67-70.  Both greps look at the whole line: what the build
\* printed behind a head can bring it in, and can drop it.
CFilter(lines) ==
  {CField(l) : l \in {l \in lines : /\ l.path \in Lib \/ "lib" \in l.noise
                                    /\ l.path \notin Conf
                                    /\ ~l.enoent /\ "drop" \notin l.noise}}

\* Seeded fault: only lines that end behind the call are looked at.
GoFilterAnchored(lines) ==
  {l.path : l \in {l \in lines : l.path \in Mod \ Cached /\ l.noise = {}}}

\* Golang/run_all.sh:74-80.  Any line that mentions /cache/ is dropped, and
\* no line is for its result.  grep -o prints every match of a line.
GoFilter(lines) ==
  {l.path : l \in {l \in lines : /\ l.path \in Mod \ Cached
                                 /\ "cache" \notin l.noise}}

\* Seeded fault: only lines that end behind the call are looked at.
RustFilterAnchored(lines) ==
  {l.path : l \in {l \in lines : l.path \in Crate /\ l.noise = {}}}

\* Rust/run_all.sh:52-53.  The sed is greedy and takes the last crate of the
\* line, which is one the build has printed if there is any.
RustFilter(lines) ==
  {IF "crate" \in l.noise THEN Text ELSE l.path :
     l \in {l \in lines : l.path \in Crate \/ "crate" \in l.noise}}

-----------------------------------------------------------------------------
\* Whatever is written next, a head that was waiting for its result becomes a
\* line of its own, with the build's output or <unfinished ...> behind it.
\* A line without path or mention is left out of the log.
Broken(n) ==
  IF head = None THEN IF n = {} THEN {} ELSE {Line(None, FALSE, n)}
                 ELSE {Line(call[head], FALSE, n)}

\* The path such a line has lost the result of.
Cut == IF head = None THEN {} ELSE {call[head]}

LogInit ==
  /\ phase = "build"
  /\ call = [q \in Proc |-> None] /\ head = None
  /\ log = {}
  /\ result = [f \in {"c", "go", "rust"} |-> {}]
  /\ got = {} /\ refused = {} /\ cut = {} /\ said = {}
  /\ calls = 0 /\ outputs = 0

\* A process enters openat.
Enter(q) ==
  /\ phase = "build" /\ call[q] = None /\ calls < MaxCalls
  /\ \E f \in Path : call' = [call EXCEPT ![q] = f]
  /\ log' = log \cup Broken({}) /\ cut' = cut \cup Cut
  /\ head' = q
  /\ calls' = calls + 1
  /\ UNCHANGED <<phase, result, got, refused, said, outputs>>

\* openat returns: behind its own head, or on a resumed line without a path.
\* Builds make, change and remove files: any outcome is possible at any time.
Return(q, res) ==
  /\ phase = "build" /\ call[q] # None
  /\ log' = log \cup
       IF head = q THEN {Line(call[q], res = "ENOENT", {})}
                   ELSE Broken({}) \cup {Line(None, res = "ENOENT", {})}
  /\ cut' = IF head = q THEN cut ELSE cut \cup Cut
  /\ got' = IF res = "ok" THEN got \cup {call[q]} ELSE got
  /\ refused' = IF res = "failed" THEN refused \cup {call[q]} ELSE refused
  /\ head' = None
  /\ call' = [call EXCEPT ![q] = None]
  /\ UNCHANGED <<phase, result, said, calls, outputs>>

\* The process dies in the call: the line stays without a result.
Die(q) ==
  /\ phase = "build" /\ call[q] # None
  /\ log' = log \cup Broken({}) /\ cut' = cut \cup Cut
  /\ head' = None
  /\ call' = [call EXCEPT ![q] = None]
  /\ UNCHANGED <<phase, result, got, refused, said, calls, outputs>>

\* A process of the build writes a line to stdout or stderr.
Output(n) ==
  /\ phase = "build" /\ outputs < MaxOutput
  /\ log' = log \cup Broken(n) /\ cut' = cut \cup Cut
  /\ head' = None
  /\ said' = said \cup n
  /\ outputs' = outputs + 1
  /\ UNCHANGED <<phase, call, result, got, refused, calls>>

\* strace ends with the last process; the scripts then filter the log.
FilterLog ==
  /\ phase = "build" /\ \A q \in Proc : call[q] = None
  /\ phase' = "filter"
  /\ result' = [f \in {"c", "go", "rust"} |->
                  CASE f = "c" -> CFilter(log) [] f = "go" -> GoFilter(log)
                    [] f = "rust" -> RustFilter(log)]
  /\ UNCHANGED <<call, head, log, got, refused, cut, said, calls, outputs>>

LogNext ==
  \/ \E q \in Proc : Enter(q) \/ Die(q)
  \/ \E q \in Proc, res \in Result : Return(q, res)
  \/ \E n \in Noise : Output(n)
  \/ FilterLog

LogSpec == LogInit /\ [][LogNext]_logVars

-----------------------------------------------------------------------------
(* Properties. *)

\* However the lines of several processes cut each other up, the C filter
\* reports every library that was opened, unless the build prints quotes or
\* what the second grep of line 68 drops.
LibrariesComplete ==
  phase = "filter" /\ said \cap {"quoted", "drop"} = {} =>
    got \cap (Lib \ Conf) \subseteq result["c"]

\* The Go filter reports every module file that was opened outside the cache,
\* unless the build's own output mentions /cache/.
ModulesComplete ==
  phase = "filter" /\ "cache" \notin said =>
    got \cap (Mod \ Cached) \subseteq result["go"]

\* The Rust filter reports every crate file that was opened, unless the build
\* itself prints the quoted path of one.
CratesComplete ==
  phase = "filter" /\ "crate" \notin said =>
    got \cap Crate \subseteq result["rust"]

\* The C filter drops the opens of files that are not there: what it reports,
\* besides text, was opened, or could not be opened for another reason, or
\* lies on a line cut before the result.
AbsentNotReported ==
  phase = "filter" =>
    result["c"] \subseteq got \cup refused \cup cut \cup {Text}
=============================================================================
