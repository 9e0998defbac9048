----------------------------- MODULE DriverProofs -----------------------------
(***************************************************************************)
(* The driver's promises, for command lines and REPL inputs of any length. *)
(***************************************************************************)
EXTENDS Driver, TLAPS

\* Leaves that name no prover go to the SMT solver.
USE SMTT(60)

\* What the logger and the user know while a pipeline is running.  Outside JSON a
\* phase starts with an empty logger, save for the error of a path that could not
\* be resolved; what was told so far are the warnings that were cleared.
DiagInv ==
  /\ run.at = "load" => reported = {} /\ shown = {}
  /\ run.at \in {"assemble", "link"} => logger = {}
  /\ run.at \in {"phase", "assemble", "link"} =>
       /\ shown \subseteq {"warning"}
       /\ reported = logger \cup shown
       /\ run.stage # "JSON" /\ (run.at # "phase" \/ run.k > 1) => reported \subseteq {"warning"}

\* Where the pipeline is, what it has written, and which files it has on disk.
RunInv ==
  /\ run.at \in {"load", "phase", "assemble", "link"} =>
       ~run.ok /\ run.written \in {"nothing", "emptied"}
  /\ run.at \in {"assemble", "link"} => run.stage = "EXE"
  /\ run.at = "load" => run.k = 1
  /\ run.at \in {"load", "phase"} => run.stage \in Stages /\ run.k <= LastPhase(run.stage)
  /\ run.at = "idle" <=> run = Idle
  /\ run = Idle => temps = {}
  /\ run.at \in {"load", "phase", "assemble", "return"} => temps \cap {"asm", "obj"} = {}
  /\ caller = "exited" => run = Idle
  /\ caller = "main" => temps \subseteq {"asm", "obj"}

IInv ==
  /\ TypeOK /\ DiagInv /\ RunInv
  /\ OutputIsClean /\ DiagnosticsShown /\ TempsRemoved /\ PromptMatchesInput

\* main and the REPL start with nothing in progress.
LEMMA InitInv == Init => IInv
<1> SUFFICES ASSUME Init PROVE IInv
  OBVIOUS
<1>1. TypeOK
  <2>1. run \in [stage : Stages \cup {"none"},
                 at : {"idle", "load", "phase", "assemble", "link", "return"}, k : 1 .. 6,
                 written : {"nothing", "emptied", "stage", "json", "exe"}, ok : BOOLEAN]
    BY DEF Init, Idle
  <2>2. options \in 0 .. MaxOptions /\ lines \in 0 .. MaxLines
    BY BoundsAssumption DEF Init
  <2>3. in_multiline \in BOOLEAN /\ auto_run \in BOOLEAN
    BY Zenon DEF Init
  <2> QED
    BY <2>1, <2>2, <2>3 DEF Init, TypeOK
<1>2. run.at = "idle" /\ run = Idle /\ temps = {} /\ caller # "exited"
  BY DEF Init, Idle
<1>3. DiagInv /\ RunInv
  BY <1>2 DEF DiagInv, RunInv
<1>4. OutputIsClean /\ DiagnosticsShown /\ TempsRemoved
  BY <1>2 DEF OutputIsClean, DiagnosticsShown, TempsRemoved
<1>5. PromptMatchesInput
  BY DEF Init, PromptMatchesInput
<1> QED
  BY <1>1, <1>3, <1>4, <1>5 DEF IInv

\* run_pipeline returns: everything reported has been shown, and true is returned
\* for a clean source only.
LEMMA ReturnInv ==
  ASSUME IInv, NEW ok \in BOOLEAN, NEW written \in {"nothing", "emptied", "stage", "json", "exe"},
         caller \in {"main", "repl"}, Return(ok, written),
         ok <=> written \in {"stage", "json", "exe"},
         ok /\ run.stage # "JSON" => reported' \subseteq {"warning"},
         shown' = reported', reported' \subseteq Severities, logger' \subseteq Severities,
         temps' \subseteq {"repl_source", "repl_exe"}, caller = "main" => temps' = {},
         UNCHANGED <<caller, exit_code, options, lines, in_multiline, auto_run>>
  PROVE  IInv'
<1>1. run' \in [stage : Stages \cup {"none"},
                at : {"idle", "load", "phase", "assemble", "link", "return"}, k : 1 .. 6,
                written : {"nothing", "emptied", "stage", "json", "exe"}, ok : BOOLEAN]
  BY Zenon DEF IInv, TypeOK, Return
<1>2. /\ run'.at = "return" /\ run'.written = written /\ run'.stage = run.stage
      /\ run' # Idle
  BY Zenon DEF IInv, TypeOK, Return, Idle
<1>3. run'.ok = ok
  BY DEF IInv, TypeOK, Return
<1>4. TypeOK'
  BY <1>1 DEF IInv, TypeOK
<1>5. DiagInv' /\ RunInv'
  BY <1>2 DEF DiagInv, RunInv
<1>6. OutputIsClean'
  BY <1>2, <1>3 DEF OutputIsClean
<1>7. DiagnosticsShown' /\ TempsRemoved' /\ PromptMatchesInput'
  BY <1>2 DEF IInv, DiagnosticsShown, TempsRemoved, PromptMatchesInput
<1> QED
  BY <1>4, <1>5, <1>6, <1>7 DEF IInv

\* run_pipeline goes on to another place: nothing is written, and what has been
\* reported is in the logger or was shown.
LEMMA GoesOnInv ==
  ASSUME IInv, caller \in {"main", "repl"},
         NEW at \in {"phase", "assemble", "link"}, NEW k \in 1 .. 6,
         run.at \in {"load", "phase", "assemble"},
         run' = [run EXCEPT !.at = at, !.k = k],
         at = "phase" => run.stage \in Stages /\ k <= LastPhase(run.stage),
         at # "phase" => run.stage = "EXE" /\ logger' = {},
         shown' \subseteq {"warning"}, reported' = logger' \cup shown',
         logger' \subseteq Severities,
         run.stage # "JSON" /\ (at # "phase" \/ k > 1) => reported' \subseteq {"warning"},
         temps' \subseteq {"asm", "obj", "repl_source", "repl_exe"},
         at # "link" => temps' \cap {"asm", "obj"} = {},
         caller = "main" => temps' \subseteq {"asm", "obj"},
         UNCHANGED <<caller, exit_code, options, lines, in_multiline, auto_run>>
  PROVE  IInv'
<1>1. run' \in [stage : Stages \cup {"none"},
                at : {"idle", "load", "phase", "assemble", "link", "return"}, k : 1 .. 6,
                written : {"nothing", "emptied", "stage", "json", "exe"}, ok : BOOLEAN]
  BY Zenon DEF IInv, TypeOK
<1>2. /\ run'.at = at /\ run'.k = k /\ run'.stage = run.stage
      /\ run'.written = run.written /\ run' # Idle
  BY Zenon DEF IInv, TypeOK, Idle
<1>3. run'.ok = run.ok
  BY DEF IInv, TypeOK
<1>4. ~run.ok /\ run.written \in {"nothing", "emptied"}
  BY DEF IInv, RunInv
<1>5. TypeOK'
  BY <1>1 DEF IInv, TypeOK, Severities
<1>6. DiagInv'
  BY <1>2 DEF DiagInv
<1>7. RunInv'
  BY <1>2, <1>3, <1>4 DEF RunInv
<1>8. OutputIsClean' /\ DiagnosticsShown' /\ TempsRemoved' /\ PromptMatchesInput'
  BY <1>2 DEF IInv, OutputIsClean, DiagnosticsShown, TempsRemoved, PromptMatchesInput
<1> QED
  BY <1>5, <1>6, <1>7, <1>8 DEF IInv

\* While a pipeline runs, main or the REPL is waiting for it.
LEMMA CallerWaits ==
  ASSUME IInv, run.at # "idle" PROVE caller \in {"main", "repl"}
BY DEF IInv, TypeOK, RunInv, Idle

\* Loading the infile, with or without success.
LEMMA LoadInv == IInv /\ (load_fails \/ load_file) => IInv'
<1> SUFFICES ASSUME IInv, load_fails \/ load_file PROVE IInv'
  OBVIOUS
<1>1. /\ run.at = "load" /\ reported = {} /\ shown = {} /\ run.k = 1 /\ run.stage \in Stages
      /\ run.written \in {"nothing", "emptied"} /\ 1 <= LastPhase(run.stage)
      /\ UNCHANGED <<caller, exit_code, options, lines, in_multiline, auto_run, temps>>
  BY Zenon DEF IInv, DiagInv, RunInv, load_fails, load_file, repl_vars, LastPhase, Stages
<1>2. caller \in {"main", "repl"}
  BY <1>1, CallerWaits
<1>3. temps \cap {"asm", "obj"} = {} /\ temps \subseteq {"asm", "obj", "repl_source", "repl_exe"}
  BY <1>1 DEF IInv, TypeOK, RunInv
<1>4. caller = "main" => temps = {}
  BY <1>3 DEF IInv, RunInv
<1>5. CASE load_fails
  <2>1. /\ Return(FALSE, run.written)
        /\ reported' = {"error"} /\ logger' = {"error"} /\ shown' = {"error"}
    BY <1>5, Zenon DEF load_fails
  <2> QED
    BY <1>1, <1>2, <1>3, <1>4, <2>1, ReturnInv, Zenon DEF Severities
<1>6. CASE load_file
  <2>1. /\ run' = [run EXCEPT !.at = "phase"] /\ shown' = {}
        /\ reported' = logger' /\ logger' \subseteq {"error"}
    BY <1>1, <1>6 DEF load_file
  <2>2. run' = [run EXCEPT !.at = "phase", !.k = 1]
    BY <1>1, <2>1, Zenon DEF IInv, TypeOK
  <2>3. /\ shown' \subseteq {"warning"} /\ reported' = logger' \cup shown'
        /\ logger' \subseteq Severities
    BY <2>1 DEF Severities
  <2>4. temps' \cap {"asm", "obj"} = {} /\ temps' \subseteq {"asm", "obj", "repl_source", "repl_exe"}
    BY <1>1, <1>3
  <2>5. caller = "main" => temps' \subseteq {"asm", "obj"}
    BY <1>1, <1>4
  <2> QED
    BY <1>1, <1>2, <2>2, <2>3, <2>4, <2>5, GoesOnInv
<1> QED
  BY <1>5, <1>6

\* The exception handlers: all of the logger is shown.
LEMMA CaughtInv ==
  ASSUME IInv, NEW diags \in SUBSET Severities, Caught(diags),
         run.at \in {"phase", "assemble", "link"},
         reported' = shown \cup diags,
         temps' = temps \ {"asm", "obj"},
         UNCHANGED <<caller, exit_code, options, lines, in_multiline, auto_run>>
  PROVE  IInv'
<1>1. caller \in {"main", "repl"}
  BY CallerWaits
<1>2. temps' \subseteq {"repl_source", "repl_exe"} /\ (caller = "main" => temps' = {})
  BY DEF IInv, TypeOK, RunInv
<1>3. shown \subseteq Severities /\ run.written \in {"nothing", "emptied"}
  BY DEF IInv, TypeOK, RunInv
<1>4. /\ shown' = reported' /\ reported' \subseteq Severities /\ logger' \subseteq Severities
  BY <1>3 DEF Caught
<1>5. CASE run.stage = "JSON"
  <2>1. Return(TRUE, "json")
    BY <1>5, Zenon DEF Caught
  <2> QED
    BY <1>1, <1>2, <1>4, <1>5, <2>1, ReturnInv, Zenon
<1>6. CASE run.stage # "JSON"
  <2>1. Return(FALSE, run.written)
    BY <1>6, Zenon DEF Caught
  <2> QED
    BY <1>1, <1>2, <1>3, <1>4, <2>1, ReturnInv, Zenon
<1> QED
  BY <1>5, <1>6

\* A phase that returns: check_diags, and what follows the last phase of the stage.
LEMMA PhaseInv == IInv /\ phase => IInv'
<1> SUFFICES ASSUME IInv, phase PROVE IInv'
  OBVIOUS
<1>1. PICK new \in SUBSET {"warning", "error"} :
        /\ reported' = reported \cup new
        /\ CASE Aborts(logger \cup new) -> Caught(logger \cup new)
             [] ~Aborts(logger \cup new) /\ run.k = LastPhase(run.stage) -> Finish(logger \cup new)
             [] OTHER -> run' = [run EXCEPT !.k = @ + 1] /\ Checked(logger \cup new)
  BY Zenon DEF phase
<1> DEFINE diags == logger \cup new
<1>2. /\ run.at = "phase"
      /\ UNCHANGED <<caller, exit_code, options, lines, in_multiline, auto_run, temps>>
  BY DEF phase, repl_vars
<1>3. /\ reported = logger \cup shown /\ shown \subseteq {"warning"}
      /\ run.stage \in Stages /\ run.k \in 1 .. 6 /\ run.k <= LastPhase(run.stage)
      /\ temps \cap {"asm", "obj"} = {} /\ logger \subseteq Severities
      /\ temps \subseteq {"asm", "obj", "repl_source", "repl_exe"}
      /\ caller = "main" => temps \subseteq {"asm", "obj"}
  BY <1>2 DEF IInv, DiagInv, RunInv, TypeOK
<1>4. /\ diags \in SUBSET Severities /\ reported' = shown \cup diags
      /\ temps' = temps \ {"asm", "obj"} /\ temps' \subseteq {"repl_source", "repl_exe"}
      /\ caller = "main" => temps' = {}
  BY <1>1, <1>2, <1>3 DEF Severities
<1>5. caller \in {"main", "repl"}
  BY <1>2, CallerWaits
<1>6. LastPhase(run.stage) \in 1 .. 6
  BY <1>3 DEF LastPhase
<1>7. CASE Aborts(diags)
  <2>1. Caught(diags)
    BY <1>1, <1>7
  <2> QED
    BY <1>2, <1>4, <2>1, CaughtInv
<1>8. ASSUME ~Aborts(diags), run.stage # "JSON", Checked(diags)
      PROVE  /\ diags \subseteq {"warning"} /\ logger' = {} /\ shown' = shown \cup diags
             /\ reported' = shown' /\ reported' \subseteq {"warning"}
  <2>1. diags \subseteq {"warning"}
    BY <1>4, <1>8 DEF Aborts, Severities
  <2>2. logger' = diags \ {"warning"} /\ shown' = shown \cup (diags \cap {"warning"})
    BY <1>8 DEF Checked, CheckedWarnings
  <2> QED
    BY <1>3, <1>4, <2>1, <2>2, Zenon
<1>9. CASE ~Aborts(diags) /\ run.k = LastPhase(run.stage)
  <2>1. Finish(diags)
    BY <1>1, <1>9
  <2>2. CASE run.stage = "EXE"
    <3>1. run' = [run EXCEPT !.at = "assemble"] /\ Checked(diags)
      BY <2>1, <2>2 DEF Finish
    <3>2. /\ logger' = {} /\ reported' = shown' /\ reported' \subseteq {"warning"}
      BY <1>8, <1>9, <2>2, <3>1
    <3>3. run' = [run EXCEPT !.at = "assemble", !.k = run.k]
      BY <3>1, Zenon DEF IInv, TypeOK
    <3>4. /\ shown' \subseteq {"warning"} /\ reported' = logger' \cup shown'
          /\ logger' \subseteq Severities
      BY <3>2
    <3> QED
      BY <1>2, <1>3, <1>4, <1>5, <2>2, <3>2, <3>3, <3>4, GoesOnInv, Zenon
  <2>3. CASE run.stage = "JSON"
    <3>1. Return(TRUE, "json") /\ logger' = diags /\ shown' = shown \cup diags
      BY <2>1, <2>3, Zenon DEF Finish
    <3>2. shown' = reported' /\ reported' \subseteq Severities /\ logger' \subseteq Severities
      BY <1>3, <1>4, <3>1 DEF Severities
    <3> QED
      BY <1>2, <1>4, <1>5, <2>3, <3>1, <3>2, ReturnInv, Zenon
  <2>4. CASE run.stage \notin {"EXE", "JSON"}
    <3>1. Return(TRUE, "stage") /\ Checked(diags)
      BY <2>1, <2>4, Zenon DEF Finish
    <3>2. logger' = {} /\ reported' = shown' /\ reported' \subseteq {"warning"}
      BY <1>8, <1>9, <2>4, <3>1
    <3>3. reported' \subseteq Severities /\ logger' \subseteq Severities
      BY <3>2 DEF Severities
    <3> QED
      BY <1>2, <1>4, <1>5, <3>1, <3>2, <3>3, ReturnInv, Zenon
  <2> QED
    BY <2>2, <2>3, <2>4
<1>10. CASE ~Aborts(diags) /\ run.k # LastPhase(run.stage)
  <2>1. run' = [run EXCEPT !.k = run.k + 1] /\ Checked(diags)
    BY <1>1, <1>10
  <2>2. run.k + 1 \in 1 .. 6 /\ run.k + 1 <= LastPhase(run.stage)
    BY <1>3, <1>6, <1>10
  <2>3. run' = [run EXCEPT !.at = "phase", !.k = run.k + 1]
    BY <1>2, <2>1, Zenon DEF IInv, TypeOK
  <2>4. CASE run.stage = "JSON"
    <3>1. logger' = diags /\ shown' = shown
      BY <2>1, <2>4 DEF Checked
    <3>2. /\ shown' \subseteq {"warning"} /\ reported' = logger' \cup shown'
          /\ logger' \subseteq Severities
      BY <1>3, <1>4, <3>1
    <3> QED
      BY <1>2, <1>3, <1>4, <1>5, <2>2, <2>3, <2>4, <3>2, GoesOnInv, Zenon
  <2>5. CASE run.stage # "JSON"
    <3>1. logger' = {} /\ reported' = shown' /\ reported' \subseteq {"warning"}
      BY <1>8, <1>10, <2>1, <2>5
    <3>2. /\ shown' \subseteq {"warning"} /\ reported' = logger' \cup shown'
          /\ logger' \subseteq Severities
      BY <3>1
    <3> QED
      BY <1>2, <1>3, <1>4, <1>5, <2>2, <2>3, <3>1, <3>2, GoesOnInv, Zenon
  <2> QED
    BY <2>4, <2>5
<1> QED
  BY <1>7, <1>9, <1>10

\* An exception in a phase.
LEMMA ThrowInv == IInv /\ phase_throws => IInv'
<1> SUFFICES ASSUME IInv, phase_throws PROVE IInv'
  OBVIOUS
<1>1. PICK new \in SUBSET {"warning", "error"} :
        /\ reported' = reported \cup new \cup {"fatal"}
        /\ Caught(logger \cup new \cup {"fatal"})
  BY Zenon DEF phase_throws
<1>2. /\ run.at = "phase"
      /\ UNCHANGED <<caller, exit_code, options, lines, in_multiline, auto_run, temps>>
  BY DEF phase_throws, repl_vars
<1>3. /\ reported = logger \cup shown /\ logger \subseteq Severities
      /\ temps \cap {"asm", "obj"} = {}
  BY <1>2 DEF IInv, DiagInv, RunInv, TypeOK
<1>4. /\ logger \cup new \cup {"fatal"} \in SUBSET Severities
      /\ reported' = shown \cup (logger \cup new \cup {"fatal"})
      /\ temps' = temps \ {"asm", "obj"}
  BY <1>1, <1>2, <1>3 DEF Severities
<1> QED
  BY <1>1, <1>2, <1>4, CaughtInv

\* The assembler and the linker.
LEMMA ToolchainInv == IInv /\ (assembled \/ toolchain_fails \/ linked) => IInv'
<1> SUFFICES ASSUME IInv, assembled \/ toolchain_fails \/ linked PROVE IInv'
  OBVIOUS
<1>1. /\ run.at \in {"assemble", "link"}
      /\ UNCHANGED <<caller, exit_code, options, lines, in_multiline, auto_run>>
  BY Zenon DEF assembled, toolchain_fails, linked, repl_vars
<1>2. /\ reported = logger \cup shown /\ logger \subseteq Severities
      /\ run.stage = "EXE" /\ reported \subseteq {"warning"} /\ run.k \in 1 .. 6
      /\ logger = {}
      /\ shown \subseteq {"warning"}
      /\ temps \subseteq {"asm", "obj", "repl_source", "repl_exe"}
      /\ caller = "main" => temps \subseteq {"asm", "obj"}
  BY <1>1 DEF IInv, DiagInv, RunInv, TypeOK
<1>3. caller \in {"main", "repl"}
  BY <1>1, CallerWaits
<1>4. CASE assembled
  <2>1. /\ run' = [run EXCEPT !.at = "link"] /\ temps' = temps \cup {"asm", "obj"}
        /\ run.at = "assemble" /\ UNCHANGED <<logger, reported, shown>>
    BY <1>4 DEF assembled, diag_vars
  <2>2. run' = [run EXCEPT !.at = "link", !.k = run.k]
    BY <2>1, Zenon DEF IInv, TypeOK
  <2>3. /\ shown' \subseteq {"warning"} /\ reported' = logger' \cup shown'
        /\ logger' \subseteq Severities /\ reported' \subseteq {"warning"}
    BY <1>2, <2>1
  <2>4. /\ temps' \subseteq {"asm", "obj", "repl_source", "repl_exe"}
        /\ caller = "main" => temps' \subseteq {"asm", "obj"}
    BY <1>2, <2>1
  <2> QED
    BY <1>1, <1>2, <1>3, <2>1, <2>2, <2>3, <2>4, GoesOnInv, Zenon
<1>5. CASE toolchain_fails
  <2>1. /\ Caught(logger \cup {"fatal"}) /\ reported' = reported \cup {"fatal"}
        /\ temps' = temps \ {"asm", "obj"}
    BY <1>5 DEF toolchain_fails, Removed
  <2>2. /\ logger \cup {"fatal"} \in SUBSET Severities
        /\ reported' = shown \cup (logger \cup {"fatal"})
    BY <1>2, <2>1, Zenon DEF Severities
  <2> QED
    BY <1>1, <2>1, <2>2, CaughtInv
<1>6. CASE linked
  <2>1. /\ Return(TRUE, "exe") /\ UNCHANGED <<logger, reported, shown>>
        /\ temps' = (temps \ {"asm", "obj"}) \cup (IF caller = "repl" THEN {"repl_exe"} ELSE {})
        /\ run.at = "link"
    BY <1>6, Zenon DEF linked, Removed, diag_vars
  <2>2. temps' \subseteq {"repl_source", "repl_exe"} /\ (caller = "main" => temps' = {})
    BY <1>2, <2>1
  <2>3. shown' = reported' /\ reported' \subseteq Severities /\ logger' \subseteq Severities
    BY <1>2, <2>1, Zenon DEF Severities
  <2> QED
    BY <1>1, <1>2, <1>3, <2>1, <2>2, <2>3, ReturnInv, Zenon
<1> QED
  BY <1>4, <1>5, <1>6

\* A pipeline is started, by main or by the REPL.
LEMMA StartInv ==
  ASSUME IInv, run = Idle, NEW stage \in Stages, NEW outfile \in BOOLEAN,
         Start(stage, outfile), caller \in {"main", "repl"}, UNCHANGED <<caller, exit_code>>,
         options' \in 0 .. MaxOptions, auto_run' \in BOOLEAN, UNCHANGED <<lines, in_multiline>>,
         temps' \subseteq {"repl_source"}, caller = "main" => temps' = {}
  PROVE  IInv'
<1>1. PICK w \in {"nothing", "emptied"} : run' = Pipeline(stage, w)
  BY DEF Start
<1>2. /\ run'.at = "load" /\ run'.k = 1 /\ run'.stage = stage /\ run'.written = w
      /\ run' # Idle
  BY <1>1 DEF Pipeline, Idle
<1>3. ~run'.ok
  BY <1>1 DEF Pipeline
<1>4. run' \in [stage : Stages \cup {"none"},
                at : {"idle", "load", "phase", "assemble", "link", "return"}, k : 1 .. 6,
                written : {"nothing", "emptied", "stage", "json", "exe"}, ok : BOOLEAN]
  BY <1>1 DEF Pipeline
<1>5. logger' = {} /\ reported' = {} /\ shown' = {}
  BY DEF Start
<1>6. 1 <= LastPhase(stage)
  BY DEF LastPhase
<1>7. TypeOK'
  BY <1>4, <1>5 DEF IInv, TypeOK
<1>8. DiagInv'
  BY <1>2, <1>5 DEF DiagInv
<1>9. RunInv'
  BY <1>2, <1>3, <1>6 DEF RunInv
<1>10. OutputIsClean' /\ DiagnosticsShown' /\ TempsRemoved' /\ PromptMatchesInput'
  BY <1>2 DEF IInv, OutputIsClean, DiagnosticsShown, TempsRemoved, PromptMatchesInput
<1> QED
  BY <1>7, <1>8, <1>9, <1>10 DEF IInv

\* Between pipelines: the loops of main and of the REPL.
LEMMA IdleInv ==
  ASSUME IInv, run' = Idle, temps' = {},
         caller' \in {"main", "repl", "exited"}, exit_code' \in {"none", "success", "failure"},
         lines' \in 0 .. MaxLines, in_multiline' \in BOOLEAN, auto_run' \in BOOLEAN,
         in_multiline' <=> lines' > 0, UNCHANGED <<options, logger, reported, shown>>
  PROVE  IInv'
<1>1. run'.at = "idle"
  BY DEF Idle
<1>2. run' \in [stage : Stages \cup {"none"},
                at : {"idle", "load", "phase", "assemble", "link", "return"}, k : 1 .. 6,
                written : {"nothing", "emptied", "stage", "json", "exe"}, ok : BOOLEAN]
  BY DEF Idle
<1>3. TypeOK'
  BY <1>2 DEF IInv, TypeOK
<1>4. DiagInv' /\ RunInv'
  BY <1>1 DEF DiagInv, RunInv
<1>5. OutputIsClean' /\ DiagnosticsShown' /\ TempsRemoved' /\ PromptMatchesInput'
  BY <1>1 DEF OutputIsClean, DiagnosticsShown, TempsRemoved, PromptMatchesInput
<1> QED
  BY <1>3, <1>4, <1>5 DEF IInv

\* The steps of main.
LEMMA MainInv == IInv /\ (drive_option \/ unknown_option \/ end_of_options \/ option_done) => IInv'
<1> SUFFICES ASSUME IInv, drive_option \/ unknown_option \/ end_of_options \/ option_done
             PROVE  IInv'
  OBVIOUS
<1>1. caller = "main" /\ lines' = lines /\ in_multiline' = in_multiline /\ auto_run' = auto_run
  BY DEF drive_option, unknown_option, end_of_options, option_done, Exit, repl_vars
<1>2. /\ lines \in 0 .. MaxLines /\ in_multiline \in BOOLEAN /\ auto_run \in BOOLEAN
      /\ exit_code \in {"none", "success", "failure"}
  BY DEF IInv, TypeOK
<1>3. in_multiline' <=> lines' > 0
  BY <1>1 DEF IInv, PromptMatchesInput
<1>4. CASE drive_option
  <2>1. PICK stage \in Stages, outfile \in BOOLEAN : Start(stage, outfile)
    BY <1>4 DEF drive_option
  <2>2. /\ run = Idle /\ options' = options + 1 /\ options < MaxOptions /\ temps' = temps
        /\ UNCHANGED <<caller, exit_code>>
    BY <1>4 DEF drive_option
  <2>3. options' \in 0 .. MaxOptions
    BY <2>2, BoundsAssumption DEF IInv, TypeOK
  <2>4. temps' = {}
    BY <2>2 DEF IInv, RunInv
  <2> QED
    BY <1>1, <1>2, <2>1, <2>2, <2>3, <2>4, StartInv
<1>5. CASE unknown_option \/ end_of_options
  <2>1. /\ run' = Idle /\ temps' = temps /\ run = Idle /\ caller' = "exited"
        /\ exit_code' \in {"success", "failure"} /\ UNCHANGED <<options, logger, reported, shown>>
    BY <1>5 DEF unknown_option, end_of_options, Exit, diag_vars
  <2>2. temps' = {}
    BY <2>1 DEF IInv, RunInv
  <2> QED
    BY <1>1, <1>2, <1>3, <2>1, <2>2, IdleInv
<1>6. CASE option_done
  <2>1. /\ run' = Idle /\ temps' = temps /\ run.at = "return"
        /\ UNCHANGED <<options, logger, reported, shown>>
        /\ caller' \in {caller, "exited"} /\ exit_code' \in {exit_code, "failure"}
    BY <1>6 DEF option_done, diag_vars
  <2>2. temps' = {}
    BY <1>1, <2>1 DEF IInv, RunInv
  <2> QED
    BY <1>1, <1>2, <1>3, <2>1, <2>2, IdleInv
<1> QED
  BY <1>4, <1>5, <1>6

\* The steps of the REPL.
LEMMA ReplInv ==
  IInv /\ (repl_exit \/ repl_clear \/ repl_line \/ repl_show \/ repl_run \/ repl_done) => IInv'
<1> SUFFICES ASSUME IInv,
                    repl_exit \/ repl_clear \/ repl_line \/ repl_show \/ repl_run \/ repl_done
             PROVE  IInv'
  OBVIOUS
<1>1. /\ lines \in 0 .. MaxLines /\ in_multiline \in BOOLEAN /\ auto_run \in BOOLEAN
      /\ exit_code \in {"none", "success", "failure"} /\ options \in 0 .. MaxOptions
      /\ caller = "repl"
  BY Zenon
     DEF IInv, TypeOK, repl_exit, repl_clear, repl_line, repl_show, repl_run, repl_done, Prompt
<1>2. in_multiline <=> lines > 0
  BY DEF IInv, PromptMatchesInput
<1>3. CASE repl_exit
  <2>1. /\ run' = Idle /\ temps' = temps /\ run = Idle /\ caller' = "exited"
        /\ exit_code' = "success" /\ UNCHANGED <<options, logger, reported, shown>>
        /\ UNCHANGED <<lines, in_multiline, auto_run>>
    BY <1>3 DEF repl_exit, Prompt, Exit, diag_vars, repl_vars
  <2>2. temps' = {}
    BY <2>1 DEF IInv, RunInv
  <2>3. in_multiline' <=> lines' > 0
    BY <1>2, <2>1
  <2> QED
    BY <1>1, <2>1, <2>2, <2>3, IdleInv
<1>4. CASE repl_clear \/ repl_line
  <2>1. /\ run' = Idle /\ temps' = temps /\ run = Idle /\ UNCHANGED auto_run
        /\ UNCHANGED <<caller, exit_code, options, logger, reported, shown>>
    BY <1>4 DEF repl_clear, repl_line, Prompt, diag_vars
  <2>2. temps' = {}
    BY <2>1 DEF IInv, RunInv
  <2>3. /\ lines' \in 0 .. MaxLines /\ in_multiline' \in BOOLEAN
        /\ in_multiline' <=> lines' > 0
    <3>1. CASE repl_clear
      <4>1. lines' = 0 /\ ~in_multiline' /\ in_multiline' = FALSE
        BY <3>1 DEF repl_clear
      <4>2. lines' \in 0 .. MaxLines /\ ~(lines' > 0)
        BY <4>1, BoundsAssumption
      <4> QED
        BY <4>1, <4>2, Zenon
    <3>2. CASE repl_line
      BY <1>1, <3>2, BoundsAssumption DEF repl_line
    <3> QED
      BY <1>4, <3>1, <3>2
  <2> QED
    BY <1>1, <2>1, <2>2, <2>3, IdleInv
<1>5. CASE repl_show
  <2>1. PICK stage \in {"TOKENS", "AST", "IR", "ASM"} : Start(stage, FALSE)
    BY <1>5, Zenon DEF repl_show
  <2>2. /\ run = Idle /\ temps' = temps \cup {"repl_source"}
        /\ UNCHANGED <<caller, exit_code, options, lines, in_multiline, auto_run>>
    BY <1>5 DEF repl_show, Prompt, repl_vars
  <2>3. temps' \subseteq {"repl_source"}
    BY <2>2 DEF IInv, RunInv
  <2>4. stage \in Stages
    BY DEF Stages
  <2> QED
    BY <1>1, <2>1, <2>2, <2>3, <2>4, StartInv, Zenon
<1>6. CASE repl_run
  <2>1. /\ run = Idle /\ temps' = temps \cup {"repl_source"} /\ Start("EXE", TRUE)
        /\ UNCHANGED <<caller, exit_code, options, lines, in_multiline>>
    BY <1>6, Zenon DEF repl_run, Prompt
  <2>2. auto_run' \in BOOLEAN
    BY <1>6, Zenon DEF repl_run
  <2>3. temps' \subseteq {"repl_source"}
    BY <2>1 DEF IInv, RunInv
  <2>4. "EXE" \in Stages
    BY DEF Stages
  <2> QED
    BY <1>1, <2>1, <2>2, <2>3, <2>4, StartInv, Zenon
<1>7. CASE repl_done
  <2>1. /\ run.at = "return" /\ run' = Idle /\ temps' = temps \ {"repl_source", "repl_exe"}
        /\ auto_run' = FALSE
        /\ UNCHANGED <<caller, exit_code, options, logger, reported, shown>>
    BY <1>7 DEF repl_done, diag_vars
  <2>2. temps' = {}
    BY <2>1 DEF IInv, RunInv, TypeOK
  <2>3. /\ lines' \in 0 .. MaxLines /\ in_multiline' \in BOOLEAN
        /\ in_multiline' <=> lines' > 0
    <3>1. CASE auto_run
      <4>1. lines' = 0 /\ ~in_multiline' /\ in_multiline' = FALSE
        BY <1>7, <3>1 DEF repl_done
      <4>2. lines' \in 0 .. MaxLines /\ ~(lines' > 0)
        BY <4>1, BoundsAssumption
      <4> QED
        BY <4>1, <4>2, Zenon
    <3>2. CASE ~auto_run
      BY <1>1, <1>2, <1>7, <3>2 DEF repl_done
    <3> QED
      BY <3>1, <3>2
  <2> QED
    BY <1>1, <2>1, <2>2, <2>3, IdleInv, Zenon
<1> QED
  BY <1>3, <1>4, <1>5, <1>6, <1>7

\* Every step of the driver keeps the invariant.
LEMMA NextInv == IInv /\ [Next]_vars => IInv'
<1> SUFFICES ASSUME IInv, [Next]_vars PROVE IInv'
  OBVIOUS
<1>1. CASE UNCHANGED vars
  BY <1>1 DEF vars, IInv, TypeOK, DiagInv, RunInv, OutputIsClean, DiagnosticsShown,
              TempsRemoved, PromptMatchesInput
<1> QED
  BY <1>1, LoadInv, PhaseInv, ThrowInv, ToolchainInv, MainInv, ReplInv DEF Next, RunPipeline

\* The invariant holds throughout.
THEOREM Invariant == Spec => []IInv
BY InitInv, NextInv, PTL DEF Spec

\* Every variable keeps its type.
THEOREM TypeCorrect == Spec => []TypeOK
<1>1. IInv => TypeOK
  BY DEF IInv
<1> QED
  BY <1>1, Invariant, PTL

\* No output of a source with errors, except the JSON export.
THEOREM CleanOutput == Spec => []OutputIsClean
<1>1. IInv => OutputIsClean
  BY DEF IInv
<1> QED
  BY <1>1, Invariant, PTL

\* No diagnostic is lost, whichever phase reported it and however the run ended.
THEOREM AllDiagnosticsShown == Spec => []DiagnosticsShown
<1>1. IInv => DiagnosticsShown
  BY DEF IInv
<1> QED
  BY <1>1, Invariant, PTL

\* No temporary file is left behind, whatever fails.
THEOREM NoTempLeft == Spec => []TempsRemoved
<1>1. IInv => TempsRemoved
  BY DEF IInv
<1> QED
  BY <1>1, Invariant, PTL

\* The REPL's prompt and its collected lines agree after any sequence of commands.
THEOREM PromptIsRight == Spec => []PromptMatchesInput
<1>1. IInv => PromptMatchesInput
  BY DEF IInv
<1> QED
  BY <1>1, Invariant, PTL
===============================================================================
