-------------------------------- MODULE Driver --------------------------------
(***************************************************************************)
(* main, drive, run_pipeline, assemble_and_link and run_repl (main.cpp,    *)
(* driver.cpp).  A phase of the compiler is what it can do to the driver:  *)
(* report warnings and errors to the logger, or throw.  The logger of a    *)
(* pipeline is a set of severities; shown is what the user has been told   *)
(* of it, on stderr or in the JSON export.                                 *)
(***************************************************************************)
EXTENDS Integers

CONSTANTS
  MaxOptions,     \* bound: options on the command line
  MaxLines        \* bound: lines collected by the REPL

ASSUME BoundsAssumption == MaxOptions \in Nat /\ MaxLines \in Nat

VARIABLES
  caller,         \* "main", "repl", or "exited"
  exit_code,      \* of main, "none" before it returns
  options,        \* options that main has handled
  lines,          \* number of lines the REPL holds
  in_multiline,
  auto_run,       \* the REPL runs because of an empty line
  run,            \* the pipeline in progress, or Idle
  logger,         \* severities of the diagnostics in the logger
  reported, shown,  \* severities reported, and told to the user, in this pipeline
  temps           \* temporary files on disk

vars == <<caller, exit_code, options, lines, in_multiline, auto_run, run, logger,
          reported, shown, temps>>
repl_vars == <<lines, in_multiline, auto_run>>
diag_vars == <<logger, reported, shown>>

Stages == {"TOKENS", "AST", "SYMTAB", "IR", "ASM", "EXE", "JSON"}
\* The phases of run_pipeline, each followed by check_diags: 1 lexer,
\* 2 preprocessor, 3 parser, 4 type checker, 5 IR, 6 code generator.
\* Mutant: the stages of the back end look for a phase that is not there.
LastPhase_missing(stage) ==
  CASE stage = "TOKENS" -> 2 [] stage \in {"AST", "SYMTAB"} -> 3 [] stage = "IR" -> 5
    [] OTHER -> 7
LastPhase(stage) ==
  CASE stage = "TOKENS" -> 2 [] stage \in {"AST", "SYMTAB"} -> 3 [] stage = "IR" -> 5
    [] OTHER -> 6

Severities == {"warning", "error", "fatal"}

\* at: where run_pipeline is, k: its next phase; written: what the output file
\* or stdout has got from it; ok: what it returns.
Pipeline(stage, written) ==
  [stage |-> stage, at |-> "load", k |-> 1, written |-> written, ok |-> FALSE]
Idle == [stage |-> "none", at |-> "idle", k |-> 1, written |-> "nothing", ok |-> FALSE]

Init ==
  /\ caller \in {"main", "repl"} /\ exit_code = "none" /\ options = 0
  /\ lines = 0 /\ in_multiline = FALSE /\ auto_run = FALSE
  /\ run = Idle /\ logger = {} /\ reported = {} /\ shown = {} /\ temps = {}

-------------------------------------------------------------------------------
\* main: one turn of the option loop.
Exit(code) ==
  /\ caller' = "exited" /\ exit_code' = code
  /\ UNCHANGED <<options, repl_vars, run, diag_vars, temps>>

\* drive: an output file of any stage but EXE is opened, and emptied, first.
Start(stage, outfile) ==
  /\ run' = Pipeline(stage, IF outfile /\ stage # "EXE" THEN "emptied" ELSE "nothing")
  /\ logger' = {} /\ reported' = {} /\ shown' = {}

drive_option ==
  /\ caller = "main" /\ run = Idle /\ options < MaxOptions
  /\ \E stage \in Stages, outfile \in BOOLEAN : Start(stage, outfile)
  /\ options' = options + 1
  /\ UNCHANGED <<caller, exit_code, repl_vars, temps>>
unknown_option == caller = "main" /\ run = Idle /\ Exit("failure")
\* No option is left, or one that has no infile (break).
end_of_options == caller = "main" /\ run = Idle /\ Exit("success")
\* Mutant: the loop has no case for a failed option.
option_done_ok ==
  /\ caller = "main" /\ run.at = "return" /\ run.ok
  /\ run' = Idle
  /\ UNCHANGED <<caller, exit_code, options, repl_vars, diag_vars, temps>>
option_done ==
  /\ caller = "main" /\ run.at = "return"
  /\ run' = Idle
  /\ IF run.ok THEN UNCHANGED <<caller, exit_code>>
     ELSE caller' = "exited" /\ exit_code' = "failure"
  /\ UNCHANGED <<options, repl_vars, diag_vars, temps>>

-------------------------------------------------------------------------------
\* run_pipeline.
Return(ok, written) == run' = [run EXCEPT !.at = "return", !.ok = ok, !.written = written]

\* load_file returns 0: its diagnostics are printed whatever the stage.
load_fails ==
  /\ run.at = "load"
  /\ Return(FALSE, run.written)
  /\ reported' = {"error"} /\ logger' = {"error"} /\ shown' = {"error"}
  /\ UNCHANGED <<caller, exit_code, options, repl_vars, temps>>
\* load_file returns an id, or -1 with an error: the source is then empty.
load_file ==
  /\ run.at = "load"
  /\ run' = [run EXCEPT !.at = "phase"]
  /\ \E diags \in {{}, {"error"}} : reported' = diags /\ logger' = diags
  /\ UNCHANGED <<caller, exit_code, options, repl_vars, shown, temps>>

\* Mutant: the errors of a pipeline do not stop it.
Aborts_never(diags) == FALSE
\* check_diags throws CompileAbort.
Aborts(diags) == run.stage # "JSON" /\ diags \cap {"error", "fatal"} # {}

\* The handlers of CompileAbort and of the other exceptions: everything in the
\* logger is exported or printed.
Caught(diags) ==
  /\ IF run.stage = "JSON" THEN Return(TRUE, "json") ELSE Return(FALSE, run.written)
  /\ logger' = diags /\ shown' = shown \cup diags

\* Mutant: the warnings are cleared without being printed.
CheckedWarnings_cleared == {}
CheckedWarnings == {"warning"}

\* check_diags of a phase that goes on: warnings are printed and cleared.
Checked(diags) ==
  IF run.stage = "JSON" THEN logger' = diags /\ shown' = shown
  ELSE logger' = diags \ {"warning"} /\ shown' = shown \cup (diags \cap CheckedWarnings)

\* What follows the last phase of the stage.
Finish(diags) ==
  CASE run.stage = "EXE" -> run' = [run EXCEPT !.at = "assemble"] /\ Checked(diags)
    [] run.stage = "JSON" ->
         Return(TRUE, "json") /\ logger' = diags /\ shown' = shown \cup diags
    [] OTHER -> Return(TRUE, "stage") /\ Checked(diags)

phase ==
  /\ run.at = "phase"
  /\ \E new \in SUBSET {"warning", "error"} :
       LET diags == logger \cup new
       IN  /\ reported' = reported \cup new
           /\ CASE Aborts(diags) -> Caught(diags)
                [] ~Aborts(diags) /\ run.k = LastPhase(run.stage) -> Finish(diags)
                [] OTHER -> run' = [run EXCEPT !.k = @ + 1] /\ Checked(diags)
  /\ UNCHANGED <<caller, exit_code, options, repl_vars, temps>>

\* An exception leaves a phase, perhaps after diagnostics.
phase_throws ==
  /\ run.at = "phase"
  /\ \E new \in SUBSET {"warning", "error"} :
       /\ reported' = reported \cup new \cup {"fatal"}
       /\ Caught(logger \cup new \cup {"fatal"})
  /\ UNCHANGED <<caller, exit_code, options, repl_vars, temps>>

\* assemble_and_link: the assembly file is written, the assembler makes the
\* object file, the linker the executable; a failure of either throws.
assembled ==
  /\ run.at = "assemble"
  /\ run' = [run EXCEPT !.at = "link"] /\ temps' = temps \cup {"asm", "obj"}
  /\ UNCHANGED <<caller, exit_code, options, repl_vars, diag_vars>>

\* Mutant: the object file is left behind.
Removed_keeps_obj == {"asm"}
Removed == {"asm", "obj"}

toolchain_fails ==
  /\ run.at \in {"assemble", "link"}
  /\ Caught(logger \cup {"fatal"}) /\ reported' = reported \cup {"fatal"}
  /\ temps' = temps \ Removed
  /\ UNCHANGED <<caller, exit_code, options, repl_vars>>
linked ==
  /\ run.at = "link"
  /\ Return(TRUE, "exe")
  /\ temps' = (temps \ Removed) \cup (IF caller = "repl" THEN {"repl_exe"} ELSE {})
  /\ UNCHANGED <<caller, exit_code, options, repl_vars, diag_vars>>

-------------------------------------------------------------------------------
\* run_repl: one turn of its loop, up to the call of drive.
Prompt == caller = "repl" /\ run = Idle

repl_exit == Prompt /\ Exit("success")
repl_clear ==
  /\ Prompt
  /\ lines' = 0 /\ in_multiline' = FALSE
  /\ UNCHANGED <<caller, exit_code, options, auto_run, run, diag_vars, temps>>
repl_line ==
  /\ Prompt /\ lines < MaxLines
  /\ lines' = lines + 1 /\ in_multiline' = TRUE
  /\ UNCHANGED <<caller, exit_code, options, auto_run, run, diag_vars, temps>>
\* tokens, ast, ir, asm.
repl_show ==
  /\ Prompt /\ lines > 0
  /\ \E stage \in {"TOKENS", "AST", "IR", "ASM"} : Start(stage, FALSE)
  /\ temps' = temps \cup {"repl_source"}
  /\ UNCHANGED <<caller, exit_code, options, repl_vars>>
\* run, or an empty line that ends the input.
repl_run ==
  /\ Prompt /\ lines > 0
  /\ Start("EXE", TRUE) /\ temps' = temps \cup {"repl_source"}
  /\ \/ auto_run' = FALSE
     \/ auto_run' = TRUE /\ in_multiline
  /\ UNCHANGED <<caller, exit_code, options, lines, in_multiline>>

\* Mutant: the prompt is not reset.
repl_done_multiline ==
  /\ caller = "repl" /\ run.at = "return"
  /\ run' = Idle /\ temps' = temps \ {"repl_source", "repl_exe"}
  /\ IF auto_run THEN lines' = 0 ELSE UNCHANGED lines
  /\ auto_run' = FALSE
  /\ UNCHANGED <<caller, exit_code, options, in_multiline, diag_vars>>

\* drive has returned: the program runs, the files are removed.
repl_done ==
  /\ caller = "repl" /\ run.at = "return"
  /\ run' = Idle /\ temps' = temps \ {"repl_source", "repl_exe"}
  /\ IF auto_run THEN lines' = 0 /\ in_multiline' = FALSE
     ELSE UNCHANGED <<lines, in_multiline>>
  /\ auto_run' = FALSE
  /\ UNCHANGED <<caller, exit_code, options, diag_vars>>

-------------------------------------------------------------------------------
RunPipeline ==
  \/ load_fails \/ load_file \/ phase \/ phase_throws \/ assembled \/ toolchain_fails
  \/ linked \/ option_done \/ repl_done
Next ==
  \/ RunPipeline
  \/ drive_option \/ unknown_option \/ end_of_options
  \/ repl_exit \/ repl_clear \/ repl_line \/ repl_show \/ repl_run

Spec == Init /\ [][Next]_vars
\* The phases are calls that return or throw; the assembler and the linker exit.
FairSpec == Spec /\ WF_vars(RunPipeline)

-------------------------------------------------------------------------------
\* Every variable has its type.
TypeOK ==
  /\ caller \in {"main", "repl", "exited"}
  /\ exit_code \in {"none", "success", "failure"}
  /\ options \in 0 .. MaxOptions /\ lines \in 0 .. MaxLines
  /\ in_multiline \in BOOLEAN /\ auto_run \in BOOLEAN
  /\ run \in [stage : Stages \cup {"none"},
              at : {"idle", "load", "phase", "assemble", "link", "return"}, k : 1 .. 6,
              written : {"nothing", "emptied", "stage", "json", "exe"}, ok : BOOLEAN]
  /\ logger \subseteq Severities /\ reported \subseteq Severities /\ shown \subseteq Severities
  /\ temps \subseteq {"asm", "obj", "repl_source", "repl_exe"}

\* run_pipeline returns true exactly when it has written its output, and what it
\* writes for any stage but JSON comes from a source without errors: check_diags
\* stands between every phase that reports and every output.
OutputIsClean ==
  run.at = "return" =>
    /\ run.ok <=> run.written \in {"stage", "json", "exe"}
    /\ run.ok /\ run.stage # "JSON" => reported \subseteq {"warning"}

\* No diagnostic is lost: when run_pipeline returns, the user has been told of all
\* that was reported, although check_diags clears warnings along the way.
DiagnosticsShown == run.at = "return" => shown = reported

\* Whatever fails, drive leaves no assembly or object file behind, and the REPL's
\* files are gone when it prompts again.
TempsRemoved ==
  /\ run.at = "return" => temps \cap {"asm", "obj"} = {}
  /\ run = Idle => temps = {}

\* The REPL shows its continuation prompt exactly while it holds input, so that
\* an empty line runs what was typed and never an empty program.
PromptMatchesInput == in_multiline <=> lines > 0

\* Every pipeline ends, and main or the REPL goes on.
PipelineReturns == run # Idle ~> run = Idle
===============================================================================
