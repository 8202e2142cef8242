---------------------------- MODULE BenchRequest ----------------------------
(***************************************************************************)
(* What the page may ask a benchmark to do (watch/serve/runs/request.rs),  *)
(* the arguments that become of it, and what the `bench` command makes of  *)
(* those arguments (main.rs, bench/options.rs).                            *)
(*                                                                         *)
(* A request is a function whose domain is the fields it carries.  Paths,  *)
(* models and routes are names; Directories are the paths that exist and   *)
(* are directories.  A cost is a number of cents, Infinite is one that is  *)
(* not finite.  Models is the names made of letters, digits, "-", "." and  *)
(* "_" and not too long, Hyphened those of them that begin with a hyphen.  *)
(***************************************************************************)
EXTENDS Integers, Sequences, FiniteSets

CONSTANTS Directories, Models, Hyphened, DataDir

ASSUME RequestAssumption == DataDir \in Directories /\ Hyphened \subseteq Models

Presets == {"quick", "standard", "stress"}
Routes == {"auto", "direct", "headroom", "both"}
Fields == {"preset", "target_dir", "scratch_dir", "offline", "live_llm", "llm_route", "llm_model",
           "llm_cost_cap_usd", "headroom_port"}
Infinite == 1000000
MAX_COST_CAP == 2000

Field(asked, name, default) == IF name \in DOMAIN asked THEN asked[name] ELSE default
Optional(asked, name) == IF name \in DOMAIN asked THEN {asked[name]} ELSE {}

-----------------------------------------------------------------------------
(* BenchRequest::validate and ValidRequest::to_args                        *)

\* What every field means once defaults are filled in.
\* Mutant: live cases default to what the preset of the command line says.
FilledByPreset(asked) ==
    [preset |-> Field(asked, "preset", "standard"),
     target |-> Field(asked, "target_dir", DataDir),
     scratch |-> Optional(asked, "scratch_dir"),
     offline |-> Field(asked, "offline", FALSE),
     live |-> Field(asked, "live_llm", Field(asked, "preset", "standard") # "quick"),
     route |-> Field(asked, "llm_route", "auto"), model |-> Field(asked, "llm_model", "sonnet"),
     cap |-> Field(asked, "llm_cost_cap_usd", 500), port |-> Field(asked, "headroom_port", 8787)]
Filled(asked) ==
    [preset |-> Field(asked, "preset", "standard"),
     target |-> Field(asked, "target_dir", DataDir),
     scratch |-> Optional(asked, "scratch_dir"),
     offline |-> Field(asked, "offline", FALSE),
     live |-> Field(asked, "live_llm", FALSE),
     route |-> Field(asked, "llm_route", "auto"), model |-> Field(asked, "llm_model", "sonnet"),
     cap |-> Field(asked, "llm_cost_cap_usd", 500), port |-> Field(asked, "headroom_port", 8787)]

\* An unknown field is refused with the rest, and so is one of another type.
Validated(asked) ==
    LET v == Filled(asked)
    IN  IF /\ DOMAIN asked \subseteq Fields
           /\ {v.offline, v.live} \subseteq BOOLEAN
           /\ v.preset \in Presets /\ v.route \in Routes /\ v.model \in Models
           /\ v.target \in Directories /\ v.scratch \subseteq Directories
           /\ v.cap \in 1..MAX_COST_CAP /\ v.port # 0
        THEN {v} ELSE {}

\* The page reads of the live cases only when there are any.
Summary(v) ==
    [preset |-> v.preset, target |-> v.target, scratch |-> v.scratch, offline |-> v.offline,
     live |-> v.live, llm |-> IF v.live THEN {<<v.route, v.model, v.cap>>} ELSE {}]

\* The template: a flag with its value, or a flag alone.
Template(v, dir) ==
    [preset |-> v.preset, target |-> v.target, output |-> "reports", dataDir |-> {dir},
     route |-> v.route, model |-> v.model, cap |-> v.cap, port |-> v.port, scratch |-> v.scratch]

\* Mutant: the absence of live cases is left to the preset.
ArgsOfPreset(v, dir) ==
    [options |-> Template(v, dir),
     flags |-> {"no-tui"} \cup (IF v.offline THEN {"offline"} ELSE {})
               \cup (IF v.live THEN {"live-llm"} ELSE {})]
ToArgs(v, dir) ==
    [options |-> Template(v, dir),
     flags |-> {"no-tui"} \cup (IF v.offline THEN {"offline"} ELSE {})
               \cup {IF v.live THEN "live-llm" ELSE "no-live-llm"}]

-----------------------------------------------------------------------------
(* The command line of the child                                           *)

\* BenchOptions::for_preset
LiveByPreset(preset) == preset # "quick"

\* Command::Bench: nothing, if the arguments do not parse (a value cannot begin with a hyphen)
\* or a directory has gone since; otherwise what will be run and which database is marked.
Parsed(args) ==
    IF \/ args.options.model \in Hyphened
       \/ {"live-llm", "no-live-llm"} \subseteq args.flags
       \/ args.options.port = 0 \/ args.options.cap <= 0 \/ args.options.cap = Infinite
       \/ ~({args.options.target} \cup args.options.scratch \subseteq Directories)
    THEN {}
    ELSE {[preset |-> args.options.preset, target |-> args.options.target,
           scratch |-> args.options.scratch, offline |-> "offline" \in args.flags,
           live |-> CASE "no-live-llm" \in args.flags -> FALSE
                      [] "live-llm" \in args.flags -> TRUE
                      [] OTHER -> LiveByPreset(args.options.preset),
           route |-> args.options.route, model |-> args.options.model, cap |-> args.options.cap,
           port |-> args.options.port, tui |-> "no-tui" \notin args.flags,
           marks |-> args.options.dataDir]}

=============================================================================
