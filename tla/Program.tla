------------------------------ MODULE Program ------------------------------
(***************************************************************************)
(* The daemon with its page and a benchmark: the child of the slot runs    *)
(* what Bench describes, with the options its command line came to, until  *)
(* it has a report, fails, or is killed; and a benchmark at a terminal     *)
(* (main.rs, Command::Bench) runs beside a page that has nothing to do     *)
(* with it.                                                                *)
(*                                                                         *)
(* A scene has benchmarks that are run at a terminal (commands); the child *)
(* is a process without a course of its own unless "bench" happens.        *)
(***************************************************************************)
EXTENDS Dashboard, Bench

\* A cost is a number of cents and a preset one there is, at a terminal as on the page.
ASSUME ProgramAssumption ==
    \A i \in DOMAIN Scenes : \A o \in Scenes[i].commands : o.cap \in Nat /\ o.preset \in Presets

ProgramInit == /\ Init
               /\ \/ S.commands = {} /\ BenchInit
                  \/ /\ elapsed = 0 /\ cancelled = FALSE /\ live = Off
                     /\ bench \in {Begun(o, TRUE, S.happens) : o \in S.commands}

\* The process and what it runs: with the child it begins, and with it it is killed; by
\* itself it ends with 0 once the report is there, with 1 for want of one or of a place to
\* put it, and with 2 if the command line was not one.
Starts == run' # {} /\ run' # run /\ ~InFlight /\ (\E c \in run' : c.alive /\ c.options # {})
IsKilled == InFlight /\ \E c \in run' : ~c.alive /\ c.code = {}
IsOver == InFlight /\ \E c \in run' : ~c.alive /\ c.code # {}
Follows == CASE Starts -> \E c \in run' : Begins(CHOOSE o \in c.options : TRUE, FALSE, S.happens)
             [] IsKilled -> Killed
             [] IsOver -> /\ \A c \in run' : /\ c.code = {0} => bench.at = "report"
                                             /\ c.code = {1} => bench.at \in {"report", "error"}
                          /\ UNCHANGED benchVars
             [] OTHER -> UNCHANGED benchVars

\* Where the child has its course it says one line, once it has come to an end.
Explains == run' # run /\ InFlight /\ \E c \in run' : c.said # Child.said
ServerStep == /\ Next
              /\ IF Happens("bench") THEN Follows /\ (Explains => ~Goes /\ Child.said = <<>>)
                 ELSE UNCHANGED benchVars
ProgramNext == ServerStep \/ (BenchStep /\ UNCHANGED vars)

programVars == <<vars, benchVars>>
ProgramSpec == ProgramInit /\ [][ProgramNext]_programVars

FairSpec == ProgramSpec /\ Fairness

=============================================================================
