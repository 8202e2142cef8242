------------------------------ MODULE Settings ------------------------------
(***************************************************************************)
(* watch.toml and the two programs that write it: the loader, which creates*)
(* a missing one (watch/config.rs), and a control centre, which reads the  *)
(* file again, edits the keys of its draft into it and renames the result  *)
(* over it (watch/settings.rs).  Anybody else may edit the file meanwhile. *)
(*                                                                         *)
(* Of the draft's ten keys the model keeps the two that are bound to each  *)
(* other and to a floor, and one that is neither; `other` is a key the     *)
(* draft does not have.  Durations count half seconds.  A document says    *)
(* for each key what the loader reads there, so a missing key is its       *)
(* default, and Garbled is what is TOML and no value for the loader: under *)
(* `other`, a key nobody knows, too.  MaxEdits bounds the edits of others. *)
(***************************************************************************)
EXTENDS Naturals

CONSTANTS Durations, Ports, Others,
          DefaultDoc,      \* DEFAULT_CONFIG_TOML
          MaxEdits,
          Garbled,         \* a value the loader refuses
          Absent, Broken   \* no file; one that is no TOML

SHORTEST_SAMPLE == 2

Keys == {"sample", "idle", "port"}
Draft == [sample : Durations, idle : Durations, port : Ports]
Loadable == [sample : Durations, idle : Durations, port : Ports, other : Others]
Doc == [sample : Durations \cup {Garbled}, idle : Durations \cup {Garbled},
        port : Ports \cup {Garbled}, other : Others \cup {Garbled}]

ASSUME SettingsAssumption ==
    /\ Durations \subseteq Nat /\ Ports \subseteq Nat /\ 0 \in Ports
    /\ Garbled \notin Durations \cup Ports \cup Others
    /\ MaxEdits \in Nat /\ DefaultDoc \in Loadable
    /\ Absent # Broken /\ {Absent, Broken} \cap Doc = {}

VARIABLES phase,    \* where the control centre's only thread is
          file,     \* watch.toml
          config,   \* State.config: the configuration as it was loaded
          draft,    \* State.draft, which the rows show
          staged,   \* the edited document, in watch.toml.new
          edits,    \* edits by others so far
          opened, read,   \* edits when the screen was opened; when the save read
          touched,  \* the keys changed on this screen since it was opened
          saved     \* the last change was saved and nobody wrote since

settings == <<file, config, draft, staged, edits, opened, read, touched, saved>>

-----------------------------------------------------------------------------
Longer(a, b) == IF a >= b THEN a ELSE b

\* clamp_sample_intervals: the floor, and no idle cadence below the active one.
Clamped(d) == LET active == Longer(d.sample, SHORTEST_SAMPLE)
              IN  [sample |-> active, idle |-> Longer(d.idle, active), port |-> d.port]

\* duration_text: whole seconds once there is one, milliseconds below.
Text(duration) == IF duration < 2 THEN duration ELSE duration - (duration % 2)

\* What a start makes of a document, of the keys a draft has.
InForce(doc) ==
  Clamped([sample |-> doc.sample, idle |-> doc.idle, port |-> doc.port])

\* What the rows show of a draft.
Shown(d) == [sample |-> Text(d.sample), idle |-> Text(d.idle), port |-> d.port]

\* Mutant: what the draft does not have is written as it ships.
WrittenAnew(doc, d) == [DefaultDoc EXCEPT !.sample = Text(d.sample),
                                          !.idle = Text(d.idle), !.port = d.port]

\* set, for every key of the draft: the rest of the document stays.
Written(doc, d) == [doc EXCEPT !.sample = Text(d.sample), !.idle = Text(d.idle),
                               !.port = d.port]

\* The clamps and the rendering stay within the durations considered.
ASSUME DurationsAssumption ==
    SHORTEST_SAMPLE \in Durations /\ \A d \in Durations : Text(d) \in Durations

SettingsInit ==
  /\ file = Absent
  /\ config = InForce(DefaultDoc) /\ draft = config /\ staged = Absent
  /\ edits = 0 /\ opened = 0 /\ read = 0
  /\ touched = {} /\ saved = FALSE

-----------------------------------------------------------------------------
(* Opening the screen: WatchConfig::load, and State::read of the result.   *)

Show(doc) == /\ config' = InForce(doc) /\ draft' = config'
             /\ opened' = edits /\ touched' = {} /\ saved' = FALSE
             /\ UNCHANGED <<staged, edits, read>>

\* A file that does not parse, or has what the loader refuses, keeps the screen from
\* opening.
LoadFile == /\ phase = "closed" /\ file \in Loadable /\ phase' = "keys"
            /\ Show(file) /\ UNCHANGED file

\* fs::write creates the file before it fills it.
CreateFile == /\ phase = "closed" /\ file = Absent
              /\ phase' = "filling" /\ file' = Broken
              /\ UNCHANGED <<config, draft, staged, edits, opened, read, touched, saved>>

FillFile == /\ phase = "filling" /\ phase' = "keys"
            /\ file' = DefaultDoc /\ Show(DefaultDoc)

\* `r`: State::read again, of the configuration the screen was opened with.
Reload == /\ phase = "keys" /\ draft' = config /\ saved' = FALSE
          /\ UNCHANGED <<file, config, staged, edits, opened, read, touched>>

-----------------------------------------------------------------------------
(* A change: apply::commit or toggle alters the draft and saves all of it. *)

Change(k, value) ==
  /\ phase = "keys" /\ draft' = [draft EXCEPT ![k] = value]
  /\ touched' = touched \cup {k} /\ saved' = FALSE
  /\ phase' = IF k = "port" /\ value = 0 THEN "keys" ELSE "save"
  /\ UNCHANGED <<file, config, staged, edits, opened, read>>

\* A missing file is replaced by the shipped template.
Source == IF file = Absent THEN DefaultDoc ELSE file

\* Read, parse as TOML - the loader is not asked -, set, and write beside the original.
Stage == /\ phase = "save" /\ Source \in Doc /\ phase' = "staged"
         /\ staged' = Written(Source, Clamped(draft)) /\ read' = edits
         /\ UNCHANGED <<file, config, draft, edits, opened, touched, saved>>

\* Mutant: the screen keeps what was asked for.
ReplaceUnread == /\ phase = "staged" /\ phase' = "keys"
                 /\ file' = staged /\ saved' = TRUE /\ staged' = Absent
                 /\ UNCHANGED <<config, draft, edits, opened, read, touched>>

\* The rename; the draft becomes what was written, before it became text.
Replace == /\ phase = "staged" /\ phase' = "keys"
           /\ file' = staged /\ draft' = Clamped(draft) /\ saved' = TRUE
           /\ staged' = Absent
           /\ UNCHANGED <<config, edits, opened, read, touched>>

\* It cannot be read, parsed, written or renamed: the draft stays as it was changed.
SaveFails == /\ phase \in {"save", "staged"} /\ phase' = "keys"
             /\ UNCHANGED settings

-----------------------------------------------------------------------------
(* Everybody else.                                                         *)

\* An editor saves one key changed, or something half typed; or deletes the file.
Edit == /\ edits < MaxEdits /\ edits' = edits + 1 /\ saved' = FALSE
        /\ file' \in {Absent, Broken, DefaultDoc} \cup
             (IF file \notin Doc THEN {}
              ELSE {[file EXCEPT !.sample = d] : d \in Durations \cup {Garbled}}
                   \cup {[file EXCEPT !.idle = d] : d \in Durations \cup {Garbled}}
                   \cup {[file EXCEPT !.port = p] : p \in Ports \cup {Garbled}}
                   \cup {[file EXCEPT !.other = o] : o \in Others \cup {Garbled}})
        /\ file' # file
        /\ UNCHANGED <<config, draft, staged, opened, read, touched>>

-----------------------------------------------------------------------------
\* After a save, and until somebody writes the file, a start accepts the file and uses
\* exactly what the rows show (Draft: "so the file would disagree with what the user was
\* shown"), also where the save found a row's key garbled - unless somebody left what the
\* loader refuses under a key that is no row: it is kept, the save succeeds all the same,
\* and no start accepts the file.
SavedIsInForce ==
  saved => /\ file \in Doc
           /\ file.other # Garbled => file \in Loadable /\ InForce(file) = Shown(draft)

\* A save puts nothing but the user's changes into force: a key nobody touched keeps
\* its effect, to the whole second, where an idle interval may follow the active one
\* that was touched; a key the draft does not have keeps its value unless it was edited
\* between the read and the rename (a save writes the whole draft, whichever row asked).
SaveSparesTheRest ==
  [][Replace /\ file \in Doc =>
       /\ read = edits => file'.other = file.other
       /\ opened = edits => \A k \in Keys \ touched :
            \/ k = "idle" /\ "sample" \in touched
            \/ InForce(file')[k] = Shown(InForce(file))[k]]_<<phase, settings>>

=============================================================================
