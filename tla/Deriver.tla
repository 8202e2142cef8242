------------------------------- MODULE Deriver -------------------------------
(***************************************************************************)
(* Turning the rows of one transcript into measurements, and where the     *)
(* next pass has to start: collect/sessions/derive.rs and the reading half *)
(* of collect/sessions/import.rs.  Everything here is an operator: a pass  *)
(* begins with a Fresh deriver, is fed whole lines, and is thrown away.    *)
(*                                                                         *)
(* A row's uuid is its position in the file.  Offsets count half lines, so *)
(* that a position inside a line can be told from a line boundary.         *)
(***************************************************************************)
EXTENDS Integers, Sequences, FiniteSets, SequencesExt

CONSTANTS
  MaxPendingTools,  \* MAX_PENDING_TOOLS
  MaxSeenRequests,  \* MAX_SEEN_REQUESTS
  MaxPromptChain,   \* MAX_PROMPT_CHAIN
  MaxInterval,      \* MAX_INTERVAL_MS
  MaxReread         \* MAX_REREAD_BYTES, in half lines

ASSUME DeriverAssumption ==
  /\ {MaxPendingTools, MaxSeenRequests, MaxPromptChain} \subseteq Nat \ {0}
  /\ {MaxInterval, MaxReread} \subseteq Nat

None == 0       \* no such uuid, request, tool-use id or version
Absent == -1    \* no such duration

Start(uuid) == 2 * (uuid - 1)
End(rows) == 2 * Len(rows)

\* tools, byRow: calls awaiting their result, by tool-use id and by asking row.
\* order: the ids of tools in order of insertion.
\* prompt, open: <<>> or the one prompt, the one response, still unfinished.
Fresh == [tools |-> {}, byRow |-> {}, order |-> <<>>, prompt |-> <<>>, open |-> <<>>,
          seen |-> {}, version |-> None, out |-> <<>>]

Emit(d, record) == [d EXCEPT !.out = Append(@, record)]

Plausible(interval) == interval \in 0..MaxInterval

-----------------------------------------------------------------------------
\* A version is noted the first time a pass meets it, and whenever it changes.
NoteVersion(d, row) ==
  IF row.version \in {None, d.version} THEN d
  ELSE Emit([d EXCEPT !.version = row.version],
            [what |-> "version", version |-> row.version, ts |-> row.ts])

\* Mutant: a response the file ran out of keeps its span as well.
CloseTurnAlways(d, complete) ==
  IF d.open = <<>> THEN d
  ELSE LET open == Head(d.open)
           observed == open.last - open.turn.ts
           gen == IF observed > 0 /\ Plausible(observed) THEN observed ELSE Absent
       IN  [Emit(d, [open.turn EXCEPT !.gen = gen]) EXCEPT !.open = <<>>]

\* The open turn is emitted; its span is only when its last row is proven last.
CloseTurn(d, complete) ==
  IF d.open = <<>> THEN d
  ELSE LET open == Head(d.open)
           observed == open.last - open.turn.ts
           gen == IF complete /\ observed > 0 /\ Plausible(observed) THEN observed ELSE Absent
       IN  [Emit(d, [open.turn EXCEPT !.gen = gen]) EXCEPT !.open = <<>>]

BeginPrompt(d, row) ==
  [d EXCEPT !.prompt = <<[ts |-> row.ts, chain |-> {row.uuid}, offset |-> Start(row.uuid)]>>]

ExtendPromptChain(d, row) ==
  IF /\ d.prompt # <<>>
     /\ row.parent \in d.prompt[1].chain
     /\ Cardinality(d.prompt[1].chain) < MaxPromptChain
    THEN [d EXCEPT !.prompt[1].chain = @ \cup {row.uuid}]
    ELSE d

\* The prompt this row answers, if it does, and how long the answer took.
ClaimsPrompt(d, row) == d.prompt # <<>> /\ row.parent \in d.prompt[1].chain

FirstResponse(d, row) ==
  IF ClaimsPrompt(d, row) /\ Plausible(row.ts - d.prompt[1].ts)
    THEN row.ts - d.prompt[1].ts
    ELSE Absent

\* Only the first row of a real request opens a turn.
OpenTurn(d, row) ==
  LET seen == IF Cardinality(d.seen) >= MaxSeenRequests THEN {} ELSE d.seen
      turn == [what |-> "turn", uuid |-> row.uuid, req |-> row.req, ts |-> row.ts,
               first |-> FirstResponse(d, row), gen |-> Absent]
  IN  IF row.req = None \/ row.void THEN d
      ELSE IF row.req \in seen THEN [d EXCEPT !.seen = seen]
      ELSE [d EXCEPT !.seen = seen \cup {row.req},
                     !.prompt = IF ClaimsPrompt(d, row) THEN <<>> ELSE @,
                     !.open = <<[turn |-> turn, offset |-> Start(row.uuid), last |-> row.ts]>>]

\* Both indexes of one call the row asks for, each kept within its bound: the
\* oldest id goes, answered or not; the other index is emptied.
RememberTool(d, id, row) ==
  LET call == [id |-> id, row |-> row.uuid, ts |-> row.ts, offset |-> Start(row.uuid)]
      known == {p \in d.tools : p.id = id}
      order == IF known = {} THEN Append(d.order, id) ELSE d.order
      over == Len(order) > MaxPendingTools
      byRow == {p \in d.byRow : p.row # row.uuid} \cup {call}
      tools == (d.tools \ known) \cup {call}
  IN  [d EXCEPT !.order = IF over THEN Tail(order) ELSE order,
                !.tools = IF over THEN {p \in tools : p.id # Head(order)} ELSE tools,
                !.byRow = IF Cardinality(byRow) > MaxPendingTools THEN {} ELSE byRow]

\* Another row of the open response, or the first of something else.
Assistant(d, row) ==
  LET asked == FoldLeft(LAMBDA acc, id : RememberTool(acc, id, row), d, row.asks)
      continues == asked.open # <<>> /\ row.req # None /\ asked.open[1].turn.req = row.req
  IN  IF continues THEN [asked EXCEPT !.open[1].last = row.ts]
      ELSE OpenTurn(CloseTurn(asked, TRUE), row)

Answer(d, call, row) ==
  IF Plausible(row.ts - call.ts)
    THEN Emit(d, [what |-> "tool", uuid |-> row.uuid, ts |-> call.ts, tool |-> call.id,
                  took |-> row.ts - call.ts])
    ELSE d

\* Mutant: the asking row alone decides which call a result answers.
ToolResultByRow(d, row) ==
  LET near == {p \in d.byRow : p.row = row.source}
  IN  IF near # {} THEN Answer([d EXCEPT !.byRow = @ \ near], CHOOSE p \in near : TRUE, row)
      ELSE d

\* The cited id is the precise link, the asking row the fallback.
ToolResult(d, row) ==
  LET cited == {p \in d.tools : p.id = row.cites}
      near == {p \in d.byRow : p.row = row.source}
  IN  CASE cited # {} -> Answer([d EXCEPT !.tools = @ \ cited], CHOOSE p \in cited : TRUE, row)
        [] cited = {} /\ near # {} ->
             Answer([d EXCEPT !.byRow = @ \ near], CHOOSE p \in near : TRUE, row)
        [] OTHER -> d

\* Mutant: a row of no known kind closes the response too.
PushClosing(d, row) ==
  LET noted == NoteVersion(d, row)
  IN  CASE row.kind = "assistant" -> Assistant(noted, row)
        [] row.kind = "prompt" -> BeginPrompt(CloseTurn(noted, TRUE), row)
        [] row.kind = "result" -> ToolResult(CloseTurn(noted, TRUE), row)
        [] row.kind = "other" -> ExtendPromptChain(CloseTurn(noted, TRUE), row)

Push(d, row) ==
  LET noted == NoteVersion(d, row)
  IN  CASE row.kind = "assistant" -> Assistant(noted, row)
        [] row.kind = "prompt" -> BeginPrompt(CloseTurn(noted, TRUE), row)
        [] row.kind = "result" -> ToolResult(CloseTurn(noted, TRUE), row)
        [] row.kind = "other" -> ExtendPromptChain(noted, row)

\* The turn is saved and its span is not.
Finish(d) == CloseTurn(d, FALSE)

\* Mutant: a response still arriving does not hold the watermark back.
AwaitedTools(d) ==
  {p.offset : p \in d.tools} \cup {d.prompt[i].offset : i \in DOMAIN d.prompt}

\* Where the rows still waiting for their other half begin.
Awaited(d) ==
  {p.offset : p \in d.tools} \cup {d.prompt[i].offset : i \in DOMAIN d.prompt}
    \cup {d.open[i].offset : i \in DOMAIN d.open}

\* Mutant: the budget clamps the answer instead of choosing among rows.
ClampedOffset(d, end) ==
  LET floor == end - MaxReread
  IN  IF Awaited(d) = {} THEN end ELSE Max({Min(Awaited(d)), floor})

\* The earliest of them within the re-read budget, or the end of what was read.
ResumeOffset(d, end) ==
  LET near == {o \in Awaited(d) : o >= end - MaxReread}
  IN  IF near = {} THEN end ELSE Min(near)

-----------------------------------------------------------------------------
(* One pass over a file holding these whole lines and perhaps a fragment.  *)

\* A file shorter than the mark was replaced, and is read from its beginning.
StartOffset(offset, length) == IF offset > length THEN 0 ELSE offset

\* The lines that begin at or after the start are pushed; a start inside a line makes
\* the rest of that line unparseable, so the line is lost to this pass.
Fed(rows, start) ==
  FoldLeft(LAMBDA d, row : IF Start(row.uuid) >= start THEN Push(d, row) ELSE d, Fresh, rows)

\* A settled transcript is finished, unless its last line is not whole.
Import(rows, fragment, offset, settled) ==
  LET fed == Fed(rows, StartOffset(offset, End(rows) + (IF fragment THEN 1 ELSE 0)))
      done == IF settled /\ ~fragment THEN Finish(fed) ELSE fed
  IN  [records |-> done.out, offset |-> ResumeOffset(done, End(rows))]

=============================================================================
