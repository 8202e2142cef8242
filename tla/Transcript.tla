------------------------------ MODULE Transcript ------------------------------
(***************************************************************************)
(* The file Claude Code appends to, as the importer's row format and its   *)
(* comments describe it (collect/sessions/row.rs, derive.rs): an external  *)
(* program, so this module says only what the importer may assume.  Every  *)
(* request is a run of assistant rows; rows of no interest may come        *)
(* between them; a prompt, a tool result or another request comes only     *)
(* when the response before it has ended.                                  *)
(*                                                                         *)
(* Beside it stands what the measurements of a transcript ought to be,     *)
(* read off the finished file and not computed row by row.                 *)
(***************************************************************************)
EXTENDS Deriver

CONSTANTS
  MaxRows,   \* bound: rows of the transcript
  Kinds,     \* the kinds of row it has
  Steps,     \* milliseconds that may lie between one row and the next
  Asks,      \* how many tools one assistant row may ask for
  VersionsOf(_), \* versions of Claude Code a request's rows may name; 0 for none
  Voids      \* whether some requests are errors or synthetic: a set of BOOLEANs

RowKinds == {"prompt", "assistant", "result", "other"}

ASSUME TranscriptAssumption ==
  /\ MaxRows \in Nat
  /\ Kinds \subseteq RowKinds
  /\ Steps \subseteq Int
  /\ Asks \subseteq Nat
  /\ \A req \in 1..MaxRows : VersionsOf(req) \subseteq Nat
  /\ Voids \subseteq BOOLEAN

Row == [uuid : Nat, kind : RowKinds, ts : Int, parent : Nat,
        req : Nat, void : BOOLEAN, asks : Seq(Nat), cites : Nat, source : Nat, version : Nat]

Indices(rows, kind) == {i \in DOMAIN rows : rows[i].kind = kind}
LatestOf(S) == IF S = {} THEN None ELSE Max(S)

\* The row a new one descends from: a parentless row is nobody's parent.
Tip(rows) == LatestOf({i \in DOMAIN rows : rows[i].kind # "other" \/ rows[i].parent # None})

\* The request whose response may still be arriving.
Arriving(rows) ==
  LET last == LatestOf(DOMAIN rows \ Indices(rows, "other"))
  IN  IF last # None /\ rows[last].kind = "assistant" THEN rows[last].req ELSE None

Voided(rows) == {rows[i].req : i \in {j \in DOMAIN rows : rows[j].void}}
RequestsIn(rows) == {rows[i].req : i \in Indices(rows, "assistant")}
ToolsIn(rows) == UNION {Range(rows[i].asks) : i \in Indices(rows, "assistant")}

\* Which row asked for a tool, and the result rows that answer it.
AskedBy(rows, tool) ==
  CHOOSE i \in Indices(rows, "assistant") : tool \in Range(rows[i].asks)
Answers(rows, i, tool) ==
  /\ rows[i].kind = "result"
  /\ \/ rows[i].cites = tool
     \/ rows[i].cites = None /\ rows[i].source = AskedBy(rows, tool)
Unanswered(rows) ==
  {t \in ToolsIn(rows) : ~ \E i \in DOMAIN rows : Answers(rows, i, t)}

Bare(rows, kind, step) ==
  [uuid |-> Len(rows) + 1, kind |-> kind, parent |-> Tip(rows), req |-> None, void |-> FALSE,
   ts |-> step + (IF rows = <<>> THEN 0 ELSE rows[Len(rows)].ts),
   asks |-> <<>>, cites |-> None, source |-> None, version |-> None]

NewTools(rows, n) == [k \in 1..n |-> Cardinality(ToolsIn(rows)) + k]

\* A row that measures nothing by itself; an attachment may have no parent.
Saying(rows) ==
  {Bare(rows, kind, step) : kind \in {"prompt", "other"}, step \in Steps}
    \cup {[Bare(rows, "other", step) EXCEPT !.parent = None] : step \in Steps}

\* A row of a request's response; a void one is the only one, and asks for nothing.
AssistantRow(rows, step, req, n, v) ==
  [Bare(rows, "assistant", step) EXCEPT !.req = req, !.asks = NewTools(rows, n), !.version = v]
VoidRow(rows, step, req, v) == [AssistantRow(rows, step, req, 0, v) EXCEPT !.void = TRUE]
Responding(rows, req) ==
  {AssistantRow(rows, step, req, n, v) : step \in Steps, n \in Asks, v \in VersionsOf(req)}
Failing(rows, req) ==
  {VoidRow(rows, step, req, v) : step \in Steps, v \in VersionsOf(req)}

\* The answer of a tool, which may leave out whose it is when its row asked for no other.
ResultRow(rows, step, tool, cites) ==
  [Bare(rows, "result", step) EXCEPT !.source = AskedBy(rows, tool), !.cites = cites]
Citable(rows, tool) ==
  IF Len(rows[AskedBy(rows, tool)].asks) = 1 THEN {tool, None} ELSE {tool}
Resulting(rows, tool) ==
  {ResultRow(rows, step, tool, cites) : step \in Steps, cites \in Citable(rows, tool)}

\* Every row Claude Code may write next.
NextRows(rows) ==
  LET fresh == Cardinality(RequestsIn(rows)) + 1
      open == {Arriving(rows)} \ ({None} \cup Voided(rows))
      candidates ==
        Saying(rows) \cup Failing(rows, fresh)
          \cup (UNION {Responding(rows, req) : req \in {fresh} \cup open})
          \cup (UNION {Resulting(rows, tool) : tool \in Unanswered(rows)})
  IN  {row \in candidates : row.kind \in Kinds /\ row.void \in Voids \cup {FALSE}}

-----------------------------------------------------------------------------
(* What a transcript measures.                                             *)

\* The requests that were real.
Measurable(rows) == RequestsIn(rows) \ Voided(rows)

RowsOf(rows, req) == {i \in Indices(rows, "assistant") : rows[i].req = req}
Opening(rows, req) == Min(RowsOf(rows, req))

\* From a request's first row to its last.
Span(rows, req) == rows[Max(RowsOf(rows, req))].ts - rows[Opening(rows, req)].ts

\* The prompt a request answers directly: nothing that measures lies between
\* them, and no more rows than a chain may have.
PromptOf(rows, req) ==
  LET first == Opening(rows, req)
      prompt == LatestOf({i \in Indices(rows, "prompt") : i < first})
      between == (prompt + 1) .. (first - 1)
  IN  IF /\ prompt # None
         /\ \A i \in between : rows[i].kind = "other"
         /\ Cardinality({i \in between : rows[i].parent # None}) < MaxPromptChain
        THEN prompt ELSE None

TrueFirst(rows, req) ==
  IF PromptOf(rows, req) = None THEN Absent
  ELSE LET wait == rows[Opening(rows, req)].ts - rows[PromptOf(rows, req)].ts
       IN  IF Plausible(wait) THEN wait ELSE Absent

TrueGen(rows, req) ==
  LET span == Span(rows, req) IN IF span > 0 /\ Plausible(span) THEN span ELSE Absent

\* Something in the file came after the response.
Proven(rows, req) == req # Arriving(rows)

TrueTook(rows, i, tool) == rows[i].ts - rows[AskedBy(rows, tool)].ts

\* The tool calls a transcript times, one for each plausible answer.
TimedCalls(rows) ==
  {[what |-> "tool", uuid |-> p[1], ts |-> rows[AskedBy(rows, p[2])].ts, tool |-> p[2],
    took |-> TrueTook(rows, p[1], p[2])] :
     p \in {q \in Indices(rows, "result") \X ToolsIn(rows) :
              Answers(rows, q[1], q[2]) /\ Plausible(TrueTook(rows, q[1], q[2]))}}

\* The turns a transcript yields once it is finished with.
Turns(rows) ==
  {[what |-> "turn", uuid |-> Opening(rows, r), req |-> r, ts |-> rows[Opening(rows, r)].ts,
    first |-> TrueFirst(rows, r),
    gen |-> IF Proven(rows, r) THEN TrueGen(rows, r) ELSE Absent] : r \in Measurable(rows)}

=============================================================================
