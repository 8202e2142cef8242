---------------------------- MODULE ImporterProofs ----------------------------
(***************************************************************************)
(* What the importer promises of a transcript of any length, with any      *)
(* number of requests, calls, attachments, errors, crashes and panics.     *)
(*                                                                         *)
(* The argument has three layers.  A transcript stays Orderly as it grows, *)
(* and what it measures of a response that ended, of a call that was       *)
(* answered, never changes.  A pass that begins at row k keeps Pass: what  *)
(* it remembers and what it has emitted are the file's calls, prompt,      *)
(* responses and measurements since row k.  A mark has everything Behind   *)
(* it recorded: in the tables, or sent before it.                          *)
(*                                                                         *)
(* A pass folds over the rows of the file.  Nothing is proved by induction *)
(* over them: what a fold computes is followed while the file grows, row   *)
(* by row (FoldsGrow), from whatever row the pass begins at (FedWell).     *)
(***************************************************************************)
EXTENDS Importer, FiniteSetTheorems, SequenceTheorems, WellFoundedInduction, TLAPS

-----------------------------------------------------------------------------
(* Numbers                                                                 *)

\* Every set of numbers has a least one.
LEMMA Smallest ==
  ASSUME NEW numbers, numbers \subseteq Nat, numbers # {}
  PROVE  \E x \in numbers : \A y \in numbers : x <= y
<1>1. PICK x \in numbers : \A y \in numbers : <<y, x>> \notin OpToRel(<, Nat)
  BY NatLessThanWellFounded, WFMin, Zenon
<1>2. ASSUME NEW y \in numbers, y < x
      PROVE  FALSE
  <2>1. <<y, x>> \in OpToRel(<, Nat)
    <3>1. y \in Nat /\ x \in Nat
      OBVIOUS
    <3> QED
      BY <1>2, <3>1, Zenon DEF OpToRel
  <2> QED
    BY <1>1, <2>1, Zenon
<1> QED
  BY <1>2

LEMMA MinIs ==
  ASSUME NEW numbers, numbers \subseteq Nat, numbers # {}
  PROVE  Min(numbers) \in numbers /\ \A y \in numbers : Min(numbers) <= y
  BY Smallest DEF Min

\* A bounded one has a greatest, and only one.
LEMMA MaxIs ==
  ASSUME NEW n \in Nat, NEW numbers, numbers \subseteq 0..n, numbers # {}
  PROVE  /\ Max(numbers) \in numbers /\ \A y \in numbers : y <= Max(numbers)
         /\ \A m \in numbers : (\A y \in numbers : y <= m) => Max(numbers) = m
<1> DEFINE below == {n - x : x \in numbers}
<1>1. below \subseteq Nat
  OBVIOUS
<1>2. below # {}
  <2>1. PICK x : x \in numbers
    OBVIOUS
  <2>2. n - x \in below
    BY <2>1
  <2> QED
    BY <2>2
<1>3. PICK z \in below : \A y \in below : z <= y
  BY <1>1, <1>2, Smallest
<1>4. PICK x \in numbers : z = n - x
  OBVIOUS
<1>5. \A y \in numbers : x >= y
  <2> SUFFICES ASSUME NEW y \in numbers
               PROVE  x >= y
    OBVIOUS
  <2>1. n \in Int /\ x \in Int /\ y \in Int
    OBVIOUS
  <2>2. n - y \in below
    OBVIOUS
  <2>3. n - x <= n - y
    BY <1>3, <1>4, <2>2
  <2> QED
    BY ONLY <2>1, <2>3
<1>6. \E m \in numbers : \A y \in numbers : m >= y
  BY <1>5
<1>7. Max(numbers) \in numbers /\ \A y \in numbers : Max(numbers) >= y
  BY <1>6 DEF Max
<1> DEFINE most == Max(numbers)
<1>8. most \in Nat /\ most \in numbers /\ \A y \in numbers : y \in Nat /\ most >= y
  <2>1. \A y \in numbers : y \in Nat
    OBVIOUS
  <2> QED
    BY <1>7, <2>1, Zenon
<1> HIDE DEF most
<1>9. \A m \in numbers : (\A y \in numbers : y <= m) => most = m
  BY <1>8
<1>10. \A y \in numbers : y <= most
  BY <1>8
<1> QED
  BY <1>8, <1>9, <1>10 DEF most

\* The last of some rows is one of them, if there are any.
LEMMA LatestIs ==
  ASSUME NEW n \in Nat, NEW S, S \subseteq 1..n
  PROVE  /\ S = {} => LatestOf(S) = None
         /\ S # {} => /\ LatestOf(S) \in S /\ \A y \in S : y <= LatestOf(S)
                      /\ \A m \in S : (\A y \in S : y <= m) => LatestOf(S) = m
         /\ LatestOf(S) \in 0..n
<1>1. CASE S = {}
  BY <1>1 DEF LatestOf, None
<1>2. CASE S # {}
  <2>1. S \subseteq 0..n
    OBVIOUS
  <2>2. /\ Max(S) \in S /\ \A y \in S : y <= Max(S)
        /\ \A m \in S : (\A y \in S : y <= m) => Max(S) = m
    BY <1>2, <2>1, MaxIs
  <2>3. LatestOf(S) = Max(S) /\ Max(S) \in 0..n
    BY <1>2, <2>1, <2>2 DEF LatestOf
  <2> QED
    BY <1>2, <2>2, <2>3, Zenon
<1> QED
  BY <1>1, <1>2

\* What a sequence has grown to.
LEMMA Appended ==
  ASSUME NEW S, NEW s \in Seq(S), NEW x
  PROVE  /\ DOMAIN s = 1..Len(s) /\ Len(s) \in Nat
         /\ DOMAIN Append(s, x) = 1..(Len(s) + 1)
         /\ Len(Append(s, x)) = Len(s) + 1
         /\ \A i \in 1..Len(s) : Append(s, x)[i] = s[i]
         /\ Append(s, x)[Len(s) + 1] = x
         /\ Range(Append(s, x)) = Range(s) \cup {x}
         /\ Append(s, x) # <<>>
<1>1. /\ DOMAIN s = 1..Len(s) /\ Len(s) \in Nat
      /\ DOMAIN Append(s, x) = 1..(Len(s) + 1)
      /\ Len(Append(s, x)) = Len(s) + 1
      /\ \A i \in 1..Len(s) : Append(s, x)[i] = s[i]
      /\ Append(s, x)[Len(s) + 1] = x
  OBVIOUS
<1>2. Range(Append(s, x)) = Range(s) \cup {x}
  BY <1>1 DEF Range
<1> QED
  BY <1>1, <1>2

-----------------------------------------------------------------------------
(* Folding                                                                 *)

\* The two folds of a pass take these steps, with room and with next to none: over
\* the lines of a file from a start, and over the calls a row asks for.
FoldStep(over, about, d, x) ==
  IF over = "lines" THEN (IF Start(x.uuid) >= about THEN Push(d, x) ELSE d)
  ELSE IF over = "calls" THEN RememberTool(d, x, about)
  ELSE IF over = "tightLines"
    THEN (IF Tight!Start(x.uuid) >= about THEN Tight!Push(d, x) ELSE d)
  ELSE Tight!RememberTool(d, x, about)

\* What a fold over h computes, set of indices by set of indices.
Folding(it, over, about, base, h) ==
  it = [t \in SUBSET DOMAIN h |->
          IF t = {} THEN base ELSE FoldStep(over, about, it[t \ {Max(t)}], h[Max(t)])]

Folded(over, about, base, h) == (CHOOSE it : Folding(it, over, about, base, h))[DOMAIN h]

\* That the equation has a solution, and only one that matters.
Folds(over, about, base, h) ==
  /\ \E it : Folding(it, over, about, base, h)
  /\ \A it : Folding(it, over, about, base, h) => it[DOMAIN h] = Folded(over, about, base, h)

Remembering(d, s, row) == FoldLeft(LAMBDA acc, id : RememberTool(acc, id, row), d, s)

LEMMA FedIs ==
  ASSUME NEW h, NEW s, Folds("lines", s, Fresh, h)
  PROVE  Fed(h, s) = Folded("lines", s, Fresh, h)
<1> DEFINE Sol(it) == it = [t \in SUBSET DOMAIN h |->
                     IF t = {} THEN Fresh
                     ELSE IF Start(h[Max(t)].uuid) >= s THEN Push(it[t \ {Max(t)}], h[Max(t)])
                          ELSE it[t \ {Max(t)}]]
<1>1. \A it : Folding(it, "lines", s, Fresh, h) <=> Sol(it)
  BY DEF Folding, FoldStep
<1>2. Fed(h, s) = (CHOOSE it : Sol(it))[DOMAIN h]
  BY Zenon DEF Fed, FoldLeft, MapThenFoldSet
<1> HIDE DEF Sol
<1>3. Sol(CHOOSE it : Sol(it))
  BY <1>1, Zenon DEF Folds
<1> QED
  BY <1>1, <1>2, <1>3, Zenon DEF Folds

LEMMA RememberingIs ==
  ASSUME NEW d, NEW s, NEW row, Folds("calls", row, d, s)
  PROVE  Remembering(d, s, row) = Folded("calls", row, d, s)
<1> DEFINE Sol(it) == it = [t \in SUBSET DOMAIN s |->
                     IF t = {} THEN d
                     ELSE RememberTool(it[t \ {Max(t)}], s[Max(t)], row)]
<1>1. \A it : Folding(it, "calls", row, d, s) <=> Sol(it)
  BY DEF Folding, FoldStep
<1>2. Remembering(d, s, row) = (CHOOSE it : Sol(it))[DOMAIN s]
  BY Zenon DEF Remembering, FoldLeft, MapThenFoldSet
<1> HIDE DEF Sol
<1>3. Sol(CHOOSE it : Sol(it))
  BY <1>1, Zenon DEF Folds
<1> QED
  BY <1>1, <1>2, <1>3, Zenon DEF Folds

LEMMA FoldsNothing ==
  ASSUME NEW over, NEW about, NEW base, NEW h, DOMAIN h = {}
  PROVE  Folds(over, about, base, h) /\ Folded(over, about, base, h) = base
<1>1. SUBSET DOMAIN h = {{}}
  OBVIOUS
<1> DEFINE none == [t \in {{}} |-> base]
<1>2. Folding(none, over, about, base, h)
  BY <1>1 DEF Folding
<1>3. ASSUME NEW it, Folding(it, over, about, base, h)
      PROVE  it[DOMAIN h] = base
  BY <1>1, <1>3 DEF Folding
<1>4. Folding(CHOOSE it : Folding(it, over, about, base, h), over, about, base, h)
  BY <1>2
<1>5. Folded(over, about, base, h) = base
  BY <1>3, <1>4 DEF Folded
<1> QED
  BY <1>2, <1>3, <1>5 DEF Folds

\* Of a sequence that grew: what there was, and then the new element.
Longer(h, grown, n, x) ==
  /\ n \in Nat /\ DOMAIN h = 1..n /\ DOMAIN grown = 1..(n + 1) /\ grown[n + 1] = x
  /\ \A i \in 1..n : grown[i] = h[i]

LEMMA FoldsGrow ==
  ASSUME NEW over, NEW about, NEW base, NEW h, NEW x, NEW grown, NEW n,
         Longer(h, grown, n, x), Folds(over, about, base, h)
  PROVE  /\ Folds(over, about, base, grown)
         /\ Folded(over, about, base, grown) =
              FoldStep(over, about, Folded(over, about, base, h), x)
<1>1. /\ n \in Nat /\ DOMAIN h = 1..n /\ DOMAIN grown = 1..(n + 1) /\ grown[n + 1] = x
      /\ \A i \in 1..n : grown[i] = h[i]
  BY DEF Longer
<1> USE <1>1
<1>2. \A t \in SUBSET (1..n) : t # {} => Max(t) \in t
  <2> SUFFICES ASSUME NEW t \in SUBSET (1..n), t # {}
               PROVE  Max(t) \in t
    OBVIOUS
  <2>1. t \subseteq 0..n
    OBVIOUS
  <2> QED
    BY <2>1, MaxIs
<1>3. \A t \in SUBSET (1..(n + 1)) : n + 1 \in t => Max(t) = n + 1
  <2> SUFFICES ASSUME NEW t \in SUBSET (1..(n + 1)), n + 1 \in t
               PROVE  Max(t) = n + 1
    OBVIOUS
  <2>1. t \subseteq 0..(n + 1) /\ n + 1 \in Nat /\ \A y \in t : y <= n + 1
    OBVIOUS
  <2> QED
    BY <2>1, MaxIs
<1>4. \A t \in SUBSET (1..(n + 1)) :
        /\ n + 1 \in t => t \ {n + 1} \in SUBSET (1..n)
        /\ n + 1 \notin t => t \in SUBSET (1..n)
  <2>1. \A i \in 1..(n + 1) : i # n + 1 => i \in 1..n
    OBVIOUS
  <2> QED
    BY <2>1
<1>5. (1..(n + 1)) \ {n + 1} = 1..n /\ n + 1 \in 1..(n + 1) /\ n + 1 \notin 1..n
  OBVIOUS
<1>6. ASSUME NEW it, Folding(it, over, about, base, h)
      PROVE  Folding([t \in SUBSET DOMAIN grown |->
                        IF n + 1 \in t THEN FoldStep(over, about, it[t \ {n + 1}], x)
                        ELSE it[t]], over, about, base, grown)
  <2> DEFINE more == [t \in SUBSET DOMAIN grown |->
                        IF n + 1 \in t THEN FoldStep(over, about, it[t \ {n + 1}], x)
                        ELSE it[t]]
  <2>1. \A t \in SUBSET (1..n) : more[t] = it[t]
    BY <1>5
  <2>2. ASSUME NEW t \in SUBSET (1..(n + 1)), n + 1 \in t
        PROVE  more[t] = IF t = {} THEN base
                         ELSE FoldStep(over, about, more[t \ {Max(t)}], grown[Max(t)])
    <3>1. more[t] = FoldStep(over, about, it[t \ {n + 1}], x)
      BY <2>2
    <3>2. more[t \ {n + 1}] = it[t \ {n + 1}]
      BY <1>4, <2>1, <2>2
    <3>3. Max(t) = n + 1
      BY <1>3, <2>2
    <3> QED
      BY <2>2, <3>1, <3>2, <3>3, Zenon
  <2>3. ASSUME NEW t \in SUBSET (1..(n + 1)), n + 1 \notin t
        PROVE  more[t] = IF t = {} THEN base
                         ELSE FoldStep(over, about, more[t \ {Max(t)}], grown[Max(t)])
    <3>1. t \in SUBSET (1..n) /\ more[t] = it[t]
      BY <1>4, <2>1, <2>3
    <3>2. CASE t = {}
      <4>1. it[t] = base
        BY <1>6, <3>1, <3>2 DEF Folding
      <4> QED
        BY <3>1, <3>2, <4>1
    <3>3. CASE t # {}
      <4>1. Max(t) \in t /\ Max(t) \in 1..n
        BY <1>2, <3>1, <3>3
      <4>2. grown[Max(t)] = h[Max(t)] /\ t \ {Max(t)} \in SUBSET (1..n)
        BY <3>1, <4>1
      <4>3. more[t \ {Max(t)}] = it[t \ {Max(t)}]
        BY <2>1, <4>2
      <4>4. it[t] = FoldStep(over, about, it[t \ {Max(t)}], h[Max(t)])
        BY <1>6, <3>1, <3>3, Zenon DEF Folding
      <4> QED
        BY <3>1, <3>3, <4>2, <4>3, <4>4, Zenon
    <3> QED
      BY <3>2, <3>3
  <2>4. \A t \in SUBSET DOMAIN grown :
          more[t] = IF t = {} THEN base
                    ELSE FoldStep(over, about, more[t \ {Max(t)}], grown[Max(t)])
    BY <2>2, <2>3, Zenon
  <2>5. more = [t \in SUBSET DOMAIN grown |-> more[t]]
    BY Zenon
  <2> HIDE DEF more
  <2> QED
    <3>1. [t \in SUBSET DOMAIN grown |-> more[t]] =
            [t \in SUBSET DOMAIN grown |->
               IF t = {} THEN base
               ELSE FoldStep(over, about, more[t \ {Max(t)}], grown[Max(t)])]
      BY <2>4, Zenon
    <3>2. Folding(more, over, about, base, grown)
      BY <2>5, <3>1, Zenon DEF Folding
    <3> QED
      BY <3>2, Zenon DEF more
<1>7. ASSUME NEW it, Folding(it, over, about, base, grown)
      PROVE  it[DOMAIN grown] = FoldStep(over, about, Folded(over, about, base, h), x)
  <2> DEFINE less == [t \in SUBSET DOMAIN h |-> it[t]]
  <2>1. \A t \in SUBSET (1..n) : t \in SUBSET (1..(n + 1)) /\ less[t] = it[t]
    OBVIOUS
  <2>2. ASSUME NEW t \in SUBSET (1..n)
        PROVE  it[t] = IF t = {} THEN base
                       ELSE FoldStep(over, about, less[t \ {Max(t)}], h[Max(t)])
    <3>1. it[t] = IF t = {} THEN base
                  ELSE FoldStep(over, about, it[t \ {Max(t)}], grown[Max(t)])
      BY <1>7, <2>1, Zenon DEF Folding
    <3>2. CASE t = {}
      BY <3>1, <3>2
    <3>3. CASE t # {}
      <4>1. Max(t) \in 1..n /\ t \ {Max(t)} \in SUBSET (1..n)
        BY <1>2, <3>3
      <4>2. grown[Max(t)] = h[Max(t)] /\ less[t \ {Max(t)}] = it[t \ {Max(t)}]
        BY <2>1, <4>1
      <4> QED
        BY <3>1, <3>3, <4>2, Zenon
    <3> QED
      BY <3>2, <3>3
  <2>3. less = [t \in SUBSET DOMAIN h |->
                  IF t = {} THEN base
                  ELSE FoldStep(over, about, less[t \ {Max(t)}], h[Max(t)])]
    <3> HIDE DEF less
    <3>1. [t \in SUBSET DOMAIN h |-> it[t]] =
          [t \in SUBSET DOMAIN h |->
                  IF t = {} THEN base
                  ELSE FoldStep(over, about, less[t \ {Max(t)}], h[Max(t)])]
      BY <2>2, Zenon
    <3> QED
      BY <3>1, Zenon DEF less
  <2>4. less[DOMAIN h] = Folded(over, about, base, h)
    <3> HIDE DEF less
    <3>1. Folding(less, over, about, base, h)
      BY <2>3, Zenon DEF Folding
    <3> QED
      BY <3>1, Zenon DEF Folds
  <2>5. it[1..n] = Folded(over, about, base, h)
    BY <2>4
  <2>6. it[1..(n + 1)] = FoldStep(over, about, it[(1..(n + 1)) \ {Max(1..(n + 1))}],
                                  grown[Max(1..(n + 1))])
    <3>1. 1..(n + 1) # {}
      BY <1>5
    <3> QED
      BY <1>7, <3>1, Zenon DEF Folding
  <2>7. Max(1..(n + 1)) = n + 1
    BY <1>3, <1>5
  <2>8. it[1..(n + 1)] = FoldStep(over, about, it[1..n], x)
    BY <1>5, <2>6, <2>7, Zenon
  <2> QED
    BY <2>5, <2>8, Zenon
<1>8. \E it : Folding(it, over, about, base, grown)
  <2>1. PICK it : Folding(it, over, about, base, h)
    BY DEF Folds
  <2> QED
    BY <1>6, <2>1, Zenon
<1>9. Folded(over, about, base, grown) =
        FoldStep(over, about, Folded(over, about, base, h), x)
  <2>1. Folding(CHOOSE it : Folding(it, over, about, base, grown), over, about, base, grown)
    BY <1>8, Zenon
  <2> QED
    BY <1>7, <2>1, Zenon DEF Folded
<1> QED
  BY <1>7, <1>8, <1>9, Zenon DEF Folds

-----------------------------------------------------------------------------
(* A transcript                                                            *)

\* A result cites a call of its source row, or leaves it to be the only one.
Result(h, i) ==
  /\ h[i].source \in 1..(i - 1)
  /\ h[h[i].source].kind = "assistant"
  /\ \E t \in Range(h[h[i].source].asks) :
        \/ h[i].cites = t
        \/ h[i].cites = None /\ Len(h[h[i].source].asks) = 1

Orderly(h) ==
  /\ h \in Seq(Row)
  /\ \A i \in DOMAIN h : h[i].uuid = i
  /\ \E n \in 0..Len(h) : RequestsIn(h) = 1..n
  /\ \E n \in Nat : ToolsIn(h) = 1..n
  /\ \A i, j \in Indices(h, "assistant") :
       Range(h[i].asks) \cap Range(h[j].asks) # {} => i = j
  /\ \A i \in DOMAIN h : h[i].void =>
       /\ h[i].kind = "assistant"
       /\ \A j \in Indices(h, "assistant") : h[j].req = h[i].req => j = i
  /\ \A i \in Indices(h, "result") : Result(h, i)

Asking(h, row) ==
  /\ row.kind = "assistant" /\ row.parent = Tip(h)
  /\ row.cites = None /\ row.source = None
  /\ row.version \in VersionsOf(row.req)
  /\ \/ row.req = Cardinality(RequestsIn(h)) + 1
     \/ row.req = Arriving(h) /\ Arriving(h) \notin {None} \cup Voided(h) /\ ~row.void
  /\ row.void \in BOOLEAN
  /\ \E n \in Asks \cup {0} : row.asks = NewTools(h, n) /\ (row.void => n = 0)

Unasking(h, row) ==
  row.req = None /\ row.asks = <<>> /\ row.void = FALSE /\ row.version = None

Answering(h, row) ==
  /\ row.kind = "result" /\ row.parent = Tip(h) /\ Unasking(h, row)
  /\ \E t \in Unanswered(h) : /\ row.source = AskedBy(h, t)
                              /\ \/ row.cites = t
                                 \/ row.cites = None /\ Len(h[AskedBy(h, t)].asks) = 1

Remarking(h, row) ==
  /\ row.kind \in {"prompt", "other"} /\ Unasking(h, row)
  /\ row.cites = None /\ row.source = None
  /\ row.parent = Tip(h) \/ (row.kind = "other" /\ row.parent = None)

NewRow(h, row) ==
  /\ row = [uuid |-> Len(h) + 1, kind |-> row.kind, parent |-> row.parent, req |-> row.req,
            void |-> row.void, ts |-> row.ts, asks |-> row.asks, cites |-> row.cites,
            source |-> row.source, version |-> row.version]
  /\ \E step \in Steps : row.ts = step + (IF h = <<>> THEN 0 ELSE h[Len(h)].ts)
  /\ Remarking(h, row) \/ Asking(h, row) \/ Answering(h, row)

\* What may come next.
LEMMA NextRow ==
  ASSUME NEW h, NEW row \in NextRows(h)
  PROVE  NewRow(h, row)
<1> DEFINE fresh == Cardinality(RequestsIn(h)) + 1
           open == {Arriving(h)} \ ({None} \cup Voided(h))
           Shape == row = [uuid |-> Len(h) + 1, kind |-> row.kind, parent |-> row.parent,
                           req |-> row.req, void |-> row.void, ts |-> row.ts,
                           asks |-> row.asks, cites |-> row.cites, source |-> row.source,
                           version |-> row.version]
           Timed == \E step \in Steps : row.ts = step + (IF h = <<>> THEN 0 ELSE h[Len(h)].ts)
<1>1. \/ row \in Saying(h) \/ row \in Failing(h, fresh)
      \/ \E req \in {fresh} \cup open : row \in Responding(h, req)
      \/ \E tool \in Unanswered(h) : row \in Resulting(h, tool)
  <2> DEFINE said == Saying(h)
             failed == Failing(h, fresh)
             responded == UNION {Responding(h, req) : req \in {fresh} \cup open}
             resulted == UNION {Resulting(h, tool) : tool \in Unanswered(h)}
  <2>1. row \in said \/ row \in failed \/ row \in responded \/ row \in resulted
    BY DEF NextRows
  <2>2. row \in responded => \E req \in {fresh} \cup open : row \in Responding(h, req)
    BY Zenon
  <2>3. row \in resulted => \E tool \in Unanswered(h) : row \in Resulting(h, tool)
    BY Zenon
  <2>4. (row \in said => row \in Saying(h)) /\ (row \in failed => row \in Failing(h, fresh))
    OBVIOUS
  <2> HIDE DEF said, failed, responded, resulted, fresh, open
  <2> QED
    BY <2>1, <2>2, <2>3, <2>4, Zenon
<1>2. CASE row \in Saying(h)
  <2>1. PICK kind \in {"prompt", "other"}, step \in Steps :
          \/ row = Bare(h, kind, step)
          \/ kind = "other" /\ row = [Bare(h, kind, step) EXCEPT !.parent = None]
    BY <1>2 DEF Saying
  <2>2. /\ row.kind = kind /\ row.req = None /\ row.asks = <<>> /\ row.void = FALSE
        /\ row.version = None /\ row.cites = None /\ row.source = None
        /\ Shape /\ Timed
    BY <2>1 DEF Bare
  <2>3. row.parent = Tip(h) \/ (kind = "other" /\ row.parent = None)
    <3>1. row = Bare(h, kind, step) => row.parent = Tip(h)
      BY DEF Bare
    <3>2. row = [Bare(h, kind, step) EXCEPT !.parent = None] => row.parent = None
      BY DEF Bare
    <3> QED
      BY <2>1, <3>1, <3>2
  <2>4. Unasking(h, row)
    BY <2>2, Zenon DEF Unasking
  <2>5. Remarking(h, row)
    BY <2>1, <2>2, <2>3, <2>4 DEF Remarking
  <2> QED
    BY <2>2, <2>5, Zenon DEF NewRow
<1>3. ASSUME NEW req, NEW step \in Steps, NEW n \in Asks \cup {0}, NEW v \in VersionsOf(req),
             \/ row = AssistantRow(h, step, req, n, v) /\ req \in {fresh} \cup open
             \/ row = VoidRow(h, step, req, v) /\ n = 0 /\ req = fresh
      PROVE  NewRow(h, row)
  <2> HIDE DEF fresh, open
  <2>1. /\ row.kind = "assistant" /\ row.parent = Tip(h) /\ row.req = req
        /\ row.asks = NewTools(h, n) /\ row.version = v /\ row.cites = None /\ row.source = None
        /\ Shape /\ Timed
    BY <1>3 DEF Bare, AssistantRow, VoidRow
  <2>2. \/ row.void = FALSE /\ row.req \in {fresh} \cup open
        \/ row.void = TRUE /\ n = 0 /\ row.req = fresh
    BY <1>3 DEF Bare, AssistantRow, VoidRow
  <2>3. Asking(h, row)
    <3>1. row.void \in BOOLEAN /\ (row.void => n = 0)
      BY <2>2, Zenon
    <3>2. \/ row.req = Cardinality(RequestsIn(h)) + 1
          \/ row.req = Arriving(h) /\ Arriving(h) \notin {None} \cup Voided(h) /\ ~row.void
      BY <2>2, Zenon DEF fresh, open
    <3> QED
      BY <1>3, <2>1, <3>1, <3>2, Zenon DEF Asking
  <2> QED
    BY <2>1, <2>3, Zenon DEF NewRow
<1>4. CASE row \in Failing(h, fresh)
  <2> HIDE DEF fresh, open
  <2>1. PICK step \in Steps, v \in VersionsOf(fresh) : row = VoidRow(h, step, fresh, v)
    BY <1>4 DEF Failing
  <2>2. 0 \in Asks \cup {0}
    OBVIOUS
  <2> QED
    BY <1>3, <2>1, <2>2, Zenon
<1>5. ASSUME NEW req \in {fresh} \cup open, row \in Responding(h, req)
      PROVE  NewRow(h, row)
  <2> HIDE DEF fresh, open
  <2>1. PICK step \in Steps, n \in Asks, v \in VersionsOf(req) :
          row = AssistantRow(h, step, req, n, v)
    BY <1>5 DEF Responding
  <2>2. n \in Asks \cup {0}
    BY <2>1
  <2> QED
    BY <1>3, <2>1, <2>2, Zenon
<1>6. ASSUME NEW tool \in Unanswered(h), row \in Resulting(h, tool)
      PROVE  NewRow(h, row)
  <2>1. PICK step \in Steps, cites \in Citable(h, tool) : row = ResultRow(h, step, tool, cites)
    BY <1>6 DEF Resulting
  <2>2. /\ row.kind = "result" /\ row.parent = Tip(h) /\ row.req = None /\ row.asks = <<>>
        /\ row.void = FALSE /\ row.version = None
        /\ row.source = AskedBy(h, tool) /\ row.cites = cites
        /\ Shape /\ Timed
    BY <2>1 DEF Bare, ResultRow
  <2>3. Unasking(h, row)
    BY <2>2, Zenon DEF Unasking
  <2>4. cites = tool \/ (cites = None /\ Len(h[AskedBy(h, tool)].asks) = 1)
    BY <2>1, Zenon DEF Citable
  <2>5. Answering(h, row)
    BY <2>2, <2>3, <2>4, Zenon DEF Answering
  <2> QED
    BY <2>2, <2>5, Zenon DEF NewRow
<1> QED
  BY <1>1, <1>2, <1>4, <1>5, <1>6, Zenon

LEMMA Lines ==
  ASSUME NEW h, Orderly(h)
  PROVE  /\ Len(h) \in Nat /\ DOMAIN h = 1..Len(h)
         /\ \A i \in 1..Len(h) : h[i] \in Row /\ h[i].uuid = i
         /\ \A kind : Indices(h, kind) = {i \in 1..Len(h) : h[i].kind = kind}
         /\ h \in Seq(Row)
  BY LenProperties DEF Orderly, Indices

\* Who asked is who asked: each tool has one asking row.
LEMMA Asker ==
  ASSUME NEW h, Orderly(h), NEW t
  PROVE  /\ t \in ToolsIn(h) => /\ AskedBy(h, t) \in Indices(h, "assistant")
                                /\ t \in Range(h[AskedBy(h, t)].asks)
         /\ \A i \in Indices(h, "assistant") :
              t \in Range(h[i].asks) => t \in ToolsIn(h) /\ AskedBy(h, t) = i
<1>1. t \in ToolsIn(h) <=> \E i \in Indices(h, "assistant") : t \in Range(h[i].asks)
  BY DEF ToolsIn
<1>2. t \in ToolsIn(h) => /\ AskedBy(h, t) \in Indices(h, "assistant")
                          /\ t \in Range(h[AskedBy(h, t)].asks)
  BY <1>1 DEF AskedBy
<1> QED
  BY <1>1, <1>2 DEF Orderly

\* Requests and tools are numbered as they come.
LEMMA Numbered ==
  ASSUME NEW h, Orderly(h)
  PROVE  /\ \E q \in 0..Len(h) : RequestsIn(h) = 1..q /\ Cardinality(RequestsIn(h)) = q
         /\ \E c \in Nat : ToolsIn(h) = 1..c /\ Cardinality(ToolsIn(h)) = c
<1>1. \A n \in Nat : Cardinality(1..n) = n
  <2> SUFFICES ASSUME NEW n \in Nat
               PROVE  Cardinality(1..n) = n
    OBVIOUS
  <2>1. Cardinality(1..n) = IF 1 > n THEN 0 ELSE n - 1 + 1
    BY FS_Interval
  <2> QED
    BY <2>1
<1>2. PICK q \in 0..Len(h) : RequestsIn(h) = 1..q
  BY DEF Orderly
<1>3. PICK c \in Nat : ToolsIn(h) = 1..c
  BY DEF Orderly
<1>4. q \in Nat
  BY <1>2, Lines
<1> QED
  BY <1>1, <1>2, <1>3, <1>4

\* The tip and the arriving response are rows of the file.
LEMMA TipIs ==
  ASSUME NEW h, Orderly(h)
  PROVE  /\ Tip(h) \in 0..Len(h)
         /\ Tip(h) # None => h[Tip(h)].kind # "other" \/ h[Tip(h)].parent # None
         /\ \A i \in 1..Len(h) : i > Tip(h) => h[i].kind = "other" /\ h[i].parent = None
<1> DEFINE S == {i \in DOMAIN h : h[i].kind # "other" \/ h[i].parent # None}
<1>1. Len(h) \in Nat /\ S \subseteq 1..Len(h) /\ Tip(h) = LatestOf(S)
  BY Lines DEF Tip
<1>2. LatestOf(S) \in 0..Len(h) /\ (S = {} => LatestOf(S) = None)
  <2> HIDE DEF S
  <2> QED
    BY <1>1, LatestIs
<1>3. S # {} => LatestOf(S) \in S /\ \A y \in S : y <= LatestOf(S)
  <2> HIDE DEF S
  <2> QED
    BY <1>1, LatestIs
<1>4. S = {} => \A i \in 1..Len(h) : h[i].kind = "other" /\ h[i].parent = None
  BY Lines
<1>5. ASSUME NEW i \in 1..Len(h), i > Tip(h)
      PROVE  i \notin S
  <2> HIDE DEF S
  <2> QED
    BY <1>1, <1>2, <1>3, <1>5
<1>6. Tip(h) # None => Tip(h) \in S
  BY <1>1, <1>2, <1>3, Zenon
<1> QED
  BY <1>1, <1>2, <1>5, <1>6, Lines

LEMMA ArrivingIs ==
  ASSUME NEW h, Orderly(h)
  PROVE  \/ /\ Arriving(h) = None
            /\ \/ \A i \in 1..Len(h) : h[i].kind = "other"
               \/ \E last \in 1..Len(h) : /\ h[last].kind \in {"prompt", "result"}
                                          /\ \A i \in 1..Len(h) : i > last => h[i].kind = "other"
         \/ \E last \in 1..Len(h) : /\ h[last].kind = "assistant" /\ h[last].req = Arriving(h)
                                    /\ \A i \in 1..Len(h) : i > last => h[i].kind = "other"
<1> DEFINE S == DOMAIN h \ Indices(h, "other")
<1>1. /\ Len(h) \in Nat /\ S \subseteq 1..Len(h)
      /\ S = {i \in 1..Len(h) : h[i].kind # "other"}
  BY Lines
<1>2. LatestOf(S) \in 0..Len(h) /\ (S = {} => LatestOf(S) = None)
  <2> HIDE DEF S
  <2> QED
    BY <1>1, LatestIs
<1>3. S # {} => LatestOf(S) \in S /\ \A y \in S : y <= LatestOf(S)
  <2> HIDE DEF S
  <2> QED
    BY <1>1, LatestIs
<1>4. Arriving(h) = IF LatestOf(S) # None /\ h[LatestOf(S)].kind = "assistant"
                      THEN h[LatestOf(S)].req ELSE None
  BY DEF Arriving
<1>5. CASE S = {}
  <2>1. \A i \in 1..Len(h) : h[i].kind = "other"
    BY <1>1, <1>5
  <2> QED
    BY <1>2, <1>4, <1>5, <2>1, Zenon
<1>6. CASE S # {}
  <2> DEFINE last == LatestOf(S)
  <2>1. last \in 1..Len(h) /\ h[last].kind # "other"
    BY <1>1, <1>3, <1>6
  <2>2. ASSUME NEW i \in 1..Len(h), i > last
        PROVE  h[i].kind = "other"
    <3>1. i \notin S
      <4> HIDE DEF S
      <4> QED
        BY <1>1, <1>3, <1>6, <2>1, <2>2
    <3> QED
      BY <1>1, <3>1
  <2>3. h[last].kind \in {"prompt", "result", "assistant"}
    <3>1. h[last] \in Row
      BY <2>1, Lines
    <3> QED
      BY <2>1, <3>1 DEF Row, RowKinds
  <2>4. last # None
    BY <2>1, <1>1 DEF None
  <2> HIDE DEF S, last
  <2>5. CASE h[last].kind = "assistant"
    <3>1. Arriving(h) = h[last].req
      BY <1>4, <2>4, <2>5, Zenon DEF last
    <3> QED
      BY <2>1, <2>2, <2>5, <3>1, Zenon
  <2>6. CASE h[last].kind # "assistant"
    <3>1. Arriving(h) = None /\ h[last].kind \in {"prompt", "result"}
      BY <1>4, <2>3, <2>6, Zenon DEF last
    <3> QED
      BY <2>1, <2>2, <3>1, Zenon
  <2> QED
    BY <2>5, <2>6
<1> QED
  BY <1>5, <1>6

\* An arriving request is one of the file's.
LEMMA ArrivingIn ==
  ASSUME NEW h, Orderly(h)
  PROVE  Arriving(h) \in RequestsIn(h) \cup {None}
<1>1. CASE Arriving(h) = None
  BY <1>1
<1>2. CASE Arriving(h) # None
  <2>1. PICK last \in 1..Len(h) : h[last].kind = "assistant" /\ h[last].req = Arriving(h)
    BY <1>2, ArrivingIs
  <2> QED
    BY <2>1, Lines DEF RequestsIn
<1> QED
  BY <1>1, <1>2

\* The calls a row asks for are new ones.
LEMMA NewAsks ==
  ASSUME NEW h, Orderly(h), NEW row, NewRow(h, row)
  PROVE  /\ row.asks \in Seq(Nat \ {0})
         /\ row.kind # "assistant" => row.asks = <<>> /\ Range(row.asks) = {}
         /\ \E c, n \in Nat : /\ ToolsIn(h) = 1..c /\ DOMAIN row.asks = 1..n
                              /\ Len(row.asks) = n
                              /\ \A k \in 1..n : row.asks[k] = c + k
                              /\ Range(row.asks) = (c + 1)..(c + n)
                              /\ row.void => n = 0
<1>1. PICK c \in Nat : ToolsIn(h) = 1..c /\ Cardinality(ToolsIn(h)) = c
  BY Numbered
<1>2. CASE row.kind # "assistant"
  <2>1. row.asks = <<>>
    BY <1>2 DEF NewRow, Asking, Answering, Remarking, Unasking
  <2>2. DOMAIN row.asks = 1..0 /\ Len(row.asks) = 0 /\ Range(row.asks) = {}
    BY <2>1 DEF Range
  <2>3. (c + 1)..(c + 0) = {} /\ 0 \in Nat /\ row.asks \in Seq(Nat \ {0})
    BY <2>1
  <2>4. \A k \in 1..0 : row.asks[k] = c + k
    OBVIOUS
  <2> QED
    BY <1>1, <2>1, <2>2, <2>3, <2>4, Zenon
<1>3. CASE row.kind = "assistant"
  <2>1. Asking(h, row)
    BY <1>3 DEF NewRow, Answering, Remarking
  <2>2. PICK n \in Asks \cup {0} : row.asks = NewTools(h, n) /\ (row.void => n = 0)
    BY <2>1, Zenon DEF Asking
  <2>3. n \in Nat
    BY <2>2, TranscriptAssumption
  <2>4. row.asks = [k \in 1..n |-> c + k]
    BY <1>1, <2>2 DEF NewTools
  <2>5. \A k \in 1..n : c + k \in Nat \ {0}
    BY <1>1, <2>3
  <2>6. row.asks \in Seq(Nat \ {0}) /\ Len(row.asks) = n /\ DOMAIN row.asks = 1..n
    BY <2>3, <2>4, <2>5
  <2>7. Range(row.asks) = (c + 1)..(c + n)
    <3>1. Range(row.asks) = {c + k : k \in 1..n}
      BY <2>4 DEF Range
    <3>2. \A i \in (c + 1)..(c + n) : i - c \in 1..n /\ i = c + (i - c)
      BY <2>3
    <3>3. \A k \in 1..n : c + k \in (c + 1)..(c + n)
      BY <2>3
    <3> QED
      BY <3>1, <3>2, <3>3
  <2> QED
    BY <1>1, <1>3, <2>2, <2>3, <2>4, <2>6, <2>7
<1> QED
  BY <1>2, <1>3

\* Only a request has rows; the next request, or the one still arriving.
LEMMA NewRequest ==
  ASSUME NEW h, Orderly(h), NEW row, NewRow(h, row)
  PROVE  /\ row.kind # "assistant" => row.req = None /\ row.void = FALSE
         /\ row.kind = "assistant" =>
              /\ row.void \in BOOLEAN
              /\ \/ row.req \notin RequestsIn(h)
                 \/ /\ row.req = Arriving(h) /\ row.req \in RequestsIn(h) \ Voided(h)
                    /\ row.void = FALSE
              /\ \E q \in 0..Len(h) :
                   /\ RequestsIn(h) = 1..q
                   /\ \/ row.req = q + 1
                      \/ row.req = Arriving(h) /\ row.req \in 1..q
<1>1. CASE row.kind # "assistant"
  BY <1>1, Zenon DEF NewRow, Asking, Answering, Remarking, Unasking
<1>2. CASE row.kind = "assistant"
  <2>1. Asking(h, row)
    BY <1>2 DEF NewRow, Answering, Remarking
  <2>2. PICK q \in 0..Len(h) : RequestsIn(h) = 1..q /\ Cardinality(RequestsIn(h)) = q
    BY Numbered
  <2>3. q \in Nat /\ q + 1 \notin 1..q
    BY <2>2, Lines
  <2>4. row.void \in BOOLEAN
    BY <2>1, Zenon DEF Asking
  <2>5. CASE row.req = q + 1
    BY <1>2, <2>2, <2>3, <2>4, <2>5, Zenon
  <2>6. CASE row.req # q + 1
    <3>1. row.req = Arriving(h) /\ Arriving(h) \notin {None} \cup Voided(h) /\ ~row.void
      BY <2>1, <2>2, <2>6, Zenon DEF Asking
    <3>2. row.req \in RequestsIn(h)
      BY <3>1, ArrivingIn
    <3>3. row.req \notin Voided(h) /\ row.void = FALSE
      BY <2>4, <3>1, Zenon
    <3> QED
      BY <1>2, <2>2, <2>4, <3>1, <3>2, <3>3, Zenon
  <2> QED
    BY <2>5, <2>6
<1> QED
  BY <1>1, <1>2

\* What a result answers.
LEMMA NewAnswer ==
  ASSUME NEW h, Orderly(h), NEW row, NewRow(h, row), row.kind = "result"
  PROVE  \E t \in ToolsIn(h) :
           /\ t \in Unanswered(h) /\ t # None
           /\ row.source = AskedBy(h, t) /\ row.source \in 1..Len(h)
           /\ \/ row.cites = t
              \/ row.cites = None /\ Len(h[row.source].asks) = 1
<1>1. Answering(h, row)
  BY DEF NewRow, Asking, Remarking
<1>2. PICK t \in Unanswered(h) : /\ row.source = AskedBy(h, t)
                                 /\ \/ row.cites = t
                                    \/ row.cites = None /\ Len(h[AskedBy(h, t)].asks) = 1
  BY <1>1, Zenon DEF Answering
<1>3. t \in ToolsIn(h)
  BY <1>2 DEF Unanswered
<1>4. AskedBy(h, t) \in 1..Len(h)
  BY <1>3, Asker, Lines
<1>5. t # None
  BY <1>3, Numbered DEF None
<1> QED
  BY <1>2, <1>3, <1>4, <1>5, Zenon

LEMMA NewTyped ==
  ASSUME NEW h, Orderly(h), Len(h) < MaxRows, NEW row, NewRow(h, row)
  PROVE  row \in Row
<1>1. Len(h) \in Nat /\ DOMAIN h = 1..Len(h) /\ \A i \in 1..Len(h) : h[i] \in Row
  BY Lines
<1>2. row.kind \in RowKinds
  BY DEF NewRow, Asking, Answering, Remarking, RowKinds
<1>3. row.ts \in Int
  <2>1. PICK step \in Steps : row.ts = step + (IF h = <<>> THEN 0 ELSE h[Len(h)].ts)
    BY DEF NewRow
  <2>2. step \in Int
    BY <2>1, TranscriptAssumption
  <2>3. h # <<>> => h[Len(h)].ts \in Int
    <3>1. h # <<>> => Len(h) \in 1..Len(h)
      BY Lines
    <3> QED
      BY <1>1, <3>1 DEF Row
  <2> QED
    BY <2>1, <2>2, <2>3
<1>4. row.parent \in Nat
  <2>1. Tip(h) \in Nat
    BY <1>1, TipIs
  <2> QED
    BY <2>1 DEF NewRow, Asking, Answering, Remarking, None
<1>5. row.req \in Nat /\ row.version \in Nat /\ row.void \in BOOLEAN
  <2>1. CASE row.kind # "assistant"
    <3>1. Unasking(h, row)
      BY <2>1 DEF NewRow, Asking, Answering, Remarking
    <3>2. row.req \in Nat /\ row.version \in Nat
      BY <3>1 DEF Unasking, None
    <3>3. row.void \in BOOLEAN
      BY <3>1, Zenon DEF Unasking
    <3> QED
      BY <3>2, <3>3, Zenon
  <2>2. CASE row.kind = "assistant"
    <3>1. Asking(h, row)
      BY <2>2 DEF NewRow, Answering, Remarking
    <3>2. PICK q \in 0..Len(h) : row.req = q + 1 \/ row.req \in 1..q
      BY <2>2, NewRequest
    <3>3. row.req \in 1..MaxRows
      BY <1>1, <3>2, TranscriptAssumption
    <3>4. row.version \in VersionsOf(row.req)
      BY <3>1, Zenon DEF Asking
    <3>5. row.version \in Nat
      BY <3>3, <3>4, TranscriptAssumption
    <3>6. row.req \in Nat
      BY <3>3, TranscriptAssumption
    <3>7. row.void \in BOOLEAN
      BY <2>2, NewRequest, Zenon
    <3> QED
      BY <3>5, <3>6, <3>7, Zenon
  <2> QED
    BY <2>1, <2>2
<1>6. row.asks \in Seq(Nat)
  <2>1. row.asks \in Seq(Nat \ {0})
    BY NewAsks
  <2> QED
    BY <2>1
<1>7. row.cites \in Nat /\ row.source \in Nat
  <2>1. CASE row.kind # "result"
    BY <2>1 DEF NewRow, Asking, Answering, Remarking, None
  <2>2. CASE row.kind = "result"
    <3>1. PICK t \in ToolsIn(h) : row.source \in 1..Len(h) /\ (row.cites = t \/ row.cites = None)
      BY <2>2, NewAnswer
    <3>2. t \in Nat
      BY Numbered
    <3> QED
      BY <1>1, <3>1, <3>2 DEF None
  <2> QED
    BY <2>1, <2>2
<1>8. row.uuid \in Nat
  <2>1. row.uuid = Len(h) + 1
    BY DEF NewRow
  <2> QED
    BY <1>1, <2>1
<1> QED
  <2>1. row = [uuid |-> Len(h) + 1, kind |-> row.kind, parent |-> row.parent, req |-> row.req,
               void |-> row.void, ts |-> row.ts, asks |-> row.asks, cites |-> row.cites,
               source |-> row.source, version |-> row.version]
    BY Zenon DEF NewRow
  <2>2. Len(h) + 1 \in Nat
    BY <1>1
  <2> QED
    BY <1>2, <1>3, <1>4, <1>5, <1>6, <1>7, <2>1, <2>2 DEF Row

-----------------------------------------------------------------------------
(* A transcript that grows                                                 *)

Grows(h, row, g, n) ==
  Orderly(h) /\ NewRow(h, row) /\ row \in Row /\ g = Append(h, row) /\ n = Len(h) + 1

LEMMA Grown ==
  ASSUME NEW h, NEW row, NEW g, NEW n, Grows(h, row, g, n)
  PROVE  /\ Len(h) \in Nat /\ n \in Nat /\ n - 1 = Len(h) /\ n \notin 1..Len(h)
         /\ 1..n = (1..Len(h)) \cup {n}
         /\ DOMAIN h = 1..Len(h) /\ DOMAIN g = 1..n /\ Len(g) = n
         /\ g[n] = row /\ row.uuid = n /\ row \in Row
         /\ \A i \in 1..Len(h) : g[i] = h[i] /\ h[i] \in Row
         /\ \A kind : Indices(g, kind) = Indices(h, kind) \cup {i \in {n} : row.kind = kind}
         /\ g \in Seq(Row)
         /\ \A kind : Indices(h, kind) = {i \in 1..Len(h) : h[i].kind = kind}
<1>1. Orderly(h) /\ row \in Row /\ row.uuid = n /\ g = Append(h, row) /\ n = Len(h) + 1
  BY DEF Grows, NewRow
<1>2. /\ Len(h) \in Nat /\ DOMAIN h = 1..Len(h) /\ h \in Seq(Row)
      /\ \A i \in 1..Len(h) : h[i] \in Row
      /\ \A kind : Indices(h, kind) = {i \in 1..Len(h) : h[i].kind = kind}
  BY <1>1, Lines
<1>3. /\ DOMAIN g = 1..n /\ Len(g) = n /\ g[n] = row
      /\ \A i \in 1..Len(h) : g[i] = h[i]
  BY <1>1, <1>2, Appended
<1>4. 1..n = (1..Len(h)) \cup {n} /\ n - 1 = Len(h) /\ n \notin 1..Len(h) /\ n \in Nat
  BY <1>1, <1>2
<1>5. ASSUME NEW kind
      PROVE  Indices(g, kind) = Indices(h, kind) \cup {i \in {n} : row.kind = kind}
  <2>1. Indices(g, kind) = {i \in 1..n : g[i].kind = kind}
    BY <1>3 DEF Indices
  <2> QED
    BY <1>2, <1>3, <1>4, <2>1
<1>6. g \in Seq(Row)
  BY <1>1, <1>2
<1> QED
  BY <1>1, <1>2, <1>3, <1>4, <1>5, <1>6

LEMMA GrownSets ==
  ASSUME NEW h, NEW row, NEW g, NEW n, Grows(h, row, g, n)
  PROVE  /\ ToolsIn(g) = ToolsIn(h) \cup Range(row.asks)
         /\ ToolsIn(h) \cap Range(row.asks) = {}
         /\ RequestsIn(g) = RequestsIn(h) \cup {r \in {row.req} : row.kind = "assistant"}
         /\ Voided(g) = Voided(h) \cup {r \in {row.req} : row.void}
<1>1. Orderly(h) /\ NewRow(h, row) /\ n = Len(h) + 1
  BY DEF Grows
<1>2. /\ DOMAIN h = 1..Len(h) /\ DOMAIN g = 1..n /\ g[n] = row
      /\ \A i \in 1..Len(h) : g[i] = h[i]
      /\ 1..n = (1..Len(h)) \cup {n} /\ n \notin 1..Len(h)
      /\ Indices(g, "assistant") = Indices(h, "assistant") \cup {i \in {n} : row.kind = "assistant"}
      /\ Indices(h, "assistant") \subseteq 1..Len(h)
  BY Grown
<1>3. row.kind # "assistant" => Range(row.asks) = {}
  BY <1>1, NewAsks
<1>4. ToolsIn(g) = ToolsIn(h) \cup Range(row.asks)
  <2>1. \A t : t \in ToolsIn(g) <=> \E i \in Indices(g, "assistant") : t \in Range(g[i].asks)
    BY DEF ToolsIn
  <2>2. \A t : t \in ToolsIn(h) <=> \E i \in Indices(h, "assistant") : t \in Range(h[i].asks)
    BY DEF ToolsIn
  <2> QED
    BY <1>2, <1>3, <2>1, <2>2
<1>5. ToolsIn(h) \cap Range(row.asks) = {}
  <2>1. PICK c, m \in Nat : ToolsIn(h) = 1..c /\ Range(row.asks) = (c + 1)..(c + m)
    <3>1. PICK c, m \in Nat : /\ ToolsIn(h) = 1..c /\ DOMAIN row.asks = 1..m
                              /\ Len(row.asks) = m
                              /\ \A k \in 1..m : row.asks[k] = c + k
                              /\ Range(row.asks) = (c + 1)..(c + m)
                              /\ row.void => m = 0
      BY <1>1, NewAsks, Zenon
    <3> QED
      BY <3>1, Zenon
  <2> QED
    BY <2>1
<1>6. RequestsIn(g) = RequestsIn(h) \cup {r \in {row.req} : row.kind = "assistant"}
  <2> QED
    BY <1>2 DEF RequestsIn
<1>7. Voided(g) = Voided(h) \cup {r \in {row.req} : row.void}
  <2> QED
    BY <1>2 DEF Voided
<1> QED
  BY <1>4, <1>5, <1>6, <1>7

LEMMA StaysOrderly ==
  ASSUME NEW h, NEW row, NEW g, NEW n, Grows(h, row, g, n)
  PROVE  Orderly(g)
<1>1. Orderly(h) /\ NewRow(h, row) /\ n = Len(h) + 1
  BY DEF Grows
<1>2. /\ Len(h) \in Nat /\ n \in Nat /\ n - 1 = Len(h)
      /\ DOMAIN h = 1..Len(h) /\ DOMAIN g = 1..n /\ g[n] = row /\ row.uuid = n /\ Len(g) = n
      /\ \A i \in 1..Len(h) : g[i] = h[i]
      /\ 1..n = (1..Len(h)) \cup {n} /\ n \notin 1..Len(h)
      /\ \A kind : Indices(g, kind) = Indices(h, kind) \cup {i \in {n} : row.kind = kind}
      /\ g \in Seq(Row)
      /\ \A kind : Indices(h, kind) = {i \in 1..Len(h) : h[i].kind = kind}
  BY Grown
<1>3. /\ ToolsIn(g) = ToolsIn(h) \cup Range(row.asks)
      /\ ToolsIn(h) \cap Range(row.asks) = {}
      /\ RequestsIn(g) = RequestsIn(h) \cup {r \in {row.req} : row.kind = "assistant"}
  BY GrownSets
<1>4. \A i \in DOMAIN g : g[i].uuid = i
  BY <1>1, <1>2 DEF Orderly
<1>5. \E q \in 0..Len(g) : RequestsIn(g) = 1..q
  <2>1. CASE row.kind = "assistant"
    <3>1. PICK q \in 0..Len(h) : /\ RequestsIn(h) = 1..q
                                 /\ row.req = q + 1 \/ row.req \in 1..q
      BY <1>1, <2>1, NewRequest
    <3>2. RequestsIn(g) = 1..q \/ RequestsIn(g) = 1..(q + 1)
      BY <1>2, <1>3, <2>1, <3>1
    <3>3. q \in 0..n /\ q + 1 \in 0..n
      BY <1>2, <3>1
    <3> QED
      BY <1>2, <3>2, <3>3
  <2>2. CASE row.kind # "assistant"
    <3>1. RequestsIn(g) = RequestsIn(h)
      BY <1>3, <2>2
    <3>2. PICK q \in 0..Len(h) : RequestsIn(h) = 1..q
      BY <1>1 DEF Orderly
    <3>3. q \in 0..n
      BY <1>2, <3>2
    <3> QED
      BY <1>2, <3>1, <3>2, <3>3
  <2> QED
    BY <2>1, <2>2
<1>6. \E c \in Nat : ToolsIn(g) = 1..c
  <2>1. PICK c, m \in Nat : ToolsIn(h) = 1..c /\ Range(row.asks) = (c + 1)..(c + m)
    <3>1. PICK c, m \in Nat : /\ ToolsIn(h) = 1..c /\ DOMAIN row.asks = 1..m
                              /\ Len(row.asks) = m
                              /\ \A k \in 1..m : row.asks[k] = c + k
                              /\ Range(row.asks) = (c + 1)..(c + m)
                              /\ row.void => m = 0
      BY <1>1, NewAsks, Zenon
    <3> QED
      BY <3>1, Zenon
  <2>2. ToolsIn(g) = 1..(c + m) /\ c + m \in Nat
    BY <1>3, <2>1
  <2> QED
    BY <2>2
<1>7. ASSUME NEW i \in Indices(g, "assistant"), NEW j \in Indices(g, "assistant"),
             Range(g[i].asks) \cap Range(g[j].asks) # {}
      PROVE  i = j
  <2>1. \A k \in Indices(h, "assistant") : Range(g[k].asks) \subseteq ToolsIn(h)
    BY <1>2 DEF ToolsIn
  <2>2. CASE i \in Indices(h, "assistant") /\ j \in Indices(h, "assistant")
    <3>1. Range(h[i].asks) \cap Range(h[j].asks) # {}
      BY <1>2, <1>7, <2>2
    <3> QED
      BY <1>1, <2>2, <3>1, Zenon DEF Orderly
  <2>3. CASE i = n /\ j \in Indices(h, "assistant")
    BY <1>2, <1>3, <1>7, <2>1, <2>3
  <2>4. CASE j = n /\ i \in Indices(h, "assistant")
    BY <1>2, <1>3, <1>7, <2>1, <2>4
  <2> QED
    BY <1>2, <2>2, <2>3, <2>4
<1>8. ASSUME NEW i \in DOMAIN g, g[i].void
      PROVE  /\ g[i].kind = "assistant"
             /\ \A j \in Indices(g, "assistant") : g[j].req = g[i].req => j = i
  <2>1. \A k \in Indices(h, "assistant") : g[k].req = h[k].req /\ h[k].req \in RequestsIn(h)
    BY <1>2 DEF RequestsIn
  <2>2. CASE i = n
    <3>1. row.kind = "assistant" /\ row.req \notin RequestsIn(h)
      BY <1>1, <1>2, <1>8, <2>2, NewRequest, Zenon
    <3> QED
      BY <1>2, <2>1, <2>2, <3>1
  <2>3. CASE i \in 1..Len(h)
    <3>1. h[i].void
      BY <1>2, <1>8, <2>3, Zenon
    <3>2. /\ h[i].kind = "assistant"
          /\ \A j \in Indices(h, "assistant") : h[j].req = h[i].req => j = i
      BY <1>1, <1>2, <2>3, <3>1 DEF Orderly
    <3>3. ASSUME row.kind = "assistant"
          PROVE  row.req # h[i].req
      <4>1. h[i].req \in Voided(h) /\ h[i].req \in RequestsIn(h)
        BY <1>2, <2>3, <3>1, <3>2 DEF Voided, RequestsIn
      <4> QED
        BY <1>1, <3>3, <4>1, NewRequest
    <3> QED
      BY <1>2, <2>3, <3>2, <3>3
  <2> QED
    BY <1>2, <2>2, <2>3
<1>9. ASSUME NEW i \in Indices(g, "result")
      PROVE  Result(g, i)
  <2>1. CASE i \in Indices(h, "result")
    <3>1. Result(h, i) /\ i \in 1..Len(h)
      BY <1>1, <1>2, <2>1 DEF Orderly
    <3>2. h[i].source \in 1..Len(h) /\ g[h[i].source] = h[h[i].source] /\ g[i] = h[i]
      BY <1>2, <3>1 DEF Result
    <3> QED
      BY <3>1, <3>2 DEF Result
  <2>2. CASE i = n /\ row.kind = "result"
    <3>1. PICK t \in ToolsIn(h) :
           /\ row.source = AskedBy(h, t) /\ row.source \in 1..Len(h)
           /\ \/ row.cites = t
              \/ row.cites = None /\ Len(h[row.source].asks) = 1
      BY <1>1, <2>2, NewAnswer
    <3>2. AskedBy(h, t) \in Indices(h, "assistant") /\ t \in Range(h[AskedBy(h, t)].asks)
      BY <1>1, <3>1, Asker
    <3>3. g[row.source] = h[row.source] /\ row.source \in 1..(n - 1) /\ g[i] = row
      BY <1>2, <2>2, <3>1
    <3>4. g[i].source = row.source /\ g[i].cites = row.cites /\ g[g[i].source] = h[row.source]
      BY <3>3
    <3>5. h[row.source].kind = "assistant"
      BY <3>1, <3>2 DEF Indices
    <3>6. g[i].source \in 1..(i - 1)
      BY <2>2, <3>3, <3>4
    <3>7. \/ g[i].cites = t
          \/ g[i].cites = None /\ Len(g[g[i].source].asks) = 1
      BY <3>1, <3>4
    <3>8. t \in Range(g[g[i].source].asks)
      BY <3>1, <3>2, <3>4
    <3> QED
      BY <3>4, <3>5, <3>6, <3>7, <3>8 DEF Result
  <2> QED
    BY <1>2, <2>1, <2>2
<1> QED
  BY <1>2, <1>4, <1>5, <1>6, <1>7, <1>8, <1>9, Zenon DEF Orderly

LEMMA GrownAsker ==
  ASSUME NEW h, NEW row, NEW g, NEW n, Grows(h, row, g, n)
  PROVE  /\ \A t \in ToolsIn(h) : AskedBy(g, t) = AskedBy(h, t) /\ AskedBy(h, t) \in 1..Len(h)
         /\ \A t \in Range(row.asks) : AskedBy(g, t) = n /\ row.kind = "assistant"
<1>1. Orderly(h) /\ Orderly(g) /\ NewRow(h, row)
  BY StaysOrderly DEF Grows
<1>2. /\ g[n] = row /\ \A i \in 1..Len(h) : g[i] = h[i]
      /\ \A kind : Indices(g, kind) = Indices(h, kind) \cup {i \in {n} : row.kind = kind}
      /\ \A kind : Indices(h, kind) = {i \in 1..Len(h) : h[i].kind = kind}
  BY Grown
<1>3. ASSUME NEW t \in ToolsIn(h)
      PROVE  AskedBy(g, t) = AskedBy(h, t) /\ AskedBy(h, t) \in 1..Len(h)
  <2>1. AskedBy(h, t) \in Indices(h, "assistant") /\ t \in Range(h[AskedBy(h, t)].asks)
    BY <1>1, <1>3, Asker
  <2>2. AskedBy(h, t) \in Indices(g, "assistant") /\ t \in Range(g[AskedBy(h, t)].asks)
    BY <1>2, <2>1
  <2> QED
    BY <1>1, <1>2, <2>1, <2>2, Asker
<1>4. ASSUME NEW t \in Range(row.asks)
      PROVE  AskedBy(g, t) = n /\ row.kind = "assistant"
  <2>1. row.kind = "assistant"
    BY <1>1, <1>4, NewAsks
  <2>2. n \in Indices(g, "assistant") /\ t \in Range(g[n].asks)
    BY <1>2, <1>4, <2>1
  <2> QED
    BY <1>1, <2>1, <2>2, Asker
<1> QED
  BY <1>3, <1>4

\* A row answers what was asked before it.
LEMMA AnsweredLater ==
  ASSUME NEW h, Orderly(h), NEW i \in 1..Len(h), NEW t \in ToolsIn(h), Answers(h, i, t)
  PROVE  AskedBy(h, t) \in 1..(i - 1)
<1>1. i \in Indices(h, "result")
  BY Lines DEF Answers
<1>2. Result(h, i)
  BY <1>1 DEF Orderly
<1>3. t # None
  BY Numbered DEF None
<1>4. CASE h[i].cites = None /\ h[i].source = AskedBy(h, t)
  BY <1>2, <1>4 DEF Result
<1>5. CASE h[i].cites = t
  <2>1. t \in Range(h[h[i].source].asks)
    BY <1>2, <1>3, <1>5 DEF Result
  <2>2. h[i].source \in 1..(i - 1) /\ h[h[i].source].kind = "assistant"
    BY <1>2 DEF Result
  <2>3. h[i].source \in Indices(h, "assistant")
    BY <2>2, Lines
  <2>4. AskedBy(h, t) = h[i].source
    BY <2>1, <2>3, Asker
  <2> QED
    BY <2>2, <2>4
<1> QED
  BY <1>4, <1>5 DEF Answers

\* The call a result answers, and no other.
LEMMA GrownAnswers ==
  ASSUME NEW h, NEW row, NEW g, NEW n, Grows(h, row, g, n)
  PROVE  /\ \A i \in 1..Len(h), t \in ToolsIn(h) : Answers(g, i, t) <=> Answers(h, i, t)
         /\ \A i \in 1..Len(h), t \in Range(row.asks) : ~ Answers(g, i, t)
         /\ row.kind = "result" => \E answered \in Unanswered(h) :
              /\ answered \in ToolsIn(h) /\ ToolsIn(g) = ToolsIn(h)
              /\ row.source = AskedBy(h, answered)
              /\ \/ row.cites = answered
                 \/ row.cites = None /\ Len(h[row.source].asks) = 1
              /\ \A t \in ToolsIn(g) : Answers(g, n, t) <=> t = answered
         /\ row.kind # "result" => \A t : ~ Answers(g, n, t)
<1>1. Orderly(h) /\ Orderly(g) /\ NewRow(h, row)
  BY StaysOrderly DEF Grows
<1>2. /\ g[n] = row /\ \A i \in 1..Len(h) : g[i] = h[i]
      /\ \A kind : Indices(h, kind) = {i \in 1..Len(h) : h[i].kind = kind}
      /\ 1..n = (1..Len(h)) \cup {n} /\ n \notin 1..Len(h) /\ n \in Nat /\ Len(g) = n
  BY Grown, SMTT(30)
<1>3. /\ \A t \in ToolsIn(h) : AskedBy(g, t) = AskedBy(h, t) /\ AskedBy(h, t) \in 1..Len(h)
      /\ \A t \in Range(row.asks) : AskedBy(g, t) = n
  BY GrownAsker
<1>4. ToolsIn(g) = ToolsIn(h) \cup Range(row.asks)
  BY GrownSets
<1>5. ASSUME NEW i \in 1..Len(h), NEW t \in ToolsIn(h)
      PROVE  Answers(g, i, t) <=> Answers(h, i, t)
  BY <1>2, <1>3 DEF Answers
<1>6. ASSUME NEW i \in 1..Len(h), NEW t \in Range(row.asks), Answers(g, i, t)
      PROVE  FALSE
  <2>1. i \in 1..Len(g) /\ t \in ToolsIn(g)
    BY <1>2, <1>4
  <2>2. AskedBy(g, t) \in 1..(i - 1)
    BY <1>1, <1>6, <2>1, AnsweredLater
  <2> QED
    BY <1>2, <1>3, <2>2
<1>7. ASSUME row.kind = "result"
      PROVE  \E answered \in Unanswered(h) :
              /\ answered \in ToolsIn(h) /\ ToolsIn(g) = ToolsIn(h)
              /\ row.source = AskedBy(h, answered)
              /\ \/ row.cites = answered
                 \/ row.cites = None /\ Len(h[row.source].asks) = 1
              /\ \A t \in ToolsIn(g) : Answers(g, n, t) <=> t = answered
  <2>1. PICK answered \in ToolsIn(h) :
           /\ answered \in Unanswered(h) /\ answered # None
           /\ row.source = AskedBy(h, answered) /\ row.source \in 1..Len(h)
           /\ \/ row.cites = answered
              \/ row.cites = None /\ Len(h[row.source].asks) = 1
    BY <1>1, <1>7, NewAnswer
  <2>2. Range(row.asks) = {}
    BY <1>1, <1>7, NewAsks
  <2>3. ToolsIn(g) = ToolsIn(h)
    BY <1>4, <2>2
  <2>4. ASSUME NEW t \in ToolsIn(h)
        PROVE  Answers(g, n, t) <=> t = answered
    <3>1. AskedBy(g, t) = AskedBy(h, t) /\ t # None
      BY <1>1, <1>3, Numbered DEF None
    <3>2. Answers(g, n, t) <=> \/ row.cites = t
                               \/ row.cites = None /\ row.source = AskedBy(h, t)
      BY <1>2, <1>7, <3>1 DEF Answers
    <3>3. CASE row.cites = answered
      BY <2>1, <3>2, <3>3
    <3>4. CASE row.cites = None /\ Len(h[row.source].asks) = 1
      <4>1. ASSUME row.source = AskedBy(h, t)
            PROVE  t = answered
        <5>1. t \in Range(h[row.source].asks) /\ answered \in Range(h[row.source].asks)
          BY <1>1, <2>1, <4>1, Asker
        <5>2. h[row.source].asks \in Seq(Nat)
          <6>1. h[row.source] \in Row
            BY <1>1, <2>1, Lines
          <6> QED
            BY <6>1 DEF Row
        <5>3. DOMAIN h[row.source].asks = {1}
          BY <3>4, <5>2
        <5> QED
          BY <5>1, <5>3 DEF Range
      <4> QED
        BY <2>1, <3>1, <3>2, <3>4, <4>1
    <3> QED
      BY <2>1, <3>3, <3>4
  <2> QED
    BY <2>1, <2>3, <2>4
<1>8. row.kind # "result" => \A t : ~ Answers(g, n, t)
  BY <1>2 DEF Answers
<1> QED
  BY <1>5, <1>6, <1>7, <1>8

\* A call and the row that answers it, as the database should have them.
Timed(h, i, t) == [what |-> "tool", uuid |-> i, ts |-> h[AskedBy(h, t)].ts, tool |-> t,
                   took |-> TrueTook(h, i, t)]

LEMMA TimedIs ==
  ASSUME NEW h, Orderly(h), NEW c
  PROVE  c \in TimedCalls(h) <=>
           \E i \in 1..Len(h), t \in ToolsIn(h) :
             Answers(h, i, t) /\ Plausible(TrueTook(h, i, t)) /\ c = Timed(h, i, t)
<1>1. \A kind : Indices(h, kind) = {i \in 1..Len(h) : h[i].kind = kind}
  BY Lines
<1>2. ASSUME NEW i \in 1..Len(h), NEW t \in ToolsIn(h),
             Answers(h, i, t), Plausible(TrueTook(h, i, t)), c = Timed(h, i, t)
      PROVE  c \in TimedCalls(h)
  <2>1. i \in Indices(h, "result")
    BY <1>1, <1>2 DEF Answers
  <2>2. <<i, t>> \in {q \in Indices(h, "result") \X ToolsIn(h) :
              Answers(h, q[1], q[2]) /\ Plausible(TrueTook(h, q[1], q[2]))}
    BY <1>2, <2>1
  <2> DEFINE p == <<i, t>>
  <2>3. p[1] = i /\ p[2] = t
    OBVIOUS
  <2>4. p \in {q \in Indices(h, "result") \X ToolsIn(h) :
              Answers(h, q[1], q[2]) /\ Plausible(TrueTook(h, q[1], q[2]))}
    BY <2>2
  <2> HIDE DEF p
  <2>5. c = Timed(h, p[1], p[2])
    BY <1>2, <2>3
  <2> QED
    BY <2>4, <2>5, Zenon DEF TimedCalls, Timed
<1>3. ASSUME c \in TimedCalls(h)
      PROVE  \E i \in 1..Len(h), t \in ToolsIn(h) :
               Answers(h, i, t) /\ Plausible(TrueTook(h, i, t)) /\ c = Timed(h, i, t)
  <2>1. PICK p \in {q \in Indices(h, "result") \X ToolsIn(h) :
              Answers(h, q[1], q[2]) /\ Plausible(TrueTook(h, q[1], q[2]))} :
          c = Timed(h, p[1], p[2])
    BY <1>3, Zenon DEF TimedCalls, Timed
  <2>2. /\ p[1] \in Indices(h, "result") /\ p[2] \in ToolsIn(h)
        /\ Answers(h, p[1], p[2]) /\ Plausible(TrueTook(h, p[1], p[2]))
    BY <2>1
  <2>3. p[1] \in 1..Len(h)
    BY <1>1, <2>2
  <2> QED
    BY <2>1, <2>2, <2>3, Zenon
<1> QED
  BY <1>2, <1>3, Zenon

LEMMA TimedFields ==
  ASSUME NEW h, Orderly(h), NEW c \in TimedCalls(h)
  PROVE  /\ c.what = "tool" /\ c.uuid \in 1..Len(h) /\ c.tool \in ToolsIn(h)
         /\ Answers(h, c.uuid, c.tool) /\ AskedBy(h, c.tool) \in 1..(c.uuid - 1)
         /\ c = Timed(h, c.uuid, c.tool)
<1>1. PICK i \in 1..Len(h), t \in ToolsIn(h) :
        Answers(h, i, t) /\ Plausible(TrueTook(h, i, t)) /\ c = Timed(h, i, t)
  BY TimedIs, Zenon
<1>2. c.what = "tool" /\ c.uuid = i /\ c.tool = t
  BY <1>1 DEF Timed
<1>3. AskedBy(h, t) \in 1..(i - 1)
  BY <1>1, AnsweredLater
<1> QED
  BY <1>1, <1>2, <1>3

\* What was timed is timed; only an answer adds to it.
LEMMA GrownTimed ==
  ASSUME NEW h, NEW row, NEW g, NEW n, Grows(h, row, g, n)
  PROVE  /\ TimedCalls(h) \subseteq TimedCalls(g)
         /\ row.kind # "result" => TimedCalls(g) = TimedCalls(h)
         /\ \A c \in TimedCalls(g) : c.uuid # n => c \in TimedCalls(h)
<1>1. Orderly(h) /\ Orderly(g)
  BY StaysOrderly DEF Grows
<1>2. /\ \A i \in 1..Len(h) : g[i] = h[i]
      /\ 1..n = (1..Len(h)) \cup {n} /\ Len(g) = n
  BY Grown
<1>3. /\ \A i \in 1..Len(h), t \in ToolsIn(h) : Answers(g, i, t) <=> Answers(h, i, t)
      /\ \A i \in 1..Len(h), t \in Range(row.asks) : ~ Answers(g, i, t)
      /\ row.kind # "result" => \A t : ~ Answers(g, n, t)
  BY GrownAnswers
<1>4. ToolsIn(g) = ToolsIn(h) \cup Range(row.asks)
  BY GrownSets
<1>5. \A t \in ToolsIn(h) : AskedBy(g, t) = AskedBy(h, t) /\ AskedBy(h, t) \in 1..Len(h)
  BY GrownAsker
<1>6. \A i \in 1..Len(h), t \in ToolsIn(h) :
        Timed(g, i, t) = Timed(h, i, t) /\ TrueTook(g, i, t) = TrueTook(h, i, t)
  BY <1>2, <1>5 DEF Timed, TrueTook
<1>7. ASSUME NEW c \in TimedCalls(h)
      PROVE  c \in TimedCalls(g)
  <2>1. PICK i \in 1..Len(h), t \in ToolsIn(h) :
          Answers(h, i, t) /\ Plausible(TrueTook(h, i, t)) /\ c = Timed(h, i, t)
    BY <1>1, <1>7, TimedIs, Zenon
  <2>2. i \in 1..Len(g) /\ t \in ToolsIn(g)
    BY <1>2, <1>4
  <2>3. Answers(g, i, t) /\ Plausible(TrueTook(g, i, t)) /\ c = Timed(g, i, t)
    BY <1>3, <1>6, <2>1
  <2> QED
    BY <1>1, <2>2, <2>3, TimedIs, Zenon
<1>8. ASSUME NEW c \in TimedCalls(g), c.uuid # n \/ row.kind # "result"
      PROVE  c \in TimedCalls(h)
  <2>1. PICK i \in 1..Len(g), t \in ToolsIn(g) :
          Answers(g, i, t) /\ Plausible(TrueTook(g, i, t)) /\ c = Timed(g, i, t)
    BY <1>1, <1>8, TimedIs, Zenon
  <2>2. c.uuid = i
    BY <2>1 DEF Timed
  <2>3. i \in 1..Len(h)
    BY <1>2, <1>3, <1>8, <2>1, <2>2
  <2>4. t \in ToolsIn(h)
    BY <1>3, <1>4, <2>1, <2>3
  <2>5. Answers(h, i, t) /\ Plausible(TrueTook(h, i, t)) /\ c = Timed(h, i, t)
    BY <1>3, <1>6, <2>1, <2>3, <2>4
  <2> QED
    BY <1>1, <2>3, <2>4, <2>5, TimedIs, Zenon
<1> QED
  BY <1>7, <1>8

LEMMA GrownRequests ==
  ASSUME NEW h, NEW row, NEW g, NEW n, Grows(h, row, g, n)
  PROVE  /\ \A r \in RequestsIn(h) : r \in Measurable(g) <=> r \in Measurable(h)
         /\ Measurable(g) \subseteq Measurable(h) \cup {row.req}
         /\ row.kind # "assistant" => Measurable(g) = Measurable(h)
         /\ row.kind = "assistant" => (row.req \in Measurable(g) <=> ~row.void)
         /\ \A r : RowsOf(g, r) = RowsOf(h, r) \cup
                                  {i \in {n} : row.kind = "assistant" /\ row.req = r}
<1>1. Orderly(h) /\ NewRow(h, row)
  BY DEF Grows
<1>2. /\ RequestsIn(g) = RequestsIn(h) \cup {r \in {row.req} : row.kind = "assistant"}
      /\ Voided(g) = Voided(h) \cup {r \in {row.req} : row.void}
  BY GrownSets
<1>3. /\ row.kind # "assistant" => row.req = None /\ row.void = FALSE
      /\ row.kind = "assistant" =>
              /\ row.void \in BOOLEAN
              /\ \/ row.req \notin RequestsIn(h)
                 \/ /\ row.req = Arriving(h) /\ row.req \in RequestsIn(h) \ Voided(h)
                    /\ row.void = FALSE
  BY <1>1, NewRequest, Zenon
<1>4. Voided(h) \subseteq RequestsIn(h)
  <2> SUFFICES ASSUME NEW i \in DOMAIN h, h[i].void
               PROVE  h[i].req \in RequestsIn(h)
    BY DEF Voided
  <2>1. h[i].kind = "assistant"
    BY <1>1 DEF Orderly
  <2> QED
    BY <2>1 DEF RequestsIn, Indices
<1>5. \A r \in RequestsIn(h) : r \in Measurable(g) <=> r \in Measurable(h)
  BY <1>2, <1>3 DEF Measurable
<1>6. Measurable(g) \subseteq Measurable(h) \cup {row.req}
  BY <1>2 DEF Measurable
<1>7. row.kind # "assistant" => Measurable(g) = Measurable(h)
  BY <1>2, <1>3 DEF Measurable
<1>8. row.kind = "assistant" => (row.req \in Measurable(g) <=> ~row.void)
  BY <1>2, <1>3, <1>4 DEF Measurable
<1>9. \A r : RowsOf(g, r) = RowsOf(h, r) \cup
                            {i \in {n} : row.kind = "assistant" /\ row.req = r}
  <2>1. /\ g[n] = row /\ \A i \in 1..Len(h) : g[i] = h[i]
        /\ \A kind : Indices(g, kind) = Indices(h, kind) \cup {i \in {n} : row.kind = kind}
        /\ \A kind : Indices(h, kind) = {i \in 1..Len(h) : h[i].kind = kind}
    BY Grown
  <2> QED
    BY <2>1 DEF RowsOf
<1> QED
  BY <1>5, <1>6, <1>7, <1>8, <1>9

\* Where a request opens and what its last row is.
LEMMA RowsOfIs ==
  ASSUME NEW h, Orderly(h), NEW r
  PROVE  /\ RowsOf(h, r) \subseteq 1..Len(h)
         /\ r \in RequestsIn(h) <=> RowsOf(h, r) # {}
         /\ r \in RequestsIn(h) => /\ Opening(h, r) \in RowsOf(h, r)
                                   /\ \A i \in RowsOf(h, r) : Opening(h, r) <= i
                                   /\ Max(RowsOf(h, r)) \in RowsOf(h, r)
         /\ \A m \in RowsOf(h, r) : (\A i \in RowsOf(h, r) : i <= m) => Max(RowsOf(h, r)) = m
<1>1. /\ Len(h) \in Nat
      /\ \A kind : Indices(h, kind) = {i \in 1..Len(h) : h[i].kind = kind}
  BY Lines
<1>2. RowsOf(h, r) \subseteq 1..Len(h)
  BY <1>1 DEF RowsOf
<1>3. r \in RequestsIn(h) <=> RowsOf(h, r) # {}
  BY <1>1 DEF RowsOf, RequestsIn
<1>4. RowsOf(h, r) \subseteq Nat /\ RowsOf(h, r) \subseteq 0..Len(h)
  BY <1>2
<1>5. RowsOf(h, r) # {} => /\ Opening(h, r) \in RowsOf(h, r)
                           /\ \A i \in RowsOf(h, r) : Opening(h, r) <= i
  BY <1>4, MinIs DEF Opening
<1>6. RowsOf(h, r) # {} =>
        /\ Max(RowsOf(h, r)) \in RowsOf(h, r)
        /\ \A m \in RowsOf(h, r) : (\A i \in RowsOf(h, r) : i <= m) => Max(RowsOf(h, r)) = m
  BY <1>1, <1>4, MaxIs, Zenon
<1> QED
  BY <1>2, <1>3, <1>5, <1>6

LEMMA GrownOpening ==
  ASSUME NEW h, NEW row, NEW g, NEW n, Grows(h, row, g, n)
  PROVE  /\ \A r \in RequestsIn(h) : Opening(g, r) = Opening(h, r) /\ Opening(h, r) \in 1..Len(h)
         /\ row.kind = "assistant" =>
              /\ Max(RowsOf(g, row.req)) = n
              /\ row.req \notin RequestsIn(h) =>
                   RowsOf(h, row.req) = {} /\ RowsOf(g, row.req) = {n} /\ Opening(g, row.req) = n
<1>1. Orderly(h) /\ Orderly(g)
  BY StaysOrderly DEF Grows
<1>2. /\ Len(h) \in Nat /\ n \in Nat /\ n - 1 = Len(h) /\ n \notin 1..Len(h)
      /\ 1..n = (1..Len(h)) \cup {n} /\ Len(g) = n
  BY Grown
<1>3. /\ \A r : RowsOf(g, r) = RowsOf(h, r) \cup
                               {i \in {n} : row.kind = "assistant" /\ row.req = r}
  BY GrownRequests
<1>4. ASSUME NEW r \in RequestsIn(h)
      PROVE  Opening(g, r) = Opening(h, r) /\ Opening(h, r) \in 1..Len(h)
  <2>1. /\ RowsOf(h, r) \subseteq 1..Len(h) /\ Opening(h, r) \in RowsOf(h, r)
        /\ \A i \in RowsOf(h, r) : Opening(h, r) <= i
    BY <1>1, <1>4, RowsOfIs
  <2>2. r \in RequestsIn(g)
    BY <1>4, GrownSets
  <2>3. /\ RowsOf(g, r) \subseteq 1..n /\ Opening(g, r) \in RowsOf(g, r)
        /\ \A i \in RowsOf(g, r) : Opening(g, r) <= i
    BY <1>1, <1>2, <2>2, RowsOfIs
  <2>4. Opening(h, r) \in 1..Len(h) /\ Opening(g, r) \in 1..n
    BY <2>1, <2>3
  <2>5. Opening(g, r) <= Opening(h, r)
    BY <1>3, <2>1, <2>3
  <2>6. Opening(g, r) \in RowsOf(h, r)
    BY <1>2, <1>3, <2>3, <2>4, <2>5
  <2> QED
    BY <2>1, <2>4, <2>5, <2>6
<1>5. ASSUME row.kind = "assistant"
      PROVE  Max(RowsOf(g, row.req)) = n
  <2>1. n \in RowsOf(g, row.req) /\ RowsOf(g, row.req) \subseteq 1..n
    BY <1>1, <1>2, <1>3, <1>5, RowsOfIs
  <2>2. \A i \in RowsOf(g, row.req) : i <= n
    BY <1>2, <2>1
  <2> QED
    BY <1>1, <2>1, <2>2, RowsOfIs
<1>6. ASSUME row.kind = "assistant", row.req \notin RequestsIn(h)
      PROVE  RowsOf(h, row.req) = {} /\ RowsOf(g, row.req) = {n} /\ Opening(g, row.req) = n
  <2>1. RowsOf(h, row.req) = {}
    BY <1>1, <1>6, RowsOfIs
  <2>2. RowsOf(g, row.req) = {n}
    BY <1>3, <1>6, <2>1
  <2>3. Opening(g, row.req) \in RowsOf(g, row.req)
    BY <1>1, <2>2, RowsOfIs
  <2> QED
    BY <2>1, <2>2, <2>3
<1> QED
  BY <1>4, <1>5, <1>6

LEMMA GrownEnd ==
  ASSUME NEW h, NEW row, NEW g, NEW n, Grows(h, row, g, n)
  PROVE  /\ Arriving(g) = IF row.kind = "assistant" THEN row.req
                          ELSE IF row.kind = "other" THEN Arriving(h) ELSE None
         /\ Tip(g) = IF row.kind # "other" \/ row.parent # None THEN n ELSE Tip(h)
<1>1. Orderly(h) /\ Orderly(g)
  BY StaysOrderly DEF Grows
<1>2. /\ Len(h) \in Nat /\ n \in Nat /\ n - 1 = Len(h) /\ n \notin 1..Len(h)
      /\ 1..n = (1..Len(h)) \cup {n} /\ DOMAIN g = 1..n /\ DOMAIN h = 1..Len(h)
      /\ g[n] = row /\ \A i \in 1..Len(h) : g[i] = h[i]
  BY Grown
<1>3. n # None /\ n \in 1..n /\ \A i \in 1..n : i <= n
  BY <1>2 DEF None
<1> DEFINE S(f) == DOMAIN f \ Indices(f, "other")
           T(f) == {i \in DOMAIN f : f[i].kind # "other" \/ f[i].parent # None}
<1>4. /\ S(g) = S(h) \cup {i \in {n} : row.kind # "other"}
      /\ S(g) \subseteq 1..n /\ S(h) \subseteq 1..Len(h)
  BY <1>2 DEF Indices
<1>5. /\ T(g) = T(h) \cup {i \in {n} : row.kind # "other" \/ row.parent # None}
      /\ T(g) \subseteq 1..n
  BY <1>2
<1>6. /\ Arriving(g) = IF LatestOf(S(g)) # None /\ g[LatestOf(S(g))].kind = "assistant"
                         THEN g[LatestOf(S(g))].req ELSE None
      /\ Arriving(h) = IF LatestOf(S(h)) # None /\ h[LatestOf(S(h))].kind = "assistant"
                         THEN h[LatestOf(S(h))].req ELSE None
  BY DEF Arriving
<1>7. Tip(g) = LatestOf(T(g)) /\ Tip(h) = LatestOf(T(h))
  BY DEF Tip
<1> HIDE DEF S, T
<1>8. CASE row.kind # "other"
  <2>1. n \in S(g) /\ n \in T(g)
    BY <1>4, <1>5, <1>8
  <2>2. LatestOf(S(g)) = n
    BY <1>2, <1>3, <1>4, <2>1, LatestIs
  <2>3. LatestOf(T(g)) = n
    BY <1>2, <1>3, <1>5, <2>1, LatestIs
  <2> QED
    BY <1>2, <1>3, <1>6, <1>7, <1>8, <2>2, <2>3
<1>9. CASE row.kind = "other"
  <2>1. S(g) = S(h)
    BY <1>4, <1>9
  <2>2. LatestOf(S(h)) \in 0..Len(h)
    BY <1>2, <1>4, LatestIs
  <2>3. LatestOf(S(h)) # None => g[LatestOf(S(h))] = h[LatestOf(S(h))]
    BY <1>2, <2>2 DEF None
  <2>4. Arriving(g) = Arriving(h)
    BY <1>6, <2>1, <2>3
  <2>5. row.parent = None => T(g) = T(h)
    BY <1>5, <1>9
  <2>6. row.parent # None => LatestOf(T(g)) = n
    <3>1. row.parent # None => n \in T(g)
      BY <1>5
    <3> QED
      BY <1>2, <1>3, <1>5, <3>1, LatestIs
  <2> QED
    BY <1>7, <1>9, <2>4, <2>5, <2>6
<1> QED
  BY <1>8, <1>9

\* A response that has ended stays as it is.
LEMMA StaysProven ==
  ASSUME NEW h, NEW row, NEW g, NEW n, Grows(h, row, g, n),
         NEW r \in RequestsIn(h), Proven(h, r)
  PROVE  Proven(g, r) /\ Span(g, r) = Span(h, r) /\ RowsOf(g, r) = RowsOf(h, r)
<1>1. Orderly(h) /\ NewRow(h, row)
  BY DEF Grows
<1>2. r # None
  BY <1>1, Numbered DEF None
<1>3. ASSUME row.kind = "assistant"
      PROVE  row.req # r
  BY <1>1, <1>3, NewRequest DEF Proven
<1>4. Proven(g, r)
  BY <1>2, <1>3, GrownEnd DEF Proven
<1>5. RowsOf(g, r) = RowsOf(h, r)
  <2>1. \A x : RowsOf(g, x) = RowsOf(h, x) \cup
                                 {i \in {n} : row.kind = "assistant" /\ row.req = x}
    BY GrownRequests
  <2>2. {i \in {n} : row.kind = "assistant" /\ row.req = r} = {}
    BY <1>3
  <2> QED
    BY <2>1, <2>2
<1>6. Opening(g, r) = Opening(h, r) /\ Opening(h, r) \in 1..Len(h)
  BY GrownOpening
<1>7. Max(RowsOf(h, r)) \in 1..Len(h)
  BY <1>1, RowsOfIs
<1>8. \A i \in 1..Len(h) : g[i] = h[i]
  BY Grown
<1>9. Span(g, r) = Span(h, r)
  BY <1>5, <1>6, <1>7, <1>8 DEF Span
<1> QED
  BY <1>4, <1>5, <1>9

LEMMA StaysFirst ==
  ASSUME NEW h, NEW row, NEW g, NEW n, Grows(h, row, g, n), NEW r \in RequestsIn(h)
  PROVE  TrueFirst(g, r) = TrueFirst(h, r)
<1>1. Orderly(h)
  BY DEF Grows
<1>2. /\ Len(h) \in Nat /\ n \in Nat /\ n - 1 = Len(h)
      /\ g[n] = row /\ \A i \in 1..Len(h) : g[i] = h[i]
      /\ \A kind : Indices(g, kind) = Indices(h, kind) \cup {i \in {n} : row.kind = kind}
      /\ \A kind : Indices(h, kind) = {i \in 1..Len(h) : h[i].kind = kind}
  BY Grown
<1> DEFINE first == Opening(h, r)
           S == {i \in Indices(h, "prompt") : i < first}
           prompt == LatestOf(S)
           between == (prompt + 1) .. (first - 1)
<1>3. Opening(g, r) = first /\ first \in 1..Len(h)
  BY GrownOpening
<1> HIDE DEF first
<1>4. {i \in Indices(g, "prompt") : i < first} = S
  BY <1>2, <1>3
<1>5. S \subseteq 1..Len(h)
  BY <1>2
<1>6. prompt \in 0..Len(h)
  <2> HIDE DEF S
  <2> QED
    BY <1>2, <1>5, LatestIs
<1>7. between \subseteq 1..Len(h)
  <2> HIDE DEF prompt
  <2> QED
    BY <1>2, <1>3, <1>6
<1>8. prompt # None => prompt \in 1..Len(h)
  <2> HIDE DEF prompt
  <2> QED
    BY <1>6 DEF None
<1>9. /\ \A i \in between : g[i] = h[i]
      /\ {i \in between : g[i].parent # None} = {i \in between : h[i].parent # None}
  <2> HIDE DEF between
  <2> QED
    BY <1>2, <1>7
<1>10. PromptOf(h, r) = IF /\ prompt # None
                           /\ \A i \in between : h[i].kind = "other"
                           /\ Cardinality({i \in between : h[i].parent # None}) < MaxPromptChain
                          THEN prompt ELSE None
  BY DEF PromptOf, first
<1>11. PromptOf(g, r) = IF /\ prompt # None
                           /\ \A i \in between : g[i].kind = "other"
                           /\ Cardinality({i \in between : g[i].parent # None}) < MaxPromptChain
                          THEN prompt ELSE None
  BY <1>3, <1>4, Zenon DEF PromptOf
<1> HIDE DEF prompt, between, S
<1>12. PromptOf(g, r) = PromptOf(h, r) /\ PromptOf(h, r) \in {prompt, None}
  <2>1. (\A i \in between : g[i].kind = "other") <=> (\A i \in between : h[i].kind = "other")
    BY <1>9
  <2>2. Cardinality({i \in between : g[i].parent # None}) =
        Cardinality({i \in between : h[i].parent # None})
    BY <1>9, Zenon
  <2>3. PromptOf(g, r) = PromptOf(h, r)
    <3> DEFINE C == /\ prompt # None
                    /\ \A i \in between : h[i].kind = "other"
                    /\ Cardinality({i \in between : h[i].parent # None}) < MaxPromptChain
               D == /\ prompt # None
                    /\ \A i \in between : g[i].kind = "other"
                    /\ Cardinality({i \in between : g[i].parent # None}) < MaxPromptChain
    <3>1. C <=> D
      BY <2>1, <2>2
    <3>2. /\ PromptOf(h, r) = IF C THEN prompt ELSE None
          /\ PromptOf(g, r) = IF D THEN prompt ELSE None
      BY <1>10, <1>11, Zenon
    <3> HIDE DEF C, D
    <3> QED
      BY <3>1, <3>2
  <2>4. PromptOf(h, r) = prompt \/ PromptOf(h, r) = None
    BY <1>10, Zenon
  <2> QED
    BY <2>3, <2>4
<1>13. PromptOf(h, r) # None => g[PromptOf(h, r)] = h[PromptOf(h, r)]
  BY <1>2, <1>8, <1>12
<1>14. g[first] = h[first]
  BY <1>2, <1>3
<1> QED
  BY <1>3, <1>12, <1>13, <1>14 DEF TrueFirst, first

\* A turn as the database should have it.
Right(h, t) ==
  /\ t.uuid = Opening(h, t.req)
  /\ t.gen # Absent => Proven(h, t.req) /\ t.gen = Span(h, t.req)
  /\ t.first \in {Absent, TrueFirst(h, t.req)}

LEMMA StaysRight ==
  ASSUME NEW h, NEW row, NEW g, NEW n, Grows(h, row, g, n),
         NEW t, t.req \in RequestsIn(h), Right(h, t)
  PROVE  Right(g, t)
<1>1. Opening(g, t.req) = Opening(h, t.req)
  BY GrownOpening
<1>2. Proven(h, t.req) => Proven(g, t.req) /\ Span(g, t.req) = Span(h, t.req)
  BY StaysProven
<1>3. TrueFirst(g, t.req) = TrueFirst(h, t.req)
  BY StaysFirst
<1> QED
  BY <1>1, <1>2, <1>3, Zenon DEF Right

\* No call asked for before row k still waits for its answer.
NothingPending(h, k) ==
  \A t \in ToolsIn(h) : AskedBy(h, t) < k => \E i \in 1..Len(h) : Answers(h, i, t)

LEMMA StaysAnswered ==
  ASSUME NEW h, NEW row, NEW g, NEW n, Grows(h, row, g, n),
         NEW k \in 1..n, NothingPending(h, k)
  PROVE  NothingPending(g, k)
<1>1. Orderly(h)
  BY DEF Grows
<1>2. Len(h) \in Nat /\ n \in Nat /\ 1..n = (1..Len(h)) \cup {n} /\ Len(g) = n
  BY Grown
<1> SUFFICES ASSUME NEW t \in ToolsIn(g), AskedBy(g, t) < k
             PROVE  \E i \in 1..n : Answers(g, i, t)
  BY <1>2 DEF NothingPending
<1>3. t \in ToolsIn(h) /\ AskedBy(h, t) < k
  BY <1>2, GrownSets, GrownAsker
<1>4. PICK i \in 1..Len(h) : Answers(h, i, t)
  BY <1>3 DEF NothingPending
<1>5. Answers(g, i, t)
  BY <1>3, <1>4, GrownAnswers
<1> QED
  BY <1>2, <1>4, <1>5

-----------------------------------------------------------------------------
(* The steps of a pass                                                     *)

VersionRecord == [what : {"version"}, version : Nat, ts : Int]
TurnRecord == [what : {"turn"}, uuid : Nat, req : Nat, ts : Int, first : Int, gen : Int]
ToolRecord == [what : {"tool"}, uuid : Nat, ts : Int, tool : Nat, took : Int]
Record == VersionRecord \cup TurnRecord \cup ToolRecord

Opened == [turn : TurnRecord, offset : Nat, last : Int]

Fields == {"tools", "byRow", "order", "prompt", "open", "seen", "version", "out"}

Shaped(d) ==
  /\ d = [f \in Fields |-> d[f]]
  /\ d.out \in Seq(Record)
  /\ d.open = <<>> \/ \E o \in Opened : d.open = <<o>>

\* Between d and e only these fields change.
Changed(d, e, changed) == \A f \in Fields \ changed : e[f] = d[f]

LEMMA Emitted ==
  ASSUME NEW d, Shaped(d), NEW r \in Record
  PROVE  /\ Shaped(Emit(d, r)) /\ Changed(d, Emit(d, r), {"out"})
         /\ Emit(d, r).out = Append(d.out, r)
         /\ Range(Emit(d, r).out) = Range(d.out) \cup {r}
<1>1. DOMAIN d = Fields /\ d.out \in Seq(Record)
  BY Zenon DEF Shaped
<1>2. /\ Emit(d, r) = [f \in Fields |-> Emit(d, r)[f]] /\ Changed(d, Emit(d, r), {"out"})
      /\ Emit(d, r).out = Append(d.out, r)
  BY <1>1 DEF Emit, Changed, Fields
<1>3. Range(Append(d.out, r)) = Range(d.out) \cup {r} /\ Append(d.out, r) \in Seq(Record)
  BY <1>1, Appended
<1>4. Emit(d, r).open = d.open
  BY <1>2 DEF Changed, Fields
<1> QED
  BY <1>2, <1>3, <1>4 DEF Shaped

LEMMA Noted ==
  ASSUME NEW d, Shaped(d), NEW row \in Row
  PROVE  LET e == NoteVersion(d, row) IN
         /\ Shaped(e) /\ Changed(d, e, {"out", "version"})
         /\ \E noted \in SUBSET VersionRecord : Range(e.out) = Range(d.out) \cup noted
<1> DEFINE r == [what |-> "version", version |-> row.version, ts |-> row.ts]
           c == [d EXCEPT !.version = row.version]
<1>1. CASE row.version \in {None, d.version}
  <2>1. NoteVersion(d, row) = d
    BY <1>1, Zenon DEF NoteVersion
  <2>2. {} \in SUBSET VersionRecord /\ Range(d.out) = Range(d.out) \cup {}
    OBVIOUS
  <2>3. Changed(d, d, {"out", "version"})
    BY DEF Changed
  <2> QED
    BY <2>1, <2>2, <2>3, Zenon
<1>2. CASE row.version \notin {None, d.version}
  <2>1. NoteVersion(d, row) = Emit(c, r)
    BY <1>2, Zenon DEF NoteVersion
  <2>2. r \in VersionRecord /\ r \in Record
    BY DEF Row, VersionRecord, Record
  <2>3. Shaped(c) /\ Changed(d, c, {"version"}) /\ c.out = d.out
    <3>1. d = [f \in Fields |-> d[f]]
      BY Zenon DEF Shaped
    <3>2. c = [f \in Fields |-> c[f]] /\ Changed(d, c, {"version"}) /\ c.out = d.out
          /\ c.open = d.open
      BY <3>1 DEF Changed, Fields
    <3> QED
      BY <3>2, Zenon DEF Shaped
  <2> HIDE DEF c, r
  <2>4. /\ Shaped(Emit(c, r)) /\ Changed(c, Emit(c, r), {"out"})
        /\ Range(Emit(c, r).out) = Range(c.out) \cup {r}
    BY <2>2, <2>3, Emitted
  <2>5. Changed(d, Emit(c, r), {"out", "version"})
    BY <2>3, <2>4 DEF Changed
  <2>6. {r} \in SUBSET VersionRecord
    BY <2>2
  <2> QED
    BY <2>1, <2>3, <2>4, <2>5, <2>6, Zenon
<1> QED
  BY <1>1, <1>2

\* The span of a response whose last row is proven last.
Spanned(o) ==
  IF o.last - o.turn.ts > 0 /\ Plausible(o.last - o.turn.ts) THEN o.last - o.turn.ts ELSE Absent

LEMMA Closed ==
  ASSUME NEW d, Shaped(d)
  PROVE  LET e == CloseTurn(d, TRUE) IN
         /\ Shaped(e) /\ Changed(d, e, {"out", "open"}) /\ e.open = <<>>
         /\ d.open = <<>> => Range(e.out) = Range(d.out)
         /\ \A o \in Opened : d.open = <<o>> =>
              /\ [o.turn EXCEPT !.gen = Spanned(o)] \in TurnRecord
              /\ Range(e.out) = Range(d.out) \cup {[o.turn EXCEPT !.gen = Spanned(o)]}
<1>1. CASE d.open = <<>>
  <2>1. CloseTurn(d, TRUE) = d
    BY <1>1, Zenon DEF CloseTurn
  <2>2. \A o : d.open # <<o>>
    BY <1>1
  <2>3. Changed(d, d, {"out", "open"})
    BY DEF Changed
  <2> QED
    BY <1>1, <2>1, <2>2, <2>3, Zenon
<1>2. ASSUME NEW o \in Opened, d.open = <<o>>
      PROVE  LET e == CloseTurn(d, TRUE) IN
             /\ Shaped(e) /\ Changed(d, e, {"out", "open"}) /\ e.open = <<>>
             /\ [o.turn EXCEPT !.gen = Spanned(o)] \in TurnRecord
             /\ Range(e.out) = Range(d.out) \cup {[o.turn EXCEPT !.gen = Spanned(o)]}
  <2> DEFINE r == [o.turn EXCEPT !.gen = Spanned(o)]
             c == Emit(d, r)
  <2>1. Head(d.open) = o /\ d.open # <<>>
    BY <1>2
  <2>2. CloseTurn(d, TRUE) = [c EXCEPT !.open = <<>>]
    BY <2>1 DEF CloseTurn, Spanned
  <2>3. r \in TurnRecord
    <3>1. Spanned(o) \in Int
      BY DEF Spanned, Opened, TurnRecord, Absent
    <3>2. o.turn \in TurnRecord
      BY DEF Opened
    <3> QED
      BY <3>1, <3>2 DEF TurnRecord
  <2> HIDE DEF r
  <2>4. /\ Shaped(c) /\ Changed(d, c, {"out"}) /\ Range(c.out) = Range(d.out) \cup {r}
    BY <2>3, Emitted DEF Record
  <2> HIDE DEF c
  <2> DEFINE e == [c EXCEPT !.open = <<>>]
  <2>5. /\ e = [f \in Fields |-> e[f]] /\ Changed(c, e, {"open"}) /\ e.open = <<>>
        /\ e.out = c.out
    <3>1. c = [f \in Fields |-> c[f]]
      BY <2>4, Zenon DEF Shaped
    <3> QED
      BY <3>1 DEF Changed, Fields
  <2> HIDE DEF e
  <2>6. Shaped(e)
    BY <2>4, <2>5, Zenon DEF Shaped
  <2>7. Changed(d, e, {"out", "open"})
    BY <2>4, <2>5 DEF Changed
  <2> QED
    BY <2>2, <2>3, <2>4, <2>5, <2>6, <2>7, Zenon DEF r, e
<1>3. \A o, u : <<o>> = <<u>> => o = u
  OBVIOUS
<1>4. d.open = <<>> \/ \E o \in Opened : d.open = <<o>>
  BY Zenon DEF Shaped
<1>5. ASSUME NEW o \in Opened, d.open = <<o>>
      PROVE  d.open # <<>>
  BY <1>5
<1> QED
  BY <1>1, <1>2, <1>4, <1>5, Zenon

\* A finished pass emits what is open, without its span.
LEMMA Finished ==
  ASSUME NEW d, Shaped(d), NEW o \in Opened, d.open = <<o>>
  PROVE  LET e == Finish(d) IN
         /\ Shaped(e) /\ Changed(d, e, {"out", "open"}) /\ e.open = <<>>
         /\ [o.turn EXCEPT !.gen = Absent] \in TurnRecord
         /\ Range(e.out) = Range(d.out) \cup {[o.turn EXCEPT !.gen = Absent]}
<1> DEFINE r == [o.turn EXCEPT !.gen = Absent]
           c == Emit(d, r)
<1>1. Head(d.open) = o /\ d.open # <<>>
  OBVIOUS
<1>2. Finish(d) = [c EXCEPT !.open = <<>>]
  BY <1>1 DEF Finish, CloseTurn
<1>3. r \in TurnRecord
  <2>1. o.turn \in TurnRecord
    BY DEF Opened
  <2> QED
    BY <2>1 DEF TurnRecord, Absent
<1> HIDE DEF r
<1>4. /\ Shaped(c) /\ Changed(d, c, {"out"}) /\ Range(c.out) = Range(d.out) \cup {r}
  BY <1>3, Emitted DEF Record
<1> HIDE DEF c
<1> DEFINE e == [c EXCEPT !.open = <<>>]
<1>5. /\ e = [f \in Fields |-> e[f]] /\ Changed(c, e, {"open"}) /\ e.open = <<>>
      /\ e.out = c.out
  <2>1. c = [f \in Fields |-> c[f]]
    BY <1>4, Zenon DEF Shaped
  <2> QED
    BY <2>1 DEF Changed, Fields
<1> HIDE DEF e
<1>6. Shaped(e)
  BY <1>4, <1>5, Zenon DEF Shaped
<1>7. Changed(d, e, {"out", "open"})
  BY <1>4, <1>5 DEF Changed
<1> QED
  BY <1>2, <1>3, <1>4, <1>5, <1>6, <1>7, Zenon DEF r, e

\* A call as the row that asks for it has it remembered.
Asked(row, t) == [id |-> t, row |-> row.uuid, ts |-> row.ts, offset |-> Start(row.uuid)]

LEMMA Remembered ==
  ASSUME NEW d, Shaped(d), NEW row \in Row, NEW t \in Nat, NEW room \in Nat,
         room < MaxPendingTools,
         \A p \in d.tools : p.id # t,
         d.order \in Seq(Nat), Len(d.order) <= room,
         NEW others, others = {p \in d.byRow : p.row # row.uuid},
         IsFiniteSet(others), Cardinality(others) <= room
  PROVE  LET e == RememberTool(d, t, row) IN
         /\ Shaped(e) /\ Changed(d, e, {"tools", "byRow", "order"})
         /\ e.tools = d.tools \cup {Asked(row, t)}
         /\ e.byRow = others \cup {Asked(row, t)}
         /\ e.order \in Seq(Nat) /\ Len(e.order) <= room + 1
<1> DEFINE call == Asked(row, t)
           known == {p \in d.tools : p.id = t}
           order == IF known = {} THEN Append(d.order, t) ELSE d.order
           over == Len(order) > MaxPendingTools
           byRow == {p \in d.byRow : p.row # row.uuid} \cup {call}
           tools == (d.tools \ known) \cup {call}
<1>1. RememberTool(d, t, row) =
        [d EXCEPT !.order = IF over THEN Tail(order) ELSE order,
                  !.tools = IF over THEN {p \in tools : p.id # Head(order)} ELSE tools,
                  !.byRow = IF Cardinality(byRow) > MaxPendingTools THEN {} ELSE byRow]
  BY Zenon DEF RememberTool, Asked
<1>2. MaxPendingTools \in Nat
  BY DeriverAssumption
<1>3. known = {}
  OBVIOUS
<1>4. order = Append(d.order, t) /\ tools = d.tools \cup {call}
  BY <1>3
<1>5. Append(d.order, t) \in Seq(Nat) /\ Len(Append(d.order, t)) = Len(d.order) + 1
      /\ Len(d.order) \in Nat
  OBVIOUS
<1>6. ~over
  BY <1>2, <1>4, <1>5
<1>7. byRow = others \cup {call}
  OBVIOUS
<1>8. Cardinality(others \cup {call}) <= room + 1 /\ Cardinality(others \cup {call}) \in Nat
  <2>1. Cardinality(others) \in Nat
    BY FS_CardinalityType
  <2>2. /\ IsFiniteSet(others \cup {call})
        /\ \/ Cardinality(others \cup {call}) = Cardinality(others)
           \/ Cardinality(others \cup {call}) = Cardinality(others) + 1
    BY FS_AddElement
  <2> HIDE DEF call
  <2> QED
    BY <2>1, <2>2
<1>9. ~(Cardinality(byRow) > MaxPendingTools)
  BY <1>2, <1>7, <1>8
<1> HIDE DEF call, known, order, over, byRow, tools
<1>10. RememberTool(d, t, row) = [d EXCEPT !.order = order, !.tools = tools, !.byRow = byRow]
  BY <1>1, <1>6, <1>9
<1> DEFINE e == [d EXCEPT !.order = order, !.tools = tools, !.byRow = byRow]
<1>11. d = [f \in Fields |-> d[f]]
  BY Zenon DEF Shaped
<1>12. /\ e = [f \in Fields |-> e[f]] /\ Changed(d, e, {"tools", "byRow", "order"})
       /\ e.order = order /\ e.tools = tools /\ e.byRow = byRow
       /\ e.out = d.out /\ e.open = d.open
  BY <1>11 DEF Changed, Fields
<1> HIDE DEF e
<1>13. Shaped(e)
  BY <1>12, Zenon DEF Shaped
<1>14. order \in Seq(Nat) /\ Len(order) <= room + 1
  BY <1>4, <1>5
<1>15. RememberTool(d, t, row) = e
  BY <1>10 DEF e
<1>16. tools = d.tools \cup {Asked(row, t)} /\ byRow = others \cup {Asked(row, t)}
  BY <1>4, <1>7 DEF call
<1> QED
  BY <1>12, <1>13, <1>14, <1>15, <1>16, Zenon

\* All the calls of one row, by the least prefix of them that would go wrong.
Room(d, row, c, m) ==
  /\ c + m <= MaxPendingTools
  /\ DOMAIN row.asks = 1..m /\ \A k \in 1..m : row.asks[k] = c + k
  /\ \A p \in d.tools : p.id \in 1..c
  /\ d.order \in Seq(Nat) /\ Len(d.order) <= c
  /\ \A p \in d.byRow : p.row # row.uuid
  /\ IsFiniteSet(d.byRow) /\ Cardinality(d.byRow) <= c

AllOf(d, e, row, c, m) ==
  /\ Shaped(e) /\ Changed(d, e, {"tools", "byRow", "order"})
  /\ e.tools = d.tools \cup {Asked(row, t) : t \in (c + 1)..(c + m)}
  /\ e.byRow = IF m = 0 THEN d.byRow ELSE d.byRow \cup {Asked(row, c + m)}
  /\ e.order \in Seq(Nat) /\ Len(e.order) <= c + m

LEMMA AllRemembered ==
  ASSUME NEW d, Shaped(d), NEW row \in Row, NEW c \in Nat, NEW m \in Nat, Room(d, row, c, m)
  PROVE  AllOf(d, Remembering(d, row.asks, row), row, c, m)
<1> USE DEF Room
<1> DEFINE first(j) == [k \in 1..j |-> c + k]
           Good(e, j) ==
             /\ Shaped(e) /\ Changed(d, e, {"tools", "byRow", "order"})
             /\ e.tools = d.tools \cup {Asked(row, t) : t \in (c + 1)..(c + j)}
             /\ e.byRow = IF j = 0 THEN d.byRow ELSE d.byRow \cup {Asked(row, c + j)}
             /\ e.order \in Seq(Nat) /\ Len(e.order) <= c + j
           Done(j) == /\ Folds("calls", row, d, first(j))
                      /\ Good(Folded("calls", row, d, first(j)), j)
           undone == {j \in 0..m : ~Done(j)}
<1>1. Done(0)
  <2>1. DOMAIN first(0) = {}
    OBVIOUS
  <2>2. Folds("calls", row, d, first(0)) /\ Folded("calls", row, d, first(0)) = d
    <3> HIDE DEF first
    <3> QED
      BY <2>1, FoldsNothing
  <2>3. {Asked(row, t) : t \in (c + 1)..(c + 0)} = {}
    OBVIOUS
  <2>4. Good(d, 0)
    <3>1. d.tools = d.tools \cup {Asked(row, t) : t \in (c + 1)..(c + 0)}
      BY <2>3
    <3>2. Changed(d, d, {"tools", "byRow", "order"})
      BY DEF Changed
    <3>3. Len(d.order) <= c + 0
      OBVIOUS
    <3> QED
      BY <3>1, <3>2, <3>3, Zenon
  <2> HIDE DEF Good, first
  <2> QED
    BY <2>2, <2>4, Zenon
<1>2. ASSUME NEW j \in 1..m, Done(j - 1)
      PROVE  Done(j)
  <2> DEFINE i == j - 1
             s == first(i)
             b == Folded("calls", row, d, s)
             e == Folded("calls", row, d, first(j))
  <2>1. /\ i \in Nat /\ i + 1 = j /\ c + i \in Nat /\ c + j \in Nat /\ c + i < MaxPendingTools
        /\ c + j = (c + i) + 1
    BY DeriverAssumption
  <2>2. /\ DOMAIN s = 1..i /\ DOMAIN first(j) = 1..(i + 1) /\ first(j)[i + 1] = c + j
        /\ \A k \in 1..i : first(j)[k] = s[k]
    BY <2>1
  <2>3. Folds("calls", row, d, s) /\ Good(b, i)
    BY <1>2, Zenon
  <2> HIDE DEF first, s
  <2>4. Folds("calls", row, d, first(j)) /\ e = FoldStep("calls", row, b, c + j)
    <3> HIDE DEF i
    <3>1. Folds("calls", row, d, s)
      BY <2>3, Zenon
    <3>2. i \in Nat /\ DOMAIN s = 1..i /\ DOMAIN first(j) = 1..(i + 1)
      BY <2>1, <2>2
    <3>3. first(j)[i + 1] = c + j /\ \A k \in 1..i : first(j)[k] = s[k]
      BY <2>2
    <3>4. Longer(s, first(j), i, c + j)
      BY <3>2, <3>3, Zenon DEF Longer
    <3>5. Folds("calls", row, d, first(j))
      BY <3>1, <3>4, FoldsGrow, Zenon
    <3>6. Folded("calls", row, d, first(j)) =
            FoldStep("calls", row, Folded("calls", row, d, s), c + j)
      BY <3>1, <3>4, FoldsGrow
    <3> QED
      BY <3>5, <3>6, Zenon
  <2>5. e = RememberTool(b, c + j, row)
    BY <2>4 DEF FoldStep
  <2> HIDE DEF b, e
  <2>6. \A p \in b.tools : p.id # c + j
    <3>1. b.tools = d.tools \cup {Asked(row, t) : t \in (c + 1)..(c + i)}
      BY <2>3
    <3>2. \A t \in (c + 1)..(c + i) : Asked(row, t).id # c + j
      BY <2>1 DEF Asked
    <3>3. \A p \in d.tools : p.id # c + j
      BY <2>1
    <3> QED
      BY <3>1, <3>2, <3>3
  <2>7. {p \in b.byRow : p.row # row.uuid} = d.byRow
    <3>1. \A t : Asked(row, t).row = row.uuid
      BY DEF Asked
    <3>2. b.byRow = d.byRow \/ b.byRow = d.byRow \cup {Asked(row, c + i)}
      BY <2>3, Zenon
    <3> QED
      BY <3>1, <3>2
  <2>8. Cardinality(d.byRow) <= c + i /\ b.order \in Seq(Nat) /\ Len(b.order) <= c + i
    <3>1. Cardinality(d.byRow) \in Nat
      BY FS_CardinalityType
    <3>2. Cardinality(d.byRow) <= c + i
      BY <2>1, <3>1
    <3>3. b.order \in Seq(Nat) /\ Len(b.order) <= c + i
      BY <2>3, Zenon
    <3> QED
      BY <3>2, <3>3, Zenon
  <2>9. /\ Shaped(e) /\ Changed(b, e, {"tools", "byRow", "order"})
        /\ e.tools = b.tools \cup {Asked(row, c + j)}
        /\ e.byRow = d.byRow \cup {Asked(row, c + j)}
        /\ e.order \in Seq(Nat) /\ Len(e.order) <= (c + i) + 1
    <3>1. Shaped(b)
      BY <2>3
    <3> QED
      <4> HIDE DEF i
      <4>1. LET f == RememberTool(b, c + j, row) IN
            /\ Shaped(f) /\ Changed(b, f, {"tools", "byRow", "order"})
            /\ f.tools = b.tools \cup {Asked(row, c + j)}
            /\ f.byRow = d.byRow \cup {Asked(row, c + j)}
            /\ f.order \in Seq(Nat) /\ Len(f.order) <= (c + i) + 1
        BY <2>1, <2>6, <2>7, <2>8, <3>1, Remembered, Zenon
      <4> QED
        BY <2>5, <4>1, Zenon
  <2>10. Changed(d, e, {"tools", "byRow", "order"})
    BY <2>3, <2>9 DEF Changed
  <2>11. e.tools = d.tools \cup {Asked(row, t) : t \in (c + 1)..(c + j)}
    <3>1. (c + 1)..(c + j) = ((c + 1)..(c + i)) \cup {c + j}
      BY <2>1
    <3>2. b.tools = d.tools \cup {Asked(row, t) : t \in (c + 1)..(c + i)}
      BY <2>3
    <3> QED
      BY <2>9, <3>1, <3>2
  <2>12. Good(e, j)
    <3>1. j # 0 /\ Len(e.order) <= c + j
      BY <2>1, <2>9
    <3> QED
      BY <2>9, <2>10, <2>11, <3>1, Zenon
  <2> HIDE DEF Good
  <2> QED
    BY <2>4, <2>12, Zenon DEF e
<1> HIDE DEF Done
<1>3. undone = {}
  <2> SUFFICES ASSUME undone # {}
               PROVE  FALSE
    OBVIOUS
  <2>1. undone \subseteq Nat
    OBVIOUS
  <2>2. PICK j \in undone : \A y \in undone : j <= y
    BY <2>1, Smallest
  <2>3. j \in 1..m /\ j - 1 \in 0..m /\ ~(j <= j - 1)
    BY <1>1, <2>2
  <2>4. Done(j - 1)
    BY <2>2, <2>3
  <2> QED
    BY <1>2, <2>2, <2>3, <2>4
<1>4. Done(m)
  BY <1>3
<1>5. Folds("calls", row, d, row.asks) /\ Good(Folded("calls", row, d, row.asks), m)
  <2>1. row.asks \in Seq(Nat)
    BY DEF Row
  <2>2. row.asks = [k \in 1..m |-> row.asks[k]]
    BY <2>1
  <2>3. row.asks = first(m)
    BY <2>2
  <2> HIDE DEF first, Good
  <2> QED
    BY <1>4, <2>3 DEF Done
<1> HIDE DEF Good
<1>6. Remembering(d, row.asks, row) = Folded("calls", row, d, row.asks)
  BY <1>5, RememberingIs
<1> QED
  BY <1>5, <1>6, Zenon DEF Good, AllOf

\* What the first row of a response opens.
NewOpen(d, row) ==
  [turn |-> [what |-> "turn", uuid |-> row.uuid, req |-> row.req, ts |-> row.ts,
             first |-> FirstResponse(d, row), gen |-> Absent],
   offset |-> Start(row.uuid), last |-> row.ts]

LEMMA TurnOpened ==
  ASSUME NEW d, Shaped(d), NEW row \in Row, row.uuid \in Nat \ {0}, row.req # None
  PROVE  LET e == OpenTurn(d, row) IN
         /\ row.void => e = d
         /\ ~row.void /\ row.req \notin d.seen =>
              /\ Shaped(e) /\ Changed(d, e, {"seen", "prompt", "open"})
              /\ e.seen \subseteq d.seen \cup {row.req}
              /\ e.prompt = IF ClaimsPrompt(d, row) THEN <<>> ELSE d.prompt
              /\ NewOpen(d, row) \in Opened /\ e.open = <<NewOpen(d, row)>>
<1> DEFINE seen == IF Cardinality(d.seen) >= MaxSeenRequests THEN {} ELSE d.seen
           prompt == IF ClaimsPrompt(d, row) THEN <<>> ELSE d.prompt
           open == <<NewOpen(d, row)>>
           opened == [d EXCEPT !.seen = seen \cup {row.req}, !.prompt = prompt, !.open = open]
<1>1. row.void => OpenTurn(d, row) = d
  BY Zenon DEF OpenTurn
<1>2. seen \subseteq d.seen
  OBVIOUS
<1>3. ~row.void /\ row.req \notin d.seen => OpenTurn(d, row) = opened
  <2>1. row.req \notin d.seen => row.req \notin seen
    BY <1>2
  <2> SUFFICES ASSUME ~row.void, row.req \notin seen
               PROVE  OpenTurn(d, row) = opened
    BY <2>1, Zenon
  <2>2. ~(row.req = None \/ row.void)
    BY Zenon
  <2> QED
    BY <2>2 DEF OpenTurn, NewOpen
<1>4. NewOpen(d, row) \in Opened
  <2>1. FirstResponse(d, row) \in Int
    BY DEF FirstResponse, Plausible, Absent
  <2>2. Start(row.uuid) \in Nat
    BY DEF Start
  <2>3. Absent \in Int /\ row.uuid \in Nat /\ row.req \in Nat /\ row.ts \in Int
    BY DEF Absent, Row
  <2> QED
    BY <2>1, <2>2, <2>3 DEF NewOpen, Opened, TurnRecord
<1>5. d = [f \in Fields |-> d[f]]
  BY Zenon DEF Shaped
<1>6. /\ opened = [f \in Fields |-> opened[f]]
      /\ Changed(d, opened, {"seen", "prompt", "open"})
      /\ opened.seen = seen \cup {row.req} /\ opened.prompt = prompt /\ opened.open = open
      /\ opened.out = d.out
  <2> HIDE DEF seen, prompt, open
  <2> QED
    BY <1>5 DEF Changed, Fields
<1> HIDE DEF opened
<1>7. Shaped(opened)
  BY <1>4, <1>6, Zenon DEF Shaped
<1>8. opened.seen \subseteq d.seen \cup {row.req}
  BY <1>2, <1>6
<1> QED
  BY <1>1, <1>3, <1>4, <1>6, <1>7, <1>8, Zenon

\* Another row of the open response only moves its end.
LEMMA Continued ==
  ASSUME NEW d, Shaped(d), NEW o \in Opened, d.open = <<o>>, NEW ts \in Int
  PROVE  LET e == [d EXCEPT !.open[1].last = ts] IN
         /\ Shaped(e) /\ Changed(d, e, {"open"})
         /\ [o EXCEPT !.last = ts] \in Opened /\ e.open = <<[o EXCEPT !.last = ts]>>
<1> DEFINE u == [o EXCEPT !.last = ts]
           e == [d EXCEPT !.open[1].last = ts]
<1>1. u \in Opened
  BY DEF Opened
<1>2. d = [f \in Fields |-> d[f]]
  BY Zenon DEF Shaped
<1>3. [<<o>> EXCEPT ![1].last = ts] = <<u>>
  <2>1. DOMAIN <<o>> = {1} /\ <<o>>[1] = o
    OBVIOUS
  <2>2. [<<o>> EXCEPT ![1].last = ts] = [<<o>> EXCEPT ![1] = [o EXCEPT !.last = ts]]
    BY <2>1
  <2> HIDE DEF u
  <2>3. [<<o>> EXCEPT ![1] = u] = <<u>>
    OBVIOUS
  <2> QED
    BY <2>2, <2>3 DEF u
<1>4. e = [d EXCEPT !.open = [d.open EXCEPT ![1].last = ts]]
  BY <1>2
<1>5. e = [d EXCEPT !.open = <<u>>]
  BY <1>3, <1>4, Zenon
<1> DEFINE w == [d EXCEPT !.open = <<u>>]
<1> HIDE DEF u
<1>6. /\ w = [f \in Fields |-> w[f]] /\ Changed(d, w, {"open"}) /\ w.open = <<u>>
      /\ w.out = d.out
  BY <1>2 DEF Changed, Fields
<1> HIDE DEF w, e
<1>7. Shaped(w)
  BY <1>1, <1>6, Zenon DEF Shaped
<1> QED
  BY <1>1, <1>5, <1>6, <1>7, Zenon DEF u, e, w

\* What a row of a response leaves behind.
LEMMA AssistantIs ==
  ASSUME NEW d, NEW row
  PROVE  LET asked == Remembering(d, row.asks, row) IN
         Assistant(d, row) =
           IF asked.open # <<>> /\ row.req # None /\ asked.open[1].turn.req = row.req
             THEN [asked EXCEPT !.open[1].last = row.ts]
             ELSE OpenTurn(CloseTurn(asked, TRUE), row)
  BY Zenon DEF Assistant, Remembering

\* What an answered call emits, if the time it took is plausible.
Took(p, row) == [what |-> "tool", uuid |-> row.uuid, ts |-> p.ts, tool |-> p.id,
                 took |-> row.ts - p.ts]
Timing(p, row) == {r \in {Took(p, row)} : Plausible(row.ts - p.ts)}

LEMMA AnswerIs ==
  ASSUME NEW d, Shaped(d), NEW row \in Row, NEW p, p.id \in Nat, p.ts \in Int
  PROVE  LET e == Answer(d, p, row) IN
         /\ Shaped(e) /\ Changed(d, e, {"out"})
         /\ Range(e.out) = Range(d.out) \cup Timing(p, row)
<1>1. CASE Plausible(row.ts - p.ts)
  <2>1. Answer(d, p, row) = Emit(d, Took(p, row))
    BY <1>1, Zenon DEF Answer, Took
  <2>2. Took(p, row) \in Record
    BY DEF Took, Record, ToolRecord, Row
  <2>3. Timing(p, row) = {Took(p, row)}
    BY <1>1 DEF Timing
  <2> HIDE DEF Took
  <2>4. /\ Shaped(Emit(d, Took(p, row))) /\ Changed(d, Emit(d, Took(p, row)), {"out"})
        /\ Range(Emit(d, Took(p, row)).out) = Range(d.out) \cup {Took(p, row)}
    BY <2>2, Emitted
  <2> QED
    BY <2>1, <2>3, <2>4, Zenon
<1>2. CASE ~Plausible(row.ts - p.ts)
  <2>1. Answer(d, p, row) = d
    BY <1>2, Zenon DEF Answer
  <2>2. Timing(p, row) = {}
    BY <1>2 DEF Timing
  <2>3. Changed(d, d, {"out"}) /\ Range(d.out) = Range(d.out) \cup {}
    BY DEF Changed
  <2> QED
    BY <2>1, <2>2, <2>3, Zenon
<1> QED
  BY <1>1, <1>2

\* The two ways a result finds its call.
Found(cited, near, tools, byRow, row) ==
  cited = {q \in tools : q.id = row.cites} /\ near = {q \in byRow : q.row = row.source}

Cited(d, e, p, row) ==
  /\ Shaped(e) /\ Changed(d, e, {"tools", "out"}) /\ e.tools = d.tools \ {p}
  /\ Range(e.out) = Range(d.out) \cup Timing(p, row)
Guessed(d, e, p, row) ==
  /\ Shaped(e) /\ Changed(d, e, {"byRow", "out"}) /\ e.byRow = d.byRow \ {p}
  /\ Range(e.out) = Range(d.out) \cup Timing(p, row)

LEMMA ResultIs ==
  ASSUME NEW d, Shaped(d), NEW row \in Row,
         NEW cited, NEW near, Found(cited, near, d.tools, d.byRow, row),
         NEW p, p.id \in Nat, p.ts \in Int
  PROVE  LET e == ToolResult(d, row) IN
         /\ cited = {} /\ near = {} => e = d
         /\ cited = {p} => Cited(d, e, p, row)
         /\ cited = {} /\ near = {p} => Guessed(d, e, p, row)
<1>0. cited = {q \in d.tools : q.id = row.cites} /\ near = {q \in d.byRow : q.row = row.source}
  BY Zenon DEF Found
<1>1. d = [f \in Fields |-> d[f]]
  BY Zenon DEF Shaped
<1>2. cited = {} /\ near = {} => ToolResult(d, row) = d
  BY <1>0 DEF ToolResult
<1>3. ASSUME cited = {p}
      PROVE  LET e == ToolResult(d, row) IN
              /\ Shaped(e) /\ Changed(d, e, {"tools", "out"}) /\ e.tools = d.tools \ {p}
              /\ Range(e.out) = Range(d.out) \cup Timing(p, row)
  <2> DEFINE b == [d EXCEPT !.tools = d.tools \ {p}]
             e == Answer(b, p, row)
  <2>1. (CHOOSE q \in {p} : TRUE) = p
    OBVIOUS
  <2>2. ToolResult(d, row) = e
    <3>1. {q \in d.tools : q.id = row.cites} = {p} /\ {p} # {}
      BY <1>0, <1>3
    <3>2. ToolResult(d, row) =
            Answer([d EXCEPT !.tools = @ \ {q \in d.tools : q.id = row.cites}],
                   CHOOSE q \in {q \in d.tools : q.id = row.cites} : TRUE, row)
      BY <3>1 DEF ToolResult
    <3>3. [d EXCEPT !.tools = @ \ {p}] = b
      BY <1>1 DEF Fields
    <3> HIDE DEF b
    <3> QED
      BY <2>1, <3>1, <3>2, <3>3, Zenon
  <2>3. /\ b = [f \in Fields |-> b[f]] /\ Changed(d, b, {"tools"})
        /\ b.tools = d.tools \ {p} /\ b.out = d.out /\ b.open = d.open
    BY <1>1 DEF Changed, Fields
  <2> HIDE DEF b
  <2>4. Shaped(b)
    BY <2>3, Zenon DEF Shaped
  <2>5. /\ Shaped(e) /\ Changed(b, e, {"out"})
        /\ Range(e.out) = Range(b.out) \cup Timing(p, row)
    BY <2>4, AnswerIs
  <2> HIDE DEF e
  <2>6. Changed(d, e, {"tools", "out"}) /\ e.tools = d.tools \ {p}
    BY <2>3, <2>5 DEF Changed, Fields
  <2> QED
    BY <2>2, <2>3, <2>5, <2>6, Zenon
<1>4. ASSUME cited = {}, near = {p}
      PROVE  LET e == ToolResult(d, row) IN
              /\ Shaped(e) /\ Changed(d, e, {"byRow", "out"}) /\ e.byRow = d.byRow \ {p}
              /\ Range(e.out) = Range(d.out) \cup Timing(p, row)
  <2> DEFINE b == [d EXCEPT !.byRow = d.byRow \ {p}]
             e == Answer(b, p, row)
  <2>1. (CHOOSE q \in {p} : TRUE) = p
    OBVIOUS
  <2>2. ToolResult(d, row) = e
    <3>1. /\ {q \in d.byRow : q.row = row.source} = {p} /\ {p} # {}
          /\ {q \in d.tools : q.id = row.cites} = {}
      BY <1>0, <1>4
    <3>2. ToolResult(d, row) =
            Answer([d EXCEPT !.byRow = @ \ {q \in d.byRow : q.row = row.source}],
                   CHOOSE q \in {q \in d.byRow : q.row = row.source} : TRUE, row)
      BY <3>1 DEF ToolResult
    <3>3. [d EXCEPT !.byRow = @ \ {p}] = b
      BY <1>1 DEF Fields
    <3> HIDE DEF b
    <3> QED
      BY <2>1, <3>1, <3>2, <3>3, Zenon
  <2>3. /\ b = [f \in Fields |-> b[f]] /\ Changed(d, b, {"byRow"})
        /\ b.byRow = d.byRow \ {p} /\ b.out = d.out /\ b.open = d.open
    BY <1>1 DEF Changed, Fields
  <2> HIDE DEF b
  <2>4. Shaped(b)
    BY <2>3, Zenon DEF Shaped
  <2>5. /\ Shaped(e) /\ Changed(b, e, {"out"})
        /\ Range(e.out) = Range(b.out) \cup Timing(p, row)
    BY <2>4, AnswerIs
  <2> HIDE DEF e
  <2>6. Changed(d, e, {"byRow", "out"}) /\ e.byRow = d.byRow \ {p}
    BY <2>3, <2>5 DEF Changed, Fields
  <2> QED
    BY <2>2, <2>3, <2>5, <2>6, Zenon
<1> QED
  BY <1>2, <1>3, <1>4, Zenon DEF Cited, Guessed

-----------------------------------------------------------------------------
(* What a pass that began at row k remembers of the rows since: its calls  *)

Call(h, t) == [id |-> t, row |-> AskedBy(h, t), ts |-> h[AskedBy(h, t)].ts,
               offset |-> Start(AskedBy(h, t))]
AskedFrom(h, k) == {t \in ToolsIn(h) : AskedBy(h, t) >= k}
Waits(h, t) == \A i \in 1..Len(h) : ~ Answers(h, i, t)

\* Both indexes hold calls asked for since row k; every one that still waits is there,
\* and where its row asked for no other, in the index by row as well.
KeptCalls(tools, byRow, h, k) ==
  /\ \A p \in tools \cup byRow : p.id \in AskedFrom(h, k) /\ p = Call(h, p.id)
  /\ \A p, q \in byRow : p.row = q.row => p = q
  /\ \A t \in AskedFrom(h, k) : Waits(h, t) =>
       /\ Call(h, t) \in tools
       /\ Len(h[AskedBy(h, t)].asks) = 1 => Call(h, t) \in byRow

\* Neither has outgrown the calls of the file.
KeptRoom(order, byRow, h) ==
  \E c \in Nat : /\ ToolsIn(h) = 1..c
                 /\ order \in Seq(Nat) /\ Len(order) <= c
                 /\ IsFiniteSet(byRow) /\ Cardinality(byRow) <= c

LEMMA GrownCall ==
  ASSUME NEW h, NEW row, NEW g, NEW n, Grows(h, row, g, n), NEW k \in Nat, k <= n
  PROVE  /\ \A t \in ToolsIn(h) : Call(g, t) = Call(h, t) /\ g[AskedBy(g, t)] = h[AskedBy(h, t)]
         /\ AskedFrom(g, k) = AskedFrom(h, k) \cup Range(row.asks)
         /\ AskedFrom(h, k) \subseteq ToolsIn(h)
         /\ \A t \in Range(row.asks) : Call(g, t) = Asked(row, t)
         /\ \A t \in ToolsIn(h) : Waits(g, t) => Waits(h, t)
<1>1. \A t \in ToolsIn(h) : AskedBy(g, t) = AskedBy(h, t) /\ AskedBy(h, t) \in 1..Len(h)
  BY GrownAsker
<1>2. \A t \in Range(row.asks) : AskedBy(g, t) = n
  BY GrownAsker
<1>3. /\ \A i \in 1..Len(h) : g[i] = h[i]
      /\ g[n] = row /\ row.uuid = n /\ n \in Nat
      /\ Len(g) = n /\ 1..n = (1..Len(h)) \cup {n}
  BY Grown
<1>4. \A t \in ToolsIn(h) : g[AskedBy(g, t)] = h[AskedBy(h, t)]
  BY <1>1, <1>3
<1>5. \A t \in ToolsIn(h) : Call(g, t) = Call(h, t)
  BY <1>1, <1>4, Zenon DEF Call
<1>6. AskedFrom(g, k) = AskedFrom(h, k) \cup Range(row.asks)
  <2>1. ToolsIn(g) = ToolsIn(h) \cup Range(row.asks)
    BY GrownSets
  <2>2. n >= k
    BY <1>3
  <2> QED
    BY <1>1, <1>2, <2>1, <2>2 DEF AskedFrom
<1>7. \A t \in Range(row.asks) : Call(g, t) = Asked(row, t)
  BY <1>2, <1>3, Zenon DEF Call, Asked
<1>8. \A i \in 1..Len(h), t \in ToolsIn(h) : Answers(g, i, t) <=> Answers(h, i, t)
  BY GrownAnswers
<1>9. \A t \in ToolsIn(h) : Waits(g, t) => Waits(h, t)
  BY <1>3, <1>8 DEF Waits
<1> QED
  BY <1>4, <1>5, <1>6, <1>7, <1>9, Zenon DEF AskedFrom

\* Rows that neither ask nor answer leave the calls as they are.
LEMMA CallsStay ==
  ASSUME NEW h, NEW row, NEW g, NEW n, Grows(h, row, g, n), NEW k \in Nat, k <= n,
         row.kind # "assistant", NEW tools, NEW byRow, KeptCalls(tools, byRow, h, k)
  PROVE  KeptCalls(tools, byRow, g, k)
<1>1. Range(row.asks) = {}
  <2>1. Orderly(h) /\ NewRow(h, row)
    BY DEF Grows
  <2> QED
    BY <2>1, NewAsks
<1>2. /\ \A t \in ToolsIn(h) : Call(g, t) = Call(h, t) /\ g[AskedBy(g, t)] = h[AskedBy(h, t)]
      /\ AskedFrom(g, k) = AskedFrom(h, k) \cup Range(row.asks)
      /\ AskedFrom(h, k) \subseteq ToolsIn(h)
      /\ \A t \in ToolsIn(h) : Waits(g, t) => Waits(h, t)
  BY GrownCall
<1> QED
  BY <1>1, <1>2 DEF KeptCalls

\* The calls of a new row.
LEMMA CallsAsked ==
  ASSUME NEW h, NEW row, NEW g, NEW n, Grows(h, row, g, n), NEW k \in Nat, k <= n,
         row.kind = "assistant", NEW tools, NEW byRow, KeptCalls(tools, byRow, h, k),
         NEW c \in Nat, NEW m \in Nat, ToolsIn(h) = 1..c, Len(row.asks) = m,
         Range(row.asks) = (c + 1)..(c + m),
         NEW more, more = tools \cup {Asked(row, t) : t \in (c + 1)..(c + m)},
         NEW near, near = IF m = 0 THEN byRow ELSE byRow \cup {Asked(row, c + m)}
  PROVE  KeptCalls(more, near, g, k)
<1>1. /\ \A t \in ToolsIn(h) : Call(g, t) = Call(h, t) /\ g[AskedBy(g, t)] = h[AskedBy(h, t)]
      /\ AskedFrom(g, k) = AskedFrom(h, k) \cup Range(row.asks)
      /\ AskedFrom(h, k) \subseteq ToolsIn(h)
      /\ \A t \in Range(row.asks) : Call(g, t) = Asked(row, t)
      /\ \A t \in ToolsIn(h) : Waits(g, t) => Waits(h, t)
  BY GrownCall
<1>2. /\ \A t \in ToolsIn(h) : AskedBy(h, t) \in 1..Len(h)
      /\ \A t \in Range(row.asks) : AskedBy(g, t) = n
  BY GrownAsker
<1>3. g[n] = row /\ row.uuid = n /\ n \notin 1..Len(h)
  BY Grown
<1>4. \A p \in more \cup near : p.id \in AskedFrom(g, k) /\ p = Call(g, p.id)
  <2>1. \A p \in tools \cup byRow : p.id \in AskedFrom(g, k) /\ p = Call(g, p.id)
    BY <1>1 DEF KeptCalls
  <2>2. \A t \in Range(row.asks) : Asked(row, t).id = t
    BY DEF Asked
  <2>3. \A t \in Range(row.asks) : t \in AskedFrom(g, k) /\ Asked(row, t) = Call(g, t)
    BY <1>1
  <2>4. m # 0 => c + m \in Range(row.asks)
    OBVIOUS
  <2>5. \A p \in more \cup near : p \in tools \cup byRow \/ \E t \in Range(row.asks) : p = Asked(row, t)
    BY <2>4
  <2>6. \A t \in Range(row.asks) :
          Asked(row, t).id \in AskedFrom(g, k) /\ Asked(row, t) = Call(g, Asked(row, t).id)
    BY <2>2, <2>3
  <2> QED
    BY <2>1, <2>5, <2>6
<1>5. \A p, q \in near : p.row = q.row => p = q
  <2>1. \A p, q \in byRow : p.row = q.row => p = q
    BY DEF KeptCalls
  <2>2. \A p \in byRow : p.row # n
    <3>1. \A p \in byRow : p.id \in ToolsIn(h) /\ p = Call(h, p.id)
      BY <1>1 DEF KeptCalls
    <3>2. \A t : Call(h, t).row = AskedBy(h, t)
      BY DEF Call
    <3> QED
      BY <1>2, <1>3, <3>1, <3>2
  <2>3. \A t : Asked(row, t).row = n
    BY <1>3 DEF Asked
  <2> QED
    BY <2>1, <2>2, <2>3
<1>6. ASSUME NEW t \in AskedFrom(g, k), Waits(g, t)
      PROVE  /\ Call(g, t) \in more
             /\ Len(g[AskedBy(g, t)].asks) = 1 => Call(g, t) \in near
  <2>1. CASE t \in AskedFrom(h, k)
    <3>1. t \in ToolsIn(h) /\ Waits(h, t)
      BY <1>1, <1>6, <2>1
    <3>2. /\ Call(h, t) \in tools
          /\ Len(h[AskedBy(h, t)].asks) = 1 => Call(h, t) \in byRow
      BY <2>1, <3>1 DEF KeptCalls
    <3> QED
      BY <1>1, <3>1, <3>2
  <2>2. CASE t \in Range(row.asks)
    <3>1. Call(g, t) = Asked(row, t) /\ g[AskedBy(g, t)] = row
      BY <1>1, <1>2, <1>3, <2>2
    <3>2. Len(row.asks) = 1 => t = c + m /\ m # 0
      BY <2>2
    <3> QED
      BY <2>2, <3>1, <3>2
  <2> QED
    BY <1>1, <2>1, <2>2
<1> QED
  BY <1>4, <1>5, <1>6 DEF KeptCalls

\* The call a result answers is found, by its id or by its row, if its row was read.
LEMMA ResultFinds ==
  ASSUME NEW h, NEW row, NEW g, NEW n, Grows(h, row, g, n), NEW k \in Nat, k <= n,
         row.kind = "result", NEW tools, NEW byRow, KeptCalls(tools, byRow, h, k),
         NEW answered \in Unanswered(h), row.source = AskedBy(h, answered),
         \/ row.cites = answered
         \/ row.cites = None /\ Len(h[row.source].asks) = 1,
         NEW cited, NEW near, Found(cited, near, tools, byRow, row)
  PROVE  /\ answered \in AskedFrom(h, k) =>
              \/ cited = {Call(h, answered)}
              \/ cited = {} /\ near = {Call(h, answered)}
         /\ answered \notin AskedFrom(h, k) => cited = {} /\ near = {}
<1>0. cited = {q \in tools : q.id = row.cites} /\ near = {q \in byRow : q.row = row.source}
  BY Zenon DEF Found
<1>1. answered \in ToolsIn(h) /\ Waits(h, answered)
  <2>1. Orderly(h)
    BY DEF Grows
  <2>2. DOMAIN h = 1..Len(h)
    BY <2>1, Lines
  <2> QED
    BY <2>2 DEF Unanswered, Waits
<1>2. \A t \in ToolsIn(h) : t # None /\ AskedBy(h, t) \in Nat
  <2>1. Orderly(h)
    BY DEF Grows
  <2>2. \E c \in Nat : ToolsIn(h) = 1..c
    BY <2>1, Numbered
  <2>3. \A t \in ToolsIn(h) : AskedBy(h, t) \in 1..Len(h)
    BY GrownAsker
  <2> QED
    BY <2>2, <2>3 DEF None
<1>3. \A p \in tools \cup byRow : p.id \in AskedFrom(h, k) /\ p = Call(h, p.id)
  BY DEF KeptCalls
<1>4. \A t : Call(h, t).id = t /\ Call(h, t).row = AskedBy(h, t)
  BY DEF Call
<1>5. AskedFrom(h, k) \subseteq ToolsIn(h)
  BY DEF AskedFrom
<1>6. CASE answered \in AskedFrom(h, k)
  <2>1. /\ Call(h, answered) \in tools
        /\ Len(h[AskedBy(h, answered)].asks) = 1 => Call(h, answered) \in byRow
    BY <1>1, <1>6 DEF KeptCalls
  <2>2. CASE row.cites = answered
    <3>1. cited = {Call(h, answered)}
      BY <1>0, <1>3, <1>4, <2>1, <2>2
    <3> QED
      BY <1>6, <3>1
  <2>3. CASE row.cites = None /\ Len(h[row.source].asks) = 1
    <3>1. cited = {}
      BY <1>0, <1>2, <1>3, <1>5, <2>3
    <3>2. Call(h, answered) \in byRow /\ Call(h, answered).row = row.source
      BY <1>4, <2>1, <2>3
    <3>3. near = {Call(h, answered)}
      BY <1>0, <3>2 DEF KeptCalls
    <3> QED
      BY <1>6, <3>1, <3>3
  <2> QED
    BY <2>2, <2>3
<1>7. CASE answered \notin AskedFrom(h, k)
  <2>1. cited = {}
    BY <1>0, <1>2, <1>3, <1>5, <1>7
  <2>2. AskedBy(h, answered) < k
    BY <1>1, <1>2, <1>7 DEF AskedFrom
  <2>3. \A p \in byRow : p.row >= k
    BY <1>3, <1>4 DEF AskedFrom
  <2>4. near = {}
    BY <1>0, <1>1, <1>2, <2>2, <2>3
  <2> QED
    BY <1>7, <2>1, <2>4
<1> QED
  BY <1>6, <1>7

\* An answered call may leave both indexes.
LEMMA CallsAnswered ==
  ASSUME NEW h, NEW row, NEW g, NEW n, Grows(h, row, g, n), NEW k \in Nat, k <= n,
         row.kind = "result", NEW tools, NEW byRow, KeptCalls(tools, byRow, h, k),
         NEW answered \in ToolsIn(h), Answers(g, n, answered),
         NEW left, left \subseteq tools, tools \ left \subseteq {Call(h, answered)},
         NEW near, near \subseteq byRow, byRow \ near \subseteq {Call(h, answered)}
  PROVE  KeptCalls(left, near, g, k)
<1>1. KeptCalls(tools, byRow, g, k)
  BY CallsStay
<1>2. Len(g) = n /\ n \in 1..n
  BY Grown
<1>3. ~ Waits(g, answered)
  BY <1>2 DEF Waits
<1>4. Call(g, answered) = Call(h, answered)
  BY GrownCall
<1>5. \A t : Call(g, t).id = t
  BY DEF Call
<1>6. \A t : Waits(g, t) => Call(g, t) # Call(h, answered)
  BY <1>3, <1>4, <1>5
<1> QED
  BY <1>1, <1>6 DEF KeptCalls


-----------------------------------------------------------------------------
(* ... its prompt ...                                                      *)

\* Nothing that measures has come since prompt p, and what has come hangs on it.
Lingers(h, p) == h[p].kind = "prompt" /\ \A i \in (p + 1)..Len(h) : h[i].kind = "other"
Links(h, p) == {i \in (p + 1)..Len(h) : h[i].parent # None}

PromptAt(P, p, h) ==
  /\ P = [ts |-> h[p].ts, chain |-> P.chain, offset |-> Start(p)]
  /\ h[p].kind = "prompt"
  /\ P.chain \subseteq p..Len(h)
  /\ Tip(h) \in P.chain =>
       /\ Lingers(h, p)
       /\ P.chain = {p} \cup Links(h, p)
       /\ Cardinality(P.chain) <= MaxPromptChain

KeptPrompt(prompt, h, k) ==
  /\ prompt = <<>> \/ \E p \in k..Len(h) : \E P : prompt = <<P>> /\ PromptAt(P, p, h)
  /\ \A p \in k..Len(h) : Lingers(h, p) /\ Cardinality(Links(h, p)) < MaxPromptChain =>
       \E P : prompt = <<P>> /\ Tip(h) \in P.chain

LEMMA LinksCount ==
  ASSUME NEW h, Len(h) \in Nat, NEW p \in 1..Len(h)
  PROVE  /\ IsFiniteSet(Links(h, p)) /\ Cardinality(Links(h, p)) \in Nat
         /\ Cardinality({p} \cup Links(h, p)) = Cardinality(Links(h, p)) + 1
<1>1. IsFiniteSet(1..Len(h))
  BY FS_Interval
<1>2. Links(h, p) \in SUBSET (1..Len(h)) /\ p \notin Links(h, p)
  BY DEF Links
<1>3. IsFiniteSet(Links(h, p))
  BY <1>1, <1>2, FS_Subset
<1>4. Cardinality(Links(h, p)) \in Nat
  BY <1>3, FS_CardinalityType
<1>5. Cardinality(Links(h, p) \cup {p}) = Cardinality(Links(h, p)) + 1
  BY <1>2, <1>3, FS_AddElement
<1>6. Links(h, p) \cup {p} = {p} \cup Links(h, p)
  OBVIOUS
<1> QED
  BY <1>3, <1>4, <1>5, <1>6, Zenon

\* One prompt lingers at most, and it is the last.
LEMMA OneLingers ==
  ASSUME NEW h, Len(h) \in Nat, NEW p \in 1..Len(h), NEW q \in 1..Len(h),
         Lingers(h, p), h[q].kind = "prompt"
  PROVE  q <= p /\ (Lingers(h, q) => q = p)
BY DEF Lingers

\* What a new row makes of them.
LEMMA GrownLinks ==
  ASSUME NEW h, NEW row, NEW g, NEW n, Grows(h, row, g, n), NEW p \in 1..Len(h)
  PROVE  /\ Lingers(g, p) <=> Lingers(h, p) /\ row.kind = "other"
         /\ Links(g, p) = Links(h, p) \cup {i \in {n} : row.parent # None}
         /\ n \notin Links(h, p) /\ g[p] = h[p]
<1>1. /\ Len(h) \in Nat /\ n = Len(h) + 1 /\ Len(g) = n /\ g[n] = row
      /\ \A i \in 1..Len(h) : g[i] = h[i]
  BY Grown
<1>2. (p + 1)..Len(g) = ((p + 1)..Len(h)) \cup {n} /\ (p + 1)..Len(h) \subseteq 1..Len(h)
      /\ n \notin (p + 1)..Len(h)
  BY <1>1
<1> QED
  BY <1>1, <1>2 DEF Lingers, Links

\* Where the file ends now: the new row, unless it hangs on nothing.
LEMMA GrownTip ==
  ASSUME NEW h, NEW row, NEW g, NEW n, Grows(h, row, g, n)
  PROVE  /\ Tip(h) \in 0..Len(h)
         /\ \/ Tip(g) = n /\ row.parent = Tip(h) /\ (row.kind # "other" \/ row.parent # None)
            \/ Tip(g) = Tip(h) /\ row.kind = "other" /\ row.parent = None
<1>1. Orderly(h) /\ NewRow(h, row)
  BY DEF Grows
<1>2. Tip(h) \in 0..Len(h)
  BY <1>1, TipIs
<1>3. Tip(g) = IF row.kind # "other" \/ row.parent # None THEN n ELSE Tip(h)
  BY GrownEnd
<1>4. row.parent = Tip(h) \/ (row.kind = "other" /\ row.parent = None)
  BY <1>1, Zenon DEF NewRow, Remarking, Asking, Answering
<1> QED
  BY <1>2, <1>3, <1>4

LEMMA PromptBegun ==
  ASSUME NEW h, NEW row, NEW g, NEW n, Grows(h, row, g, n), NEW k \in Nat \ {0}, k <= n,
         row.kind = "prompt"
  PROVE  KeptPrompt(<<[ts |-> row.ts, chain |-> {row.uuid}, offset |-> Start(row.uuid)]>>, g, k)
<1> DEFINE P == [ts |-> row.ts, chain |-> {row.uuid}, offset |-> Start(row.uuid)]
<1>1. /\ Len(h) \in Nat /\ n = Len(h) + 1 /\ Len(g) = n /\ g[n] = row /\ row.uuid = n
      /\ n \in Nat
  BY Grown
<1>2. Tip(g) = n
  BY GrownTip
<1>3. (n + 1)..Len(g) = {} /\ n \in k..Len(g)
  BY <1>1
<1>4. Lingers(g, n) /\ Links(g, n) = {}
  BY <1>1, <1>3 DEF Lingers, Links
<1>5. Cardinality({n}) = 1 /\ MaxPromptChain >= 1
  BY FS_Singleton, DeriverAssumption
<1>6. PromptAt(P, n, g)
  BY <1>1, <1>3, <1>4, <1>5 DEF PromptAt
<1>7. ASSUME NEW p \in k..Len(g), Lingers(g, p)
      PROVE  Tip(g) \in P.chain
  BY <1>1, <1>2
<1> QED
  BY <1>3, <1>6, <1>7 DEF KeptPrompt

\* A row that measures is nobody's prompt, and the prompt before it stays unless it is answered.
LEMMA PromptOver ==
  ASSUME NEW h, NEW row, NEW g, NEW n, Grows(h, row, g, n), NEW k \in Nat \ {0}, k <= n,
         row.kind \in {"assistant", "result"}, NEW prompt, KeptPrompt(prompt, h, k)
  PROVE  KeptPrompt(prompt, g, k) /\ KeptPrompt(<<>>, g, k)
<1>1. /\ Len(h) \in Nat /\ n = Len(h) + 1 /\ Len(g) = n /\ g[n] = row /\ row.uuid = n
      /\ n \in Nat
  BY Grown
<1>2. Tip(g) = n
  BY GrownTip
<1>3. ASSUME NEW p \in k..Len(h), NEW P, PromptAt(P, p, h)
      PROVE  PromptAt(P, p, g)
  <2>1. p \in 1..Len(h)
    BY <1>1
  <2>2. g[p] = h[p]
    BY <2>1, GrownLinks
  <2>3. P.chain \subseteq p..Len(g) /\ Tip(g) \notin P.chain
    BY <1>1, <1>2, <1>3 DEF PromptAt
  <2> QED
    BY <1>3, <2>2, <2>3 DEF PromptAt
<1>4. \A p \in k..Len(g) : ~ Lingers(g, p)
  <2>1. ~ Lingers(g, n)
    BY <1>1 DEF Lingers
  <2>2. \A p \in 1..Len(h) : ~ Lingers(g, p)
    BY GrownLinks
  <2> QED
    BY <1>1, <2>1, <2>2
<1>5. k..Len(h) \subseteq k..Len(g)
  BY <1>1
<1>6. prompt = <<>> \/ \E p \in k..Len(h) : \E P : prompt = <<P>> /\ PromptAt(P, p, h)
  BY DEF KeptPrompt
<1>7. prompt = <<>> \/ \E p \in k..Len(g) : \E P : prompt = <<P>> /\ PromptAt(P, p, g)
  BY <1>3, <1>5, <1>6
<1> QED
  BY <1>4, <1>7 DEF KeptPrompt


\* What a row of no interest does to the prompt.
LEMMA Extended ==
  ASSUME NEW d, Shaped(d), NEW row,
         d.prompt = <<>> \/ \E P, ts, offset :
           d.prompt = <<P>> /\ P = [ts |-> ts, chain |-> P.chain, offset |-> offset]
  PROVE  LET e == ExtendPromptChain(d, row) IN
         /\ Shaped(e) /\ Changed(d, e, {"prompt"})
         /\ d.prompt = <<>> => e.prompt = <<>>
         /\ \A P : d.prompt = <<P>> =>
              e.prompt = IF row.parent \in P.chain /\ Cardinality(P.chain) < MaxPromptChain
                           THEN <<[ts |-> P.ts, chain |-> P.chain \cup {row.uuid},
                                   offset |-> P.offset]>>
                           ELSE <<P>>
<1> DEFINE e == ExtendPromptChain(d, row)
<1>1. d = [f \in Fields |-> d[f]]
  BY Zenon DEF Shaped
<1>2. CASE d.prompt = <<>>
  <2>1. e = d
    BY <1>2 DEF ExtendPromptChain
  <2>2. \A P : <<P>> # <<>>
    OBVIOUS
  <2>3. Changed(d, d, {"prompt"})
    BY DEF Changed
  <2> QED
    BY <1>2, <2>1, <2>2, <2>3, Zenon
<1>3. ASSUME NEW P, NEW ts, NEW offset, d.prompt = <<P>>,
             P = [ts |-> ts, chain |-> P.chain, offset |-> offset]
      PROVE  /\ Shaped(e) /\ Changed(d, e, {"prompt"})
             /\ e.prompt = IF row.parent \in P.chain /\ Cardinality(P.chain) < MaxPromptChain
                           THEN <<[ts |-> P.ts, chain |-> P.chain \cup {row.uuid},
                                   offset |-> P.offset]>>
                           ELSE <<P>>
  <2>1. d.prompt # <<>> /\ d.prompt[1] = P
    BY <1>3
  <2>2. CASE row.parent \in P.chain /\ Cardinality(P.chain) < MaxPromptChain
    <3>1. e = [d EXCEPT !.prompt[1].chain = @ \cup {row.uuid}]
      BY <2>1, <2>2 DEF ExtendPromptChain
    <3>2. [d.prompt EXCEPT ![1].chain = @ \cup {row.uuid}] =
            <<[ts |-> P.ts, chain |-> P.chain \cup {row.uuid}, offset |-> P.offset]>>
      BY <1>3
    <3>3. e = [d EXCEPT !.prompt = [d.prompt EXCEPT ![1].chain = @ \cup {row.uuid}]]
      BY <1>1, <3>1 DEF Fields
    <3>4. /\ e.prompt = [d.prompt EXCEPT ![1].chain = @ \cup {row.uuid}]
          /\ e = [f \in Fields |-> e[f]] /\ Changed(d, e, {"prompt"})
          /\ e.out = d.out /\ e.open = d.open
      BY <1>1, <3>3 DEF Fields, Changed
    <3> HIDE DEF e
    <3>5. Shaped(e)
      BY <3>4, Zenon DEF Shaped
    <3> QED
      BY <2>2, <3>2, <3>4, <3>5
  <2>3. CASE ~ (row.parent \in P.chain /\ Cardinality(P.chain) < MaxPromptChain)
    <3>1. e = d
      BY <2>1, <2>3 DEF ExtendPromptChain
    <3>2. Changed(d, d, {"prompt"})
      BY DEF Changed
    <3> QED
      BY <1>3, <2>3, <3>1, <3>2
  <2> QED
    BY <2>2, <2>3
<1> HIDE DEF e
<1>4. \A P, Q : <<P>> = <<Q>> => P = Q
  OBVIOUS
<1>5. \A P : <<P>> # <<>>
  OBVIOUS
<1>6. CASE d.prompt # <<>>
  <2>1. PICK P, ts, offset : d.prompt = <<P>> /\ P = [ts |-> ts, chain |-> P.chain, offset |-> offset]
    BY <1>6
  <2>2. /\ Shaped(e) /\ Changed(d, e, {"prompt"})
        /\ e.prompt = IF row.parent \in P.chain /\ Cardinality(P.chain) < MaxPromptChain
                           THEN <<[ts |-> P.ts, chain |-> P.chain \cup {row.uuid},
                                   offset |-> P.offset]>>
                           ELSE <<P>>
    BY <1>3, <2>1
  <2>3. \A Q : d.prompt = <<Q>> => Q = P
    BY <1>4, <2>1
  <2> QED
    BY <1>6, <2>2, <2>3, Zenon DEF e
<1> QED
  BY <1>2, <1>6, Zenon DEF e

LEMMA PromptExtended ==
  ASSUME NEW h, NEW row, NEW g, NEW n, Grows(h, row, g, n), NEW k \in Nat \ {0}, k <= n,
         row.kind = "other", NEW prompt, KeptPrompt(prompt, h, k), NEW longer,
         prompt = <<>> => longer = <<>>,
         \A P : prompt = <<P>> =>
           longer = IF row.parent \in P.chain /\ Cardinality(P.chain) < MaxPromptChain
                      THEN <<[ts |-> P.ts, chain |-> P.chain \cup {row.uuid}, offset |-> P.offset]>>
                      ELSE <<P>>
  PROVE  KeptPrompt(longer, g, k)
<1>1. /\ Len(h) \in Nat /\ n = Len(h) + 1 /\ Len(g) = n /\ g[n] = row /\ row.uuid = n
      /\ n \in Nat
  BY Grown
<1>2. /\ Tip(h) \in 0..Len(h)
      /\ \/ Tip(g) = n /\ row.parent = Tip(h) /\ row.parent # None
         \/ Tip(g) = Tip(h) /\ row.parent = None
  BY GrownTip
<1>3. \A p \in 1..Len(h) :
        /\ Lingers(g, p) <=> Lingers(h, p)
        /\ Links(g, p) = Links(h, p) \cup {i \in {n} : row.parent # None}
        /\ n \notin Links(h, p) /\ g[p] = h[p]
  BY GrownLinks
<1>4. ~ Lingers(g, n)
  BY <1>1 DEF Lingers
<1>5. k..Len(h) \subseteq k..Len(g) /\ k..Len(h) \subseteq 1..Len(h) /\ k..Len(g) \subseteq (k..Len(h)) \cup {n}
  BY <1>1
<1>6. \A P, Q : <<P>> = <<Q>> => P = Q
  OBVIOUS
<1>7. ASSUME NEW p \in k..Len(h), NEW P, prompt = <<P>>, PromptAt(P, p, h)
      PROVE  \E Q : /\ longer = <<Q>> /\ PromptAt(Q, p, g)
                    /\ Lingers(h, p) /\ Tip(h) \in P.chain
                         /\ Cardinality(Links(g, p)) < MaxPromptChain => Tip(g) \in Q.chain
  <2> DEFINE Q == IF row.parent \in P.chain /\ Cardinality(P.chain) < MaxPromptChain
                    THEN [ts |-> P.ts, chain |-> P.chain \cup {row.uuid}, offset |-> P.offset] ELSE P
  <2>1. longer = <<Q>>
    BY <1>7
  <2>2. P.chain \subseteq p..Len(h) /\ p \in 1..Len(h) /\ n \notin P.chain /\ None \notin P.chain
    BY <1>1, <1>5, <1>7 DEF PromptAt, None
  <2>3. P = [ts |-> h[p].ts, chain |-> P.chain, offset |-> Start(p)]
    BY <1>7 DEF PromptAt
  <2>4. Q = [ts |-> g[p].ts, chain |-> Q.chain, offset |-> Start(p)]
    <3>1. h[p] = g[p]
      BY <1>3, <2>2
    <3>2. P.ts = h[p].ts /\ P.offset = Start(p)
      BY <2>3
    <3>3. Q = P \/ Q = [ts |-> P.ts, chain |-> P.chain \cup {row.uuid}, offset |-> P.offset]
      OBVIOUS
    <3> HIDE DEF Q
    <3> QED
      BY <2>3, <3>1, <3>2, <3>3
  <2>5. Q.chain = IF row.parent \in P.chain /\ Cardinality(P.chain) < MaxPromptChain
                    THEN P.chain \cup {n} ELSE P.chain
    BY <1>1
  <2> HIDE DEF Q
  <2>6. Q.chain \subseteq p..Len(g)
    BY <1>1, <2>2, <2>5
  <2>7. /\ IsFiniteSet(Links(h, p)) /\ Cardinality(Links(h, p)) \in Nat
        /\ Cardinality({p} \cup Links(h, p)) = Cardinality(Links(h, p)) + 1
    BY <1>1, <2>2, LinksCount
  <2>8. /\ Cardinality(Links(g, p)) \in Nat
        /\ Cardinality({p} \cup Links(g, p)) = Cardinality(Links(g, p)) + 1
    <3>1. p \in 1..Len(g) /\ Len(g) \in Nat
      BY <1>1, <2>2
    <3> QED
      BY <3>1, LinksCount
  <2>9. Tip(h) \in P.chain => /\ Lingers(h, p) /\ P.chain = {p} \cup Links(h, p)
                              /\ Cardinality(P.chain) <= MaxPromptChain
    BY <1>7 DEF PromptAt
  <2>10. MaxPromptChain \in Nat
    BY DeriverAssumption
  <2>11. CASE row.parent = None
    <3>1. Q.chain = P.chain /\ Tip(g) = Tip(h)
      BY <1>2, <2>2, <2>5, <2>11
    <3>2. Links(g, p) = Links(h, p) /\ (Lingers(g, p) <=> Lingers(h, p))
      BY <1>3, <2>2, <2>11
    <3>3. PromptAt(Q, p, g)
      <4>1. g[p].kind = "prompt"
        BY <1>3, <1>7, <2>2 DEF PromptAt
      <4> QED
        BY <2>4, <2>6, <2>9, <3>1, <3>2, <4>1, Zenon DEF PromptAt
    <3> QED
      BY <2>1, <3>1, <3>3
  <2>12. CASE row.parent # None
    <3>1. Tip(g) = n /\ row.parent = Tip(h)
      BY <1>2, <2>12
    <3>2. Links(g, p) = Links(h, p) \cup {n} /\ (Lingers(g, p) <=> Lingers(h, p))
      BY <1>3, <2>2, <2>12
    <3>3. Cardinality(Links(g, p)) = Cardinality(Links(h, p)) + 1
      <4>1. n \notin Links(h, p)
        BY <1>3, <2>2
      <4> QED
        BY <2>7, <3>2, <4>1, FS_AddElement
    <3>4. Tip(g) \in Q.chain => Tip(h) \in P.chain /\ Cardinality(P.chain) < MaxPromptChain
                                /\ Q.chain = P.chain \cup {n}
      BY <2>2, <2>5, <3>1
    <3>5. Tip(h) \in P.chain /\ Cardinality(P.chain) < MaxPromptChain =>
            Q.chain = {p} \cup Links(g, p) /\ Cardinality(Q.chain) <= MaxPromptChain
      <4>1. Tip(h) \in P.chain /\ Cardinality(P.chain) < MaxPromptChain =>
              Q.chain = {p} \cup Links(g, p) /\ Cardinality(P.chain) = Cardinality(Links(h, p)) + 1
        BY <2>5, <2>7, <2>9, <3>1, <3>2
      <4>2. Cardinality(Q.chain) = Cardinality({p} \cup Links(g, p)) \/
              ~ (Tip(h) \in P.chain /\ Cardinality(P.chain) < MaxPromptChain)
        BY <4>1
      <4>3. Cardinality({p} \cup Links(g, p)) = Cardinality(P.chain) + 1 \/
              ~ (Tip(h) \in P.chain /\ Cardinality(P.chain) < MaxPromptChain)
        BY <2>8, <3>3, <4>1
      <4>4. Cardinality(P.chain) \in Nat \/
              ~ (Tip(h) \in P.chain /\ Cardinality(P.chain) < MaxPromptChain)
        BY <2>7, <4>1
      <4> QED
        BY ONLY <2>10, <4>1, <4>2, <4>3, <4>4
    <3>6. PromptAt(Q, p, g)
      <4>1. g[p].kind = "prompt"
        BY <1>3, <1>7, <2>2 DEF PromptAt
      <4> QED
        BY <2>4, <2>6, <2>9, <3>2, <3>4, <3>5, <4>1, Zenon DEF PromptAt
    <3>7. Tip(h) \in P.chain /\ Cardinality(Links(g, p)) < MaxPromptChain => Tip(g) \in Q.chain
      <4>1. Tip(h) \in P.chain /\ Cardinality(Links(g, p)) < MaxPromptChain =>
              Cardinality(P.chain) < MaxPromptChain
        BY <2>7, <2>9, <2>10, <3>3
      <4> QED
        BY <2>5, <3>1, <4>1
    <3> QED
      BY <2>1, <3>6, <3>7
  <2> QED
    BY <2>11, <2>12
<1>8. longer = <<>> \/ \E p \in k..Len(g) : \E P : longer = <<P>> /\ PromptAt(P, p, g)
  <2>1. prompt = <<>> \/ \E p \in k..Len(h) : \E P : prompt = <<P>> /\ PromptAt(P, p, h)
    BY DEF KeptPrompt
  <2> QED
    BY <1>5, <1>7, <2>1
<1>9. ASSUME NEW p \in k..Len(g), Lingers(g, p), Cardinality(Links(g, p)) < MaxPromptChain
      PROVE  \E P : longer = <<P>> /\ Tip(g) \in P.chain
  <2>1. p \in k..Len(h) /\ p \in 1..Len(h) /\ Lingers(h, p)
    BY <1>3, <1>4, <1>5, <1>9
  <2>2. Cardinality(Links(h, p)) < MaxPromptChain
    <3>1. Links(g, p) = Links(h, p) \cup {i \in {n} : row.parent # None} /\ n \notin Links(h, p)
      BY <1>3, <2>1
    <3>2. IsFiniteSet(Links(h, p)) /\ Cardinality(Links(h, p)) \in Nat
      BY <1>1, <2>1, LinksCount
    <3>3. Cardinality(Links(h, p) \cup {n}) = Cardinality(Links(h, p)) + 1
      BY <3>1, <3>2, FS_AddElement
    <3>4. Links(g, p) = Links(h, p) \/ Links(g, p) = Links(h, p) \cup {n}
      BY <3>1
    <3>5. MaxPromptChain \in Nat
      BY DeriverAssumption
    <3>6. \/ Cardinality(Links(g, p)) = Cardinality(Links(h, p))
          \/ Cardinality(Links(g, p)) = Cardinality(Links(h, p)) + 1
      BY <3>3, <3>4, Zenon
    <3>7. Cardinality(Links(h, p)) \in Nat
      BY <3>2
    <3> QED
      BY ONLY <1>9, <3>2, <3>5, <3>6, <3>7
  <2>3. PICK P : prompt = <<P>> /\ Tip(h) \in P.chain
    BY <2>1, <2>2 DEF KeptPrompt
  <2>4. PICK q \in k..Len(h) : PromptAt(P, q, h)
    <3>1. prompt # <<>>
      BY <2>3
    <3> QED
      BY <1>6, <2>3, <3>1 DEF KeptPrompt
  <2>5. q = p
    <3>1. Lingers(h, q) /\ h[q].kind = "prompt" /\ q \in 1..Len(h)
      BY <1>5, <2>3, <2>4 DEF PromptAt
    <3>2. h[p].kind = "prompt"
      BY <2>1 DEF Lingers
    <3> QED
      BY <1>1, <2>1, <3>1, <3>2, OneLingers
  <2> QED
    BY <1>7, <1>9, <2>1, <2>3, <2>4, <2>5
<1> QED
  BY <1>8, <1>9 DEF KeptPrompt


\* The prompt a new request answers.
LEMMA NewPromptOf ==
  ASSUME NEW h, NEW row, NEW g, NEW n, Grows(h, row, g, n),
         row.kind = "assistant", row.req \notin RequestsIn(h)
  PROVE  /\ \A p \in 1..Len(h) : Lingers(h, p) /\ Cardinality(Links(h, p)) < MaxPromptChain =>
              PromptOf(g, row.req) = p
         /\ PromptOf(g, row.req) # None =>
              \E p \in 1..Len(h) : /\ PromptOf(g, row.req) = p /\ Lingers(h, p)
                                   /\ Cardinality(Links(h, p)) < MaxPromptChain
<1>1. /\ Len(h) \in Nat /\ n - 1 = Len(h) /\ n \in Nat /\ g[n] = row /\ n \notin 1..Len(h)
      /\ \A i \in 1..Len(h) : g[i] = h[i]
      /\ \A kind : Indices(g, kind) = Indices(h, kind) \cup {i \in {n} : row.kind = kind}
      /\ \A kind : Indices(h, kind) = {i \in 1..Len(h) : h[i].kind = kind}
  BY Grown
<1>2. Opening(g, row.req) = n
  BY GrownOpening
<1> DEFINE S == {i \in Indices(g, "prompt") : i < n}
           prompt == LatestOf(S)
           between == (prompt + 1) .. (n - 1)
<1>3. S = {i \in 1..Len(h) : h[i].kind = "prompt"}
  BY <1>1
<1>4. PromptOf(g, row.req) = IF /\ prompt # None
                                /\ \A i \in between : g[i].kind = "other"
                                /\ Cardinality({i \in between : g[i].parent # None}) < MaxPromptChain
                               THEN prompt ELSE None
  BY <1>2, Zenon DEF PromptOf
<1> HIDE DEF S
<1>5. /\ S = {} => prompt = None
      /\ S # {} => /\ prompt \in S /\ \A y \in S : y <= prompt
                   /\ \A m \in S : (\A y \in S : y <= m) => prompt = m
      /\ prompt \in 0..Len(h)
  <2>1. S \subseteq 1..Len(h)
    BY <1>3
  <2> QED
    BY <1>1, <2>1, LatestIs
<1> HIDE DEF prompt
<1>6. /\ \A i \in between : g[i] = h[i]
      /\ between = (prompt + 1)..Len(h)
      /\ {i \in between : g[i].parent # None} = Links(h, prompt)
  BY <1>1, <1>5 DEF Links
<1>7. prompt # None => prompt \in 1..Len(h) /\ h[prompt].kind = "prompt"
  BY <1>3, <1>5
<1> HIDE DEF between
<1>8. (\A i \in between : g[i].kind = "other") <=> \A i \in (prompt + 1)..Len(h) : h[i].kind = "other"
  BY <1>6
<1>9. /\ prompt # None /\ Lingers(h, prompt) /\ Cardinality(Links(h, prompt)) < MaxPromptChain =>
           PromptOf(g, row.req) = prompt
      /\ PromptOf(g, row.req) # None =>
           /\ PromptOf(g, row.req) = prompt /\ prompt # None /\ Lingers(h, prompt)
           /\ Cardinality(Links(h, prompt)) < MaxPromptChain
  <2>1. prompt # None => (Lingers(h, prompt) <=> \A i \in between : g[i].kind = "other")
    BY <1>7, <1>8 DEF Lingers
  <2>2. Cardinality({i \in between : g[i].parent # None}) = Cardinality(Links(h, prompt))
    BY <1>6, Zenon
  <2> DEFINE C == /\ prompt # None
                  /\ \A i \in between : g[i].kind = "other"
                  /\ Cardinality({i \in between : g[i].parent # None}) < MaxPromptChain
  <2>3. C <=> /\ prompt # None /\ Lingers(h, prompt)
              /\ Cardinality(Links(h, prompt)) < MaxPromptChain
    BY <2>1, <2>2
  <2>4. PromptOf(g, row.req) = IF C THEN prompt ELSE None
    BY <1>4, Zenon
  <2> HIDE DEF C
  <2> QED
    BY <2>3, <2>4
<1>10. ASSUME NEW p \in 1..Len(h), Lingers(h, p), Cardinality(Links(h, p)) < MaxPromptChain
       PROVE  PromptOf(g, row.req) = p
  <2>1. p \in S
    BY <1>3, <1>10 DEF Lingers
  <2>2. \A y \in S : y <= p
    BY <1>1, <1>3, <1>10, OneLingers
  <2>3. prompt = p /\ p # None
    BY <1>5, <2>1, <2>2 DEF None
  <2> QED
    BY <1>9, <1>10, <2>3
<1> QED
  BY <1>7, <1>9, <1>10

\* The wait a request records is the wait there was, and a pass over the whole file misses none.
LEMMA FirstIs ==
  ASSUME NEW h, NEW row, NEW g, NEW n, Grows(h, row, g, n), NEW k \in Nat \ {0}, k <= n,
         row.kind = "assistant", row.req \notin RequestsIn(h), NEW d, KeptPrompt(d.prompt, h, k)
  PROVE  /\ FirstResponse(d, row) \in {Absent, TrueFirst(g, row.req)}
         /\ k = 1 => FirstResponse(d, row) = TrueFirst(g, row.req)
<1>1. /\ Len(h) \in Nat /\ n - 1 = Len(h) /\ n \in Nat /\ g[n] = row
      /\ \A i \in 1..Len(h) : g[i] = h[i]
  BY Grown
<1>2. Opening(g, row.req) = n
  BY GrownOpening
<1>3. row.parent = Tip(h) /\ k..Len(h) \subseteq 1..Len(h)
  BY <1>1, GrownTip
<1>4. TrueFirst(g, row.req) =
        IF PromptOf(g, row.req) = None THEN Absent
        ELSE IF Plausible(row.ts - g[PromptOf(g, row.req)].ts)
               THEN row.ts - g[PromptOf(g, row.req)].ts ELSE Absent
  BY <1>1, <1>2 DEF TrueFirst
<1>5. CASE ClaimsPrompt(d, row)
  <2>1. PICK p \in k..Len(h) : \E P : d.prompt = <<P>> /\ PromptAt(P, p, h)
    BY <1>5 DEF KeptPrompt, ClaimsPrompt
  <2>2. PICK P : d.prompt = <<P>> /\ PromptAt(P, p, h)
    BY <2>1
  <2>3. d.prompt[1] = P /\ Tip(h) \in P.chain
    BY <1>3, <1>5, <2>2 DEF ClaimsPrompt
  <2>4. /\ P.ts = h[p].ts /\ Lingers(h, p) /\ P.chain = {p} \cup Links(h, p)
        /\ Cardinality(P.chain) <= MaxPromptChain
    BY <2>2, <2>3 DEF PromptAt
  <2>5. Cardinality(Links(h, p)) < MaxPromptChain
    <3>1. /\ Cardinality(Links(h, p)) \in Nat
          /\ Cardinality({p} \cup Links(h, p)) = Cardinality(Links(h, p)) + 1
      BY <1>1, <1>3, <2>1, LinksCount
    <3>2. Cardinality(P.chain) = Cardinality({p} \cup Links(h, p))
      BY <2>4, Zenon
    <3>3. MaxPromptChain \in Nat
      BY DeriverAssumption
    <3> QED
      BY <2>4, <3>1, <3>2, <3>3
  <2>6. PromptOf(g, row.req) = p
    BY <1>3, <2>1, <2>4, <2>5, NewPromptOf
  <2>7. p # None /\ g[p].ts = P.ts
    BY <1>1, <1>3, <2>1, <2>4 DEF None
  <2>8. FirstResponse(d, row) = IF Plausible(row.ts - P.ts) THEN row.ts - P.ts ELSE Absent
    BY <1>5, <2>3 DEF FirstResponse
  <2> QED
    BY <1>4, <2>6, <2>7, <2>8
<1>6. CASE ~ ClaimsPrompt(d, row)
  <2>1. FirstResponse(d, row) = Absent
    BY <1>6 DEF FirstResponse
  <2>2. ASSUME k = 1, PromptOf(g, row.req) # None PROVE FALSE
    <3>1. PICK p \in 1..Len(h) : Lingers(h, p) /\ Cardinality(Links(h, p)) < MaxPromptChain
      BY <2>2, NewPromptOf
    <3>2. PICK P : d.prompt = <<P>> /\ Tip(h) \in P.chain
      BY <2>2, <3>1 DEF KeptPrompt
    <3> QED
      BY <1>3, <1>6, <3>2 DEF ClaimsPrompt
  <2> QED
    BY <1>4, <2>1, <2>2
<1> QED
  BY <1>5, <1>6


-----------------------------------------------------------------------------
(* ... its open response ...                                               *)

\* What a turn says of the row that opens it.
BeginsRight(t, h, k) ==
  /\ t.uuid = Opening(h, t.req) /\ t.ts = h[Opening(h, t.req)].ts
  /\ t.first \in {Absent, TrueFirst(h, t.req)}
  /\ k = 1 => t.first = TrueFirst(h, t.req)

OpenAt(o, h, k) ==
  /\ o.turn.req = Arriving(h) /\ Arriving(h) \in Measurable(h)
  /\ o.turn.uuid \in RowsOf(h, Arriving(h)) /\ o.turn.uuid >= k
  /\ o.offset = Start(o.turn.uuid)
  /\ o.last = h[Max(RowsOf(h, Arriving(h)))].ts
  /\ Opening(h, Arriving(h)) >= k => BeginsRight(o.turn, h, k)

KeptOpen(open, h, k) ==
  /\ open = <<>> \/ \E o \in Opened : open = <<o>> /\ OpenAt(o, h, k)
  /\ open = <<>> /\ Arriving(h) \in Measurable(h) => \A i \in RowsOf(h, Arriving(h)) : i < k

KeptSeen(seen, h, k) == \A r \in seen : \E i \in RowsOf(h, r) : i >= k

\* A turn that was closed.
TurnKept(t, h, k) ==
  /\ t \in TurnRecord /\ t.req \in Measurable(h) /\ t.uuid \in RowsOf(h, t.req)
  /\ Opening(h, t.req) >= k =>
       BeginsRight(t, h, k) /\ Proven(h, t.req) /\ t.gen = TrueGen(h, t.req)

LEMMA Real ==
  ASSUME NEW h, Orderly(h)
  PROVE  /\ Measurable(h) \subseteq RequestsIn(h) /\ None \notin RequestsIn(h)
         /\ RequestsIn(h) \subseteq Nat
<1>1. \E q \in 0..Len(h) : RequestsIn(h) = 1..q
  BY Numbered
<1> QED
  BY <1>1 DEF Measurable, None

LEMMA StaysBegun ==
  ASSUME NEW h, NEW row, NEW g, NEW n, Grows(h, row, g, n), NEW k,
         NEW t, t.req \in RequestsIn(h), BeginsRight(t, h, k)
  PROVE  BeginsRight(t, g, k)
<1>1. TrueFirst(g, t.req) = TrueFirst(h, t.req)
  BY StaysFirst
<1>2. Opening(g, t.req) = Opening(h, t.req) /\ Opening(h, t.req) \in 1..Len(h)
  BY GrownOpening
<1>3. g[Opening(h, t.req)] = h[Opening(h, t.req)]
  BY <1>2, Grown
<1> QED
  BY <1>1, <1>2, <1>3, Zenon DEF BeginsRight

LEMMA StaysKept ==
  ASSUME NEW h, NEW row, NEW g, NEW n, Grows(h, row, g, n), NEW k,
         NEW t, TurnKept(t, h, k)
  PROVE  TurnKept(t, g, k)
<1>1. Orderly(h)
  BY DEF Grows
<1>2. t.req \in RequestsIn(h) /\ t.req \in Measurable(g)
  BY <1>1, Real, GrownRequests DEF TurnKept
<1>3. t.uuid \in RowsOf(g, t.req)
  BY GrownRequests DEF TurnKept
<1>4. Opening(g, t.req) = Opening(h, t.req)
  BY <1>2, GrownOpening
<1>5. ASSUME Opening(h, t.req) >= k
      PROVE  BeginsRight(t, g, k) /\ Proven(g, t.req) /\ t.gen = TrueGen(g, t.req)
  <2>1. BeginsRight(t, h, k) /\ Proven(h, t.req) /\ t.gen = TrueGen(h, t.req)
    BY <1>5 DEF TurnKept
  <2>2. Proven(g, t.req) /\ Span(g, t.req) = Span(h, t.req)
    BY <1>2, <2>1, StaysProven
  <2>3. TrueGen(g, t.req) = TrueGen(h, t.req)
    BY <2>2, Zenon DEF TrueGen
  <2>4. BeginsRight(t, g, k)
    BY <1>2, <2>1, StaysBegun
  <2> QED
    BY <2>1, <2>2, <2>3, <2>4
<1> QED
  BY <1>2, <1>3, <1>4, <1>5 DEF TurnKept

\* A response that something follows is recorded with its whole span.
LEMMA ClosedTurn ==
  ASSUME NEW h, NEW row, NEW g, NEW n, Grows(h, row, g, n), NEW k \in Nat,
         row.kind # "other", row.kind = "assistant" => row.req # Arriving(h),
         NEW o \in Opened, OpenAt(o, h, k)
  PROVE  TurnKept([o.turn EXCEPT !.gen = Spanned(o)], g, k)
<1> DEFINE r == Arriving(h)
           t == [o.turn EXCEPT !.gen = Spanned(o)]
<1>1. Orderly(h)
  BY DEF Grows
<1>2. r \in Measurable(h) /\ r \in RequestsIn(h) /\ r # None
  BY <1>1, Real DEF OpenAt
<1>3. RowsOf(g, r) = RowsOf(h, r) /\ r \in Measurable(g)
  <2>1. RowsOf(g, r) = RowsOf(h, r) \cup {i \in {n} : row.kind = "assistant" /\ row.req = r}
    BY GrownRequests
  <2>2. r \in Measurable(g)
    BY <1>2, GrownRequests
  <2> QED
    BY <2>1, <2>2
<1>4. Proven(g, r)
  <2>1. Arriving(g) = IF row.kind = "assistant" THEN row.req ELSE None
    BY GrownEnd
  <2> QED
    BY <1>2, <2>1 DEF Proven
<1>5. /\ Opening(g, r) = Opening(h, r) /\ Opening(h, r) \in 1..Len(h)
      /\ Max(RowsOf(h, r)) \in 1..Len(h)
  <2>1. Max(RowsOf(h, r)) \in RowsOf(h, r) /\ RowsOf(h, r) \subseteq 1..Len(h)
    BY <1>1, <1>2, RowsOfIs
  <2> QED
    BY <1>2, <2>1, GrownOpening
<1>6. g[Opening(h, r)] = h[Opening(h, r)] /\ g[Max(RowsOf(h, r))] = h[Max(RowsOf(h, r))]
  BY <1>5, Grown
<1>7. /\ t.req = r /\ t.uuid = o.turn.uuid /\ t.ts = o.turn.ts /\ t.first = o.turn.first
      /\ t.gen = Spanned(o) /\ t \in TurnRecord
  <2>1. o.turn.req = r
    BY DEF OpenAt
  <2>2. o.turn \in TurnRecord /\ o.last \in Int
    BY DEF Opened
  <2>3. o.turn.ts \in Int
    BY <2>2 DEF TurnRecord
  <2>4. Spanned(o) \in Int
    BY <2>2, <2>3 DEF Spanned, Absent
  <2> QED
    BY <2>1, <2>2, <2>4 DEF TurnRecord
<1> HIDE DEF t
<1>8. t.uuid \in RowsOf(g, r)
  BY <1>3, <1>7 DEF OpenAt
<1>9. ASSUME Opening(g, r) >= k
      PROVE  BeginsRight(t, g, k) /\ t.gen = TrueGen(g, r)
  <2>1. BeginsRight(o.turn, h, k)
    BY <1>5, <1>9 DEF OpenAt
  <2>2. BeginsRight(o.turn, g, k)
    <3>1. o.turn.req \in RequestsIn(h)
      BY <1>2 DEF OpenAt
    <3> QED
      BY <2>1, <3>1, StaysBegun
  <2>3. BeginsRight(t, g, k)
    <3>1. o.turn.req = r
      BY DEF OpenAt
    <3> QED
      BY <1>7, <2>2, <3>1, Zenon DEF BeginsRight
  <2>4. Span(g, r) = o.last - o.turn.ts
    <3>1. o.turn.ts = h[Opening(h, r)].ts
      BY <2>1 DEF BeginsRight, OpenAt
    <3>2. o.last = h[Max(RowsOf(h, r))].ts
      BY DEF OpenAt
    <3>3. Span(g, r) = g[Max(RowsOf(g, r))].ts - g[Opening(g, r)].ts
      BY Zenon DEF Span
    <3> QED
      BY <1>3, <1>5, <1>6, <3>1, <3>2, <3>3, Zenon
  <2>5. t.gen = TrueGen(g, r)
    BY <1>7, <2>4, Zenon DEF TrueGen, Spanned
  <2> QED
    BY <2>3, <2>5
<1> QED
  BY <1>3, <1>4, <1>7, <1>8, <1>9, Zenon DEF TurnKept, t


\* A row of no interest leaves the response where it is.
LEMMA OpenStays ==
  ASSUME NEW h, NEW row, NEW g, NEW n, Grows(h, row, g, n), NEW k \in Nat,
         row.kind = "other", NEW open, KeptOpen(open, h, k)
  PROVE  KeptOpen(open, g, k)
<1> DEFINE r == Arriving(h)
<1>1. Orderly(h)
  BY DEF Grows
<1>2. Arriving(g) = r
  BY GrownEnd
<1>3. Measurable(g) = Measurable(h)
  BY GrownRequests
<1>4. RowsOf(g, r) = RowsOf(h, r)
  <2>1. \A x : RowsOf(g, x) = RowsOf(h, x) \cup {i \in {n} : row.kind = "assistant" /\ row.req = x}
    BY GrownRequests
  <2>2. {i \in {n} : row.kind = "assistant" /\ row.req = r} = {}
    OBVIOUS
  <2> HIDE DEF r
  <2> QED
    BY <2>1, <2>2
<1>5. ASSUME NEW o, OpenAt(o, h, k)
      PROVE  OpenAt(o, g, k)
  <2>1. r \in RequestsIn(h)
    BY <1>1, <1>5, Real DEF OpenAt
  <2>2. Opening(g, r) = Opening(h, r)
    BY <2>1, GrownOpening
  <2>3. Max(RowsOf(h, r)) \in 1..Len(h)
    BY <1>1, <2>1, RowsOfIs
  <2>4. g[Max(RowsOf(h, r))] = h[Max(RowsOf(h, r))]
    BY <2>3, Grown
  <2>5. BeginsRight(o.turn, h, k) => BeginsRight(o.turn, g, k)
    <3>1. o.turn.req \in RequestsIn(h)
      BY <1>5, <2>1 DEF OpenAt
    <3> QED
      BY <3>1, StaysBegun
  <2> QED
    BY <1>2, <1>3, <1>4, <1>5, <2>2, <2>4, <2>5, Zenon DEF OpenAt
<1> QED
  BY <1>2, <1>3, <1>4, <1>5, Zenon DEF KeptOpen

\* Nothing is open once a prompt or a result has ended it, or an error that is no response.
LEMMA OpenNone ==
  ASSUME NEW h, NEW row, NEW g, NEW n, Grows(h, row, g, n), NEW k,
         row.kind \in {"prompt", "result"} \/ (row.kind = "assistant" /\ row.void)
  PROVE  KeptOpen(<<>>, g, k)
<1>1. Orderly(g)
  BY StaysOrderly
<1>2. Arriving(g) = IF row.kind = "assistant" THEN row.req
                    ELSE IF row.kind = "other" THEN Arriving(h) ELSE None
  BY GrownEnd
<1>3. CASE row.kind \in {"prompt", "result"}
  <2>1. Arriving(g) = None
    BY <1>2, <1>3
  <2>2. Arriving(g) \notin Measurable(g)
    BY <1>1, <2>1, Real
  <2> QED
    BY <2>2 DEF KeptOpen
<1>4. CASE row.kind = "assistant" /\ row.void
  <2>1. Arriving(g) = row.req
    BY <1>2, <1>4
  <2>2. row.req \notin Measurable(g)
    BY <1>4, GrownRequests
  <2> QED
    BY <2>1, <2>2 DEF KeptOpen
<1> QED
  BY <1>3, <1>4

\* Another row of the response moves its end.
LEMMA OpenContinued ==
  ASSUME NEW h, NEW row, NEW g, NEW n, Grows(h, row, g, n), NEW k \in Nat,
         row.kind = "assistant", NEW o \in Opened, OpenAt(o, h, k), row.req = Arriving(h)
  PROVE  /\ [o EXCEPT !.last = row.ts].turn = o.turn
         /\ [o EXCEPT !.last = row.ts] \in Opened
         /\ OpenAt([o EXCEPT !.last = row.ts], g, k)
<1> DEFINE r == Arriving(h)
           u == [o EXCEPT !.last = row.ts]
<1>1. Orderly(h)
  BY DEF Grows
<1>2. r \in Measurable(h) /\ r \in RequestsIn(h)
  BY <1>1, Real DEF OpenAt
<1>3. Arriving(g) = r
  BY GrownEnd
<1>4. r \in Measurable(g)
  BY <1>2, GrownRequests
<1>5. /\ RowsOf(h, r) \subseteq RowsOf(g, r) /\ Max(RowsOf(g, r)) = n /\ Opening(g, r) = Opening(h, r)
  BY <1>2, GrownRequests, GrownOpening
<1>6. g[n] = row /\ row \in Row
  BY Grown
<1>7. /\ u.turn = o.turn /\ u.offset = o.offset /\ u.last = row.ts /\ u \in Opened
  BY <1>6 DEF Opened, Row
<1>8. BeginsRight(o.turn, h, k) => BeginsRight(o.turn, g, k)
  <2>1. o.turn.req \in RequestsIn(h)
    BY <1>2 DEF OpenAt
  <2> QED
    BY <2>1, StaysBegun
<1> HIDE DEF u
<1>9. OpenAt(u, g, k)
  BY <1>3, <1>4, <1>5, <1>6, <1>7, <1>8 DEF OpenAt
<1> QED
  BY <1>7, <1>9, Zenon DEF u

\* The first row a pass sees of a response opens it.
LEMMA OpenNew ==
  ASSUME NEW h, NEW row, NEW g, NEW n, Grows(h, row, g, n), NEW k \in Nat \ {0}, k <= n,
         row.kind = "assistant", ~row.void,
         NEW d, KeptPrompt(d.prompt, h, k), NEW late, \A i \in RowsOf(h, row.req) : i < k,
         late = NewOpen(d, row)
  PROVE  OpenAt(late, g, k)
<1>1. Orderly(h) /\ NewRow(h, row)
  BY DEF Grows
<1>2. Arriving(g) = row.req
  BY GrownEnd
<1>3. row.req \in Measurable(g)
  BY GrownRequests
<1>4. /\ RowsOf(g, row.req) = RowsOf(h, row.req) \cup {n} /\ Max(RowsOf(g, row.req)) = n
  BY GrownRequests, GrownOpening
<1>5. g[n] = row /\ row.uuid = n /\ n \in Nat
  BY Grown
<1>6. /\ late.turn = [what |-> "turn", uuid |-> row.uuid, req |-> row.req, ts |-> row.ts,
                      first |-> FirstResponse(d, row), gen |-> Absent]
      /\ late.offset = Start(row.uuid) /\ late.last = row.ts
  BY DEF NewOpen
<1> HIDE DEF NewOpen
<1>7. /\ late.turn.uuid = n /\ late.turn.req = row.req /\ late.turn.ts = row.ts
      /\ late.turn.first = FirstResponse(d, row)
  BY <1>5, <1>6
<1>8. ASSUME Opening(g, row.req) >= k
      PROVE  BeginsRight(late.turn, g, k)
  <2>1. row.req \notin RequestsIn(h)
    <3>1. SUFFICES ASSUME row.req \in RequestsIn(h) PROVE FALSE
      OBVIOUS
    <3>2. Opening(g, row.req) = Opening(h, row.req)
      BY <3>1, GrownOpening
    <3>3. Opening(h, row.req) \in RowsOf(h, row.req) /\ Opening(h, row.req) \in 1..Len(h)
      BY <1>1, <3>1, RowsOfIs
    <3>4. Len(h) \in Nat
      BY <1>1, Lines
    <3> QED
      BY <1>8, <3>2, <3>3, <3>4
  <2>2. Opening(g, row.req) = n
    BY <2>1, GrownOpening
  <2>3. /\ FirstResponse(d, row) \in {Absent, TrueFirst(g, row.req)}
        /\ k = 1 => FirstResponse(d, row) = TrueFirst(g, row.req)
    BY <2>1, FirstIs
  <2> QED
    BY <1>5, <1>7, <2>2, <2>3, Zenon DEF BeginsRight
<1> QED
  BY <1>2, <1>3, <1>4, <1>5, <1>6, <1>7, <1>8 DEF OpenAt

\* What a pass has seen, it has seen; a new row is seen too.
LEMMA SeenStays ==
  ASSUME NEW h, NEW row, NEW g, NEW n, Grows(h, row, g, n), NEW k \in Nat, k <= n,
         NEW seen, KeptSeen(seen, h, k), NEW more, 
         more \subseteq seen \cup {r \in {row.req} : row.kind = "assistant"}
  PROVE  KeptSeen(more, g, k)
<1>1. \A r : RowsOf(g, r) = RowsOf(h, r) \cup
                               {i \in {n} : row.kind = "assistant" /\ row.req = r}
  BY GrownRequests
<1>2. n \in Nat
  BY Grown
<1> QED
  BY <1>1, <1>2 DEF KeptSeen


-----------------------------------------------------------------------------
(* ... and what it has measured                                            *)

KeptOut(records, open, h, k) ==
  /\ \A t \in records : t.what = "turn" => TurnKept(t, h, k)
  /\ \A t \in records : t.what = "tool" => t \in TimedCalls(h)
  /\ \A r \in Measurable(h) : Opening(h, r) >= k =>
       \/ \E t \in records : t.what = "turn" /\ t.req = r
       \/ \E o : open = <<o>> /\ o.turn.req = r
  /\ \A c \in TimedCalls(h) : AskedBy(h, c.tool) >= k => c \in records

LEMMA OutGrows ==
  ASSUME NEW h, NEW row, NEW g, NEW n, Grows(h, row, g, n), NEW k \in Nat, k <= n,
         NEW records, NEW open, KeptOut(records, open, h, k),
         NEW more, records \subseteq more, NEW next,
         \A t \in more \ records : /\ t.what = "turn" => TurnKept(t, g, k)
                                   /\ t.what = "tool" => t \in TimedCalls(g),
         \A o : open = <<o>> => \/ \E u : next = <<u>> /\ u.turn.req = o.turn.req
                                \/ \E t \in more : t.what = "turn" /\ t.req = o.turn.req,
         \A r \in Measurable(g) \ Measurable(h) : \E u : next = <<u>> /\ u.turn.req = r,
         \A c \in TimedCalls(g) \ TimedCalls(h) : AskedBy(g, c.tool) >= k => c \in more
  PROVE  KeptOut(more, next, g, k)
<1>1. Orderly(h)
  BY DEF Grows
<1>2. \A t \in more : t.what = "turn" => TurnKept(t, g, k)
  <2>1. \A t \in records : t.what = "turn" => TurnKept(t, g, k)
    BY StaysKept DEF KeptOut
  <2> QED
    BY <2>1
<1>3. \A t \in more : t.what = "tool" => t \in TimedCalls(g)
  <2>1. TimedCalls(h) \subseteq TimedCalls(g)
    BY GrownTimed
  <2>2. \A t \in records : t.what = "tool" => t \in TimedCalls(g)
    BY <2>1 DEF KeptOut
  <2> QED
    BY <2>2
<1>4. ASSUME NEW r \in Measurable(g), Opening(g, r) >= k
      PROVE  \/ \E t \in more : t.what = "turn" /\ t.req = r
             \/ \E u : next = <<u>> /\ u.turn.req = r
  <2>1. CASE r \in Measurable(h)
    <3>1. r \in RequestsIn(h)
      BY <1>1, <2>1, Real
    <3>2. Opening(h, r) >= k
      BY <1>4, <3>1, GrownOpening
    <3>3. \/ \E t \in records : t.what = "turn" /\ t.req = r
          \/ \E o : open = <<o>> /\ o.turn.req = r
      BY <2>1, <3>2 DEF KeptOut
    <3> QED
      BY <3>3
  <2>2. CASE r \notin Measurable(h)
    BY <1>4, <2>2
  <2> QED
    BY <2>1, <2>2
<1>5. ASSUME NEW c \in TimedCalls(g), AskedBy(g, c.tool) >= k
      PROVE  c \in more
  <2>1. CASE c \in TimedCalls(h)
    <3>1. c.tool \in ToolsIn(h)
      BY <1>1, <2>1, TimedFields
    <3>2. AskedBy(h, c.tool) >= k
      BY <1>5, <3>1, GrownAsker
    <3> QED
      BY <2>1, <3>2 DEF KeptOut
  <2>2. CASE c \notin TimedCalls(h)
    BY <1>5, <2>2
  <2> QED
    BY <2>1, <2>2
<1> QED
  BY <1>2, <1>3, <1>4, <1>5 DEF KeptOut

\* The answer a result brings is timed, and is the only call it adds.
LEMMA AnswerTimed ==
  ASSUME NEW h, NEW row, NEW g, NEW n, Grows(h, row, g, n), NEW k,
         row.kind = "result", NEW answered \in ToolsIn(h), Answers(g, n, answered),
         \A t \in ToolsIn(g) : Answers(g, n, t) <=> t = answered
  PROVE  /\ Timing(Call(h, answered), row) \subseteq TimedCalls(g)
         /\ \A c \in TimedCalls(g) \ TimedCalls(h) : c.tool = answered
                                                     /\ c \in Timing(Call(h, answered), row)
<1>1. Orderly(g)
  BY StaysOrderly
<1>2. /\ Call(g, answered) = Call(h, answered) /\ g[AskedBy(g, answered)] = h[AskedBy(h, answered)]
      /\ AskedBy(g, answered) = AskedBy(h, answered)
  <2>1. n \in Nat /\ n <= n
    BY Grown
  <2> QED
    BY <2>1, GrownCall, GrownAsker
<1>3. g[n] = row /\ row.uuid = n /\ n \in 1..Len(g)
  BY Grown
<1>4. answered \in ToolsIn(g)
  BY GrownSets
<1>5. Took(Call(h, answered), row) = Timed(g, n, answered)
  <2>1. TrueTook(g, n, answered) = row.ts - h[AskedBy(h, answered)].ts
    BY <1>2, <1>3, Zenon DEF TrueTook
  <2>2. Call(h, answered).id = answered /\ Call(h, answered).ts = h[AskedBy(h, answered)].ts
    BY DEF Call
  <2> QED
    BY <1>2, <1>3, <2>1, <2>2, Zenon DEF Took, Timed
<1>6. row.ts - Call(h, answered).ts = TrueTook(g, n, answered)
  <2>1. Call(h, answered).ts = h[AskedBy(h, answered)].ts
    BY DEF Call
  <2> QED
    BY <1>2, <1>3, <2>1, Zenon DEF TrueTook
<1>7. Timing(Call(h, answered), row) =
        {r \in {Timed(g, n, answered)} : Plausible(TrueTook(g, n, answered))}
  BY <1>5, <1>6, Zenon DEF Timing
<1>8. ASSUME Plausible(TrueTook(g, n, answered))
      PROVE  Timed(g, n, answered) \in TimedCalls(g)
  BY <1>1, <1>3, <1>4, <1>8, TimedIs
<1>9. ASSUME NEW c \in TimedCalls(g), c \notin TimedCalls(h)
      PROVE  c.tool = answered /\ c = Timed(g, n, answered) /\ Plausible(TrueTook(g, n, answered))
  <2>1. c.uuid = n
    BY <1>9, GrownTimed
  <2>2. c.tool \in ToolsIn(g) /\ Answers(g, c.uuid, c.tool) /\ c = Timed(g, c.uuid, c.tool)
    BY <1>1, TimedFields
  <2>3. c.tool = answered /\ c = Timed(g, n, answered)
    BY <2>1, <2>2
  <2>4. PICK i \in 1..Len(g), t \in ToolsIn(g) :
          Answers(g, i, t) /\ Plausible(TrueTook(g, i, t)) /\ c = Timed(g, i, t)
    BY <1>1, TimedIs
  <2>5. c.uuid = i /\ c.tool = t
    BY <2>4 DEF Timed
  <2> QED
    BY <2>1, <2>3, <2>4, <2>5
<1> QED
  BY <1>7, <1>8, <1>9


\* Records that may be added.
Gained(records, more, g, k) ==
  /\ records \subseteq more
  /\ \A t \in more \ records : /\ t.what = "turn" => TurnKept(t, g, k)
                               /\ t.what = "tool" => t \in TimedCalls(g)

LEMMA GainedTwice ==
  ASSUME NEW g, NEW k, NEW R, NEW S, NEW T, Gained(R, S, g, k), Gained(S, T, g, k)
  PROVE  Gained(R, T, g, k)
BY DEF Gained

LEMMA VersionsGained ==
  ASSUME NEW g, NEW k, NEW R, NEW noted \in SUBSET VersionRecord
  PROVE  Gained(R, R \cup noted, g, k)
<1>1. \A t \in noted : t.what = "version"
  BY DEF VersionRecord
<1> QED
  BY <1>1 DEF Gained

\* A row that ends the response before it has it recorded.
LEMMA Closing ==
  ASSUME NEW h, NEW row, NEW g, NEW n, Grows(h, row, g, n), NEW k \in Nat,
         row.kind # "other", row.kind = "assistant" => row.req # Arriving(h),
         NEW d, Shaped(d), KeptOpen(d.open, h, k)
  PROVE  LET e == CloseTurn(d, TRUE) IN
         /\ Shaped(e) /\ Changed(d, e, {"out", "open"}) /\ e.open = <<>>
         /\ Gained(Range(d.out), Range(e.out), g, k)
         /\ \A o : d.open = <<o>> =>
              \E t \in Range(e.out) : t.what = "turn" /\ t.req = o.turn.req
<1> DEFINE e == CloseTurn(d, TRUE)
<1>1. /\ Shaped(e) /\ Changed(d, e, {"out", "open"}) /\ e.open = <<>>
      /\ d.open = <<>> => Range(e.out) = Range(d.out)
      /\ \A o \in Opened : d.open = <<o>> =>
           Range(e.out) = Range(d.out) \cup {[o.turn EXCEPT !.gen = Spanned(o)]}
  BY Closed, Zenon
<1> HIDE DEF e
<1>2. \A P, Q : (<<P>> = <<Q>> => P = Q) /\ <<P>> # <<>>
  OBVIOUS
<1>3. CASE d.open = <<>>
  <2>1. Gained(Range(d.out), Range(e.out), g, k)
    BY <1>1, <1>3 DEF Gained
  <2> QED
    BY <1>1, <1>2, <1>3, <2>1, Zenon DEF e
<1>4. CASE d.open # <<>>
  <2>1. PICK o \in Opened : d.open = <<o>> /\ OpenAt(o, h, k)
    BY <1>4, Zenon DEF KeptOpen
  <2> DEFINE t == [o.turn EXCEPT !.gen = Spanned(o)]
  <2>2. TurnKept(t, g, k)
    BY <2>1, ClosedTurn
  <2>3. t.what = "turn" /\ t.req = o.turn.req
    <3>1. o.turn \in TurnRecord
      BY DEF Opened
    <3> QED
      BY <3>1 DEF TurnRecord
  <2> HIDE DEF t
  <2>4. Range(e.out) = Range(d.out) \cup {t}
    BY <1>1, <2>1, Zenon DEF t
  <2>5. Gained(Range(d.out), Range(e.out), g, k)
    BY <2>2, <2>3, <2>4 DEF Gained
  <2>6. \A u : d.open = <<u>> => \E x \in Range(e.out) : x.what = "turn" /\ x.req = u.turn.req
    BY <1>2, <2>1, <2>3, <2>4
  <2> QED
    BY <1>1, <2>5, <2>6, Zenon DEF e
<1> QED
  BY <1>3, <1>4

-----------------------------------------------------------------------------
(* A pass over the rows from k on                                          *)

Pass(d, h, k) ==
  /\ Shaped(d)
  /\ KeptCalls(d.tools, d.byRow, h, k)
  /\ KeptRoom(d.order, d.byRow, h)
  /\ KeptPrompt(d.prompt, h, k)
  /\ KeptOpen(d.open, h, k)
  /\ KeptSeen(d.seen, h, k)
  /\ KeptOut(Range(d.out), d.open, h, k)

LEMMA PassBegins ==
  ASSUME NEW h, Orderly(h), NEW k \in Nat, k > Len(h)
  PROVE  Pass(Fresh, h, k)
<1>1. Len(h) \in Nat
  BY Lines
<1>2. Shaped(Fresh)
  <2>1. Fresh = [f \in Fields |-> Fresh[f]]
    BY DEF Fresh, Fields
  <2>2. Fresh.out = <<>> /\ Fresh.open = <<>>
    BY DEF Fresh
  <2>3. <<>> \in Seq(Record)
    OBVIOUS
  <2> QED
    BY <2>1, <2>2, <2>3, Zenon DEF Shaped
<1>3. /\ Fresh.tools = {} /\ Fresh.byRow = {} /\ Fresh.order = <<>> /\ Fresh.prompt = <<>>
      /\ Fresh.open = <<>> /\ Fresh.seen = {} /\ Range(Fresh.out) = {}
  <2>1. Range(<<>>) = {}
    BY DEF Range
  <2> QED
    BY <2>1 DEF Fresh
<1>4. \A t \in ToolsIn(h) : AskedBy(h, t) \in 1..Len(h)
  BY Asker, Lines
<1>5. KeptCalls({}, {}, h, k)
  BY <1>1, <1>4 DEF KeptCalls, AskedFrom
<1>6. KeptRoom(<<>>, {}, h)
  <2>1. \E c \in Nat : ToolsIn(h) = 1..c
    BY Numbered
  <2>2. IsFiniteSet({}) /\ Cardinality({}) = 0
    BY FS_EmptySet
  <2>3. <<>> \in Seq(Nat) /\ Len(<<>>) = 0
    OBVIOUS
  <2> QED
    BY <2>1, <2>2, <2>3 DEF KeptRoom
<1>7. KeptPrompt(<<>>, h, k)
  <2>1. k..Len(h) = {}
    BY <1>1
  <2> QED
    BY <2>1 DEF KeptPrompt
<1>8. \A r : \A i \in RowsOf(h, r) : i < k
  BY <1>1, RowsOfIs
<1>9. KeptOpen(<<>>, h, k)
  BY <1>8 DEF KeptOpen
<1>10. KeptSeen({}, h, k)
  BY DEF KeptSeen
<1>11. KeptOut({}, <<>>, h, k)
  <2>1. \A r \in Measurable(h) : Opening(h, r) < k
    BY <1>8, Real, RowsOfIs
  <2>2. \A c \in TimedCalls(h) : AskedBy(h, c.tool) < k
    BY <1>1, <1>4, TimedFields
  <2>3. \A r \in Measurable(h) : Opening(h, r) \in Nat
    BY Real, RowsOfIs
  <2>4. \A c \in TimedCalls(h) : AskedBy(h, c.tool) \in Nat
    BY <1>4, TimedFields
  <2> QED
    BY <2>1, <2>2, <2>3, <2>4 DEF KeptOut
<1> QED
  BY <1>2, <1>3, <1>5, <1>6, <1>7, <1>9, <1>10, <1>11, Zenon DEF Pass


LEMMA PassNoted ==
  ASSUME NEW h, NEW row, NEW g, NEW n, Grows(h, row, g, n), NEW k, NEW d, Pass(d, h, k)
  PROVE  LET e == NoteVersion(d, row) IN
         /\ Shaped(e) /\ Gained(Range(d.out), Range(e.out), g, k)
         /\ e.tools = d.tools /\ e.byRow = d.byRow /\ e.order = d.order
         /\ e.prompt = d.prompt /\ e.open = d.open /\ e.seen = d.seen
<1> DEFINE e == NoteVersion(d, row)
<1>1. Shaped(d) /\ row \in Row
  BY Grown DEF Pass
<1>2. /\ Shaped(e) /\ Changed(d, e, {"out", "version"})
      /\ \E noted \in SUBSET VersionRecord : Range(e.out) = Range(d.out) \cup noted
  BY <1>1, Noted, Zenon
<1> HIDE DEF e
<1>3. Gained(Range(d.out), Range(e.out), g, k)
  BY <1>2, VersionsGained
<1>4. /\ e.tools = d.tools /\ e.byRow = d.byRow /\ e.order = d.order
      /\ e.prompt = d.prompt /\ e.open = d.open /\ e.seen = d.seen
  BY <1>2 DEF Changed, Fields
<1> QED
  BY <1>2, <1>3, <1>4, Zenon DEF e

LEMMA RoomStays ==
  ASSUME NEW h, NEW row, NEW g, NEW n, Grows(h, row, g, n), row.kind # "assistant",
         NEW order, NEW byRow, KeptRoom(order, byRow, h), NEW left, left \subseteq byRow
  PROVE  KeptRoom(order, left, g)
<1>1. ToolsIn(g) = ToolsIn(h)
  <2>1. Range(row.asks) = {}
    BY NewAsks DEF Grows
  <2> QED
    BY <2>1, GrownSets
<1>2. PICK c \in Nat : /\ ToolsIn(h) = 1..c /\ order \in Seq(Nat) /\ Len(order) <= c
                       /\ IsFiniteSet(byRow) /\ Cardinality(byRow) <= c
  BY DEF KeptRoom
<1>3. IsFiniteSet(left) /\ Cardinality(left) <= Cardinality(byRow)
  BY <1>2, FS_Subset
<1>4. Cardinality(left) \in Nat /\ Cardinality(byRow) \in Nat
  BY <1>2, <1>3, FS_CardinalityType
<1>5. Cardinality(left) <= c
  BY <1>2, <1>3, <1>4
<1> QED
  BY <1>1, <1>2, <1>3, <1>5 DEF KeptRoom

\* What does not ask for calls and is no first row of a request measures none of either,
\* unless it answers.
LEMMA NoneNew ==
  ASSUME NEW h, NEW row, NEW g, NEW n, Grows(h, row, g, n)
  PROVE  /\ row.kind # "assistant" => Measurable(g) \ Measurable(h) = {}
         /\ row.kind # "result" => TimedCalls(g) \ TimedCalls(h) = {}
         /\ row.kind = "assistant" => Measurable(g) \ Measurable(h) \subseteq {row.req}
         /\ row.void => Measurable(g) \ Measurable(h) = {}
         /\ row.req \in RequestsIn(h) => Measurable(g) \ Measurable(h) = {}
<1>1. row.kind # "assistant" => Measurable(g) = Measurable(h)
  BY GrownRequests
<1>2. row.kind # "result" => TimedCalls(g) = TimedCalls(h)
  BY GrownTimed
<1>3. Measurable(g) \subseteq Measurable(h) \cup {row.req}
  BY GrownRequests
<1>4. row.void => row.kind = "assistant" /\ row.req \notin Measurable(g)
  <2>1. row.void => row.kind = "assistant"
    BY NewRequest, Zenon DEF Grows
  <2>2. row.kind = "assistant" => (row.req \in Measurable(g) <=> ~row.void)
    BY GrownRequests
  <2> QED
    BY <2>1, <2>2
<1>5. row.req \in RequestsIn(h) => (row.req \in Measurable(g) <=> row.req \in Measurable(h))
  BY GrownRequests
<1> QED
  BY <1>1, <1>2, <1>3, <1>4, <1>5

LEMMA PushOther ==
  ASSUME NEW h, NEW row, NEW g, NEW n, Grows(h, row, g, n), NEW k \in Nat \ {0}, k <= n,
         row.kind = "other", NEW d, Pass(d, h, k)
  PROVE  Pass(Push(d, row), g, k)
<1> DEFINE noted == NoteVersion(d, row)
           e == ExtendPromptChain(noted, row)
<1>1. Push(d, row) = e
  BY DEF Push
<1>2. /\ Shaped(noted) /\ Gained(Range(d.out), Range(noted.out), g, k)
      /\ noted.tools = d.tools /\ noted.byRow = d.byRow /\ noted.order = d.order
      /\ noted.prompt = d.prompt /\ noted.open = d.open /\ noted.seen = d.seen
  BY PassNoted
<1> HIDE DEF noted
<1>3. noted.prompt = <<>> \/ \E P, ts, offset :
        noted.prompt = <<P>> /\ P = [ts |-> ts, chain |-> P.chain, offset |-> offset]
  BY <1>2 DEF Pass, KeptPrompt, PromptAt
<1>4. /\ Shaped(e) /\ Changed(noted, e, {"prompt"})
      /\ noted.prompt = <<>> => e.prompt = <<>>
      /\ \A P : noted.prompt = <<P>> =>
              e.prompt = IF row.parent \in P.chain /\ Cardinality(P.chain) < MaxPromptChain
                           THEN <<[ts |-> P.ts, chain |-> P.chain \cup {row.uuid},
                                   offset |-> P.offset]>>
                           ELSE <<P>>
  BY <1>2, <1>3, Extended, Zenon
<1> HIDE DEF e
<1>5. /\ e.tools = d.tools /\ e.byRow = d.byRow /\ e.order = d.order
      /\ e.open = d.open /\ e.seen = d.seen /\ e.out = noted.out
  BY <1>2, <1>4 DEF Changed, Fields
<1>6. KeptCalls(d.tools, d.byRow, g, k)
  BY CallsStay DEF Pass
<1>7. KeptRoom(d.order, d.byRow, g)
  BY RoomStays DEF Pass
<1>8. KeptPrompt(e.prompt, g, k)
  <2>1. KeptPrompt(noted.prompt, h, k)
    BY <1>2, Zenon DEF Pass
  <2> DEFINE was == noted.prompt
             is == e.prompt
  <2>2. /\ was = <<>> => is = <<>>
        /\ \A P : was = <<P>> =>
              is = IF row.parent \in P.chain /\ Cardinality(P.chain) < MaxPromptChain
                     THEN <<[ts |-> P.ts, chain |-> P.chain \cup {row.uuid}, offset |-> P.offset]>>
                     ELSE <<P>>
    BY <1>4, Zenon
  <2> HIDE DEF was, is
  <2>3. KeptPrompt(is, g, k)
    BY <2>1, <2>2, PromptExtended DEF was
  <2> QED
    BY <2>3 DEF is
<1>9. KeptOpen(d.open, g, k)
  BY OpenStays DEF Pass
<1>10. KeptSeen(d.seen, g, k)
  BY SeenStays DEF Pass
<1>11. KeptOut(Range(e.out), d.open, g, k)
  <2>1. KeptOut(Range(d.out), d.open, h, k)
    BY DEF Pass
  <2>2. Gained(Range(d.out), Range(e.out), g, k)
    BY <1>2, <1>5, Zenon
  <2>3. Measurable(g) \ Measurable(h) = {} /\ TimedCalls(g) \ TimedCalls(h) = {}
    BY NoneNew
  <2> QED
    BY <2>1, <2>2, <2>3, OutGrows DEF Gained
<1> QED
  BY <1>1, <1>4, <1>5, <1>6, <1>7, <1>8, <1>9, <1>10, <1>11, Zenon DEF Pass

LEMMA PushPrompt ==
  ASSUME NEW h, NEW row, NEW g, NEW n, Grows(h, row, g, n), NEW k \in Nat \ {0}, k <= n,
         row.kind = "prompt", NEW d, Pass(d, h, k)
  PROVE  Pass(Push(d, row), g, k)
<1> DEFINE noted == NoteVersion(d, row)
           closed == CloseTurn(noted, TRUE)
           prompt == <<[ts |-> row.ts, chain |-> {row.uuid}, offset |-> Start(row.uuid)]>>
           e == [closed EXCEPT !.prompt = prompt]
<1>1. Push(d, row) = e
  BY DEF Push, BeginPrompt
<1>2. /\ Shaped(noted) /\ Gained(Range(d.out), Range(noted.out), g, k)
      /\ noted.tools = d.tools /\ noted.byRow = d.byRow /\ noted.order = d.order
      /\ noted.prompt = d.prompt /\ noted.open = d.open /\ noted.seen = d.seen
  BY PassNoted
<1> HIDE DEF noted
<1>3. KeptOpen(noted.open, h, k)
  BY <1>2, Zenon DEF Pass
<1>4. /\ Shaped(closed) /\ Changed(noted, closed, {"out", "open"}) /\ closed.open = <<>>
      /\ Gained(Range(noted.out), Range(closed.out), g, k)
      /\ \A o : noted.open = <<o>> =>
           \E t \in Range(closed.out) : t.what = "turn" /\ t.req = o.turn.req
  BY <1>2, <1>3, Closing
<1> HIDE DEF closed
<1>5. /\ e = [f \in Fields |-> e[f]] /\ Changed(closed, e, {"prompt"}) /\ e.prompt = prompt
      /\ e.out = closed.out /\ e.open = closed.open
  <2>1. closed = [f \in Fields |-> closed[f]]
    BY <1>4, Zenon DEF Shaped
  <2> HIDE DEF prompt
  <2> QED
    BY <2>1 DEF Changed, Fields
<1> HIDE DEF e, prompt
<1>6. Shaped(e)
  BY <1>4, <1>5, Zenon DEF Shaped
<1>7. /\ e.tools = d.tools /\ e.byRow = d.byRow /\ e.order = d.order
      /\ e.open = <<>> /\ e.seen = d.seen
  BY <1>2, <1>4, <1>5 DEF Changed, Fields
<1>8. KeptCalls(d.tools, d.byRow, g, k)
  BY CallsStay DEF Pass
<1>9. KeptRoom(d.order, d.byRow, g)
  BY RoomStays DEF Pass
<1>10. KeptPrompt(e.prompt, g, k)
  BY <1>5, PromptBegun DEF prompt
<1>11. KeptOpen(<<>>, g, k)
  BY OpenNone
<1>12. KeptSeen(d.seen, g, k)
  BY SeenStays DEF Pass
<1>13. KeptOut(Range(e.out), <<>>, g, k)
  <2>1. KeptOut(Range(d.out), d.open, h, k)
    BY DEF Pass
  <2>2. Gained(Range(d.out), Range(e.out), g, k)
    BY <1>2, <1>4, <1>5, GainedTwice, Zenon
  <2>3. Measurable(g) \ Measurable(h) = {} /\ TimedCalls(g) \ TimedCalls(h) = {}
    BY NoneNew
  <2>4. \A o : d.open = <<o>> => \E t \in Range(e.out) : t.what = "turn" /\ t.req = o.turn.req
    BY <1>2, <1>4, <1>5, Zenon
  <2> QED
    BY <2>1, <2>2, <2>3, <2>4, OutGrows DEF Gained
<1> QED
  BY <1>1, <1>6, <1>7, <1>8, <1>9, <1>10, <1>11, <1>12, <1>13, Zenon DEF Pass


LEMMA PushResult ==
  ASSUME NEW h, NEW row, NEW g, NEW n, Grows(h, row, g, n), NEW k \in Nat \ {0}, k <= n,
         row.kind = "result", NEW d, Pass(d, h, k)
  PROVE  Pass(Push(d, row), g, k)
<1> DEFINE noted == NoteVersion(d, row)
           closed == CloseTurn(noted, TRUE)
           e == ToolResult(closed, row)
<1>1. Push(d, row) = e
  BY DEF Push
<1>2. /\ Shaped(noted) /\ Gained(Range(d.out), Range(noted.out), g, k)
      /\ noted.tools = d.tools /\ noted.byRow = d.byRow /\ noted.order = d.order
      /\ noted.prompt = d.prompt /\ noted.open = d.open /\ noted.seen = d.seen
  BY PassNoted
<1> HIDE DEF noted
<1>3. KeptOpen(noted.open, h, k)
  BY <1>2, Zenon DEF Pass
<1>4. /\ Shaped(closed) /\ Changed(noted, closed, {"out", "open"}) /\ closed.open = <<>>
      /\ Gained(Range(noted.out), Range(closed.out), g, k)
      /\ \A o : noted.open = <<o>> =>
           \E t \in Range(closed.out) : t.what = "turn" /\ t.req = o.turn.req
  BY <1>2, <1>3, Closing
<1> HIDE DEF closed
<1>5. /\ closed.tools = d.tools /\ closed.byRow = d.byRow /\ closed.order = d.order
      /\ closed.prompt = d.prompt /\ closed.seen = d.seen
  BY <1>2, <1>4 DEF Changed, Fields
<1>6. PICK answered \in Unanswered(h) :
        /\ answered \in ToolsIn(h) /\ row.source = AskedBy(h, answered)
        /\ \/ row.cites = answered
           \/ row.cites = None /\ Len(h[row.source].asks) = 1
        /\ \A t \in ToolsIn(g) : Answers(g, n, t) <=> t = answered
        /\ Answers(g, n, answered)
  BY GrownAnswers, GrownSets
<1> DEFINE p == Call(h, answered)
           cited == {q \in closed.tools : q.id = row.cites}
           near == {q \in closed.byRow : q.row = row.source}
           timed == AskedBy(h, answered) >= k
<1>7. p.id \in Nat /\ p.ts \in Int
  <2>1. Orderly(h)
    BY DEF Grows
  <2>2. \E c \in Nat : ToolsIn(h) = 1..c
    BY <2>1, Numbered
  <2>3. AskedBy(h, answered) \in 1..Len(h)
    BY <1>6, GrownAsker
  <2>4. h[AskedBy(h, answered)].ts \in Int
    BY <2>1, <2>3, Lines DEF Row
  <2> QED
    BY <1>6, <2>2, <2>4 DEF Call
<1>8. KeptCalls(closed.tools, closed.byRow, h, k)
  BY <1>5, Zenon DEF Pass
<1> DEFINE T == closed.tools
           B == closed.byRow
<1>19. Found(cited, near, T, B, row)
  BY Zenon DEF Found
<1> HIDE DEF cited, near, T, B
<1>9. /\ timed => cited = {p} \/ (cited = {} /\ near = {p})
      /\ ~timed => cited = {} /\ near = {}
  <2>1. answered \in AskedFrom(h, k) <=> timed
    BY <1>6 DEF AskedFrom
  <2> HIDE DEF timed
  <2>2. KeptCalls(T, B, h, k)
    BY <1>8 DEF T, B
  <2>3. /\ answered \in AskedFrom(h, k) => cited = {p} \/ (cited = {} /\ near = {p})
        /\ answered \notin AskedFrom(h, k) => cited = {} /\ near = {}
    BY <1>6, <1>19, <2>2, ResultFinds
  <2> QED
    BY <2>1, <2>3, Zenon
<1>10. /\ cited = {} /\ near = {} => e = closed
       /\ cited = {p} =>
            /\ Shaped(e) /\ Changed(closed, e, {"tools", "out"}) /\ e.tools = closed.tools \ {p}
            /\ Range(e.out) = Range(closed.out) \cup Timing(p, row)
       /\ cited = {} /\ near = {p} =>
            /\ Shaped(e) /\ Changed(closed, e, {"byRow", "out"}) /\ e.byRow = closed.byRow \ {p}
            /\ Range(e.out) = Range(closed.out) \cup Timing(p, row)
  <2>1. row \in Row
    BY Grown
  <2>2. Shaped(closed) /\ Found(cited, near, closed.tools, closed.byRow, row)
    BY <1>4, <1>19, Zenon DEF T, B
  <2> HIDE DEF p
  <2>3. p.id \in Nat /\ p.ts \in Int
    BY <1>7
  <2>4. cited = {} /\ near = {} => e = closed
    BY <2>1, <2>2, <2>3, ResultIs
  <2>5. ASSUME cited = {p}
        PROVE  Cited(closed, e, p, row)
    BY <2>1, <2>2, <2>3, <2>5, ResultIs
  <2>6. ASSUME cited = {}, near = {p}
        PROVE  Guessed(closed, e, p, row)
    BY <2>1, <2>2, <2>3, <2>6, ResultIs
  <2> QED
    BY <2>4, <2>5, <2>6, Zenon DEF Cited, Guessed
<1> HIDE DEF e, p
<1>11. /\ Shaped(e)
       /\ e.tools \subseteq d.tools /\ d.tools \ e.tools \subseteq {p}
       /\ e.byRow \subseteq d.byRow /\ d.byRow \ e.byRow \subseteq {p}
       /\ e.order = d.order /\ e.prompt = d.prompt /\ e.seen = d.seen /\ e.open = <<>>
  <2>1. CASE cited = {} /\ near = {}
    BY <1>4, <1>5, <1>10, <2>1
  <2>2. CASE cited = {p}
    BY <1>4, <1>5, <1>10, <2>2 DEF Changed, Fields
  <2>3. CASE cited = {} /\ near = {p}
    BY <1>4, <1>5, <1>10, <2>3 DEF Changed, Fields
  <2> QED
    BY <1>9, <2>1, <2>2, <2>3
<1>12. /\ timed => Range(e.out) = Range(closed.out) \cup Timing(p, row)
       /\ ~timed => Range(e.out) = Range(closed.out)
  BY <1>9, <1>10, Zenon
<1>13. KeptCalls(e.tools, e.byRow, g, k)
  <2>1. KeptCalls(d.tools, d.byRow, h, k)
    BY DEF Pass
  <2> QED
    BY <1>6, <1>11, <2>1, CallsAnswered DEF p
<1>14. KeptRoom(d.order, e.byRow, g)
  BY <1>11, RoomStays DEF Pass
<1>15. KeptPrompt(d.prompt, g, k)
  BY PromptOver DEF Pass
<1>16. KeptOpen(<<>>, g, k)
  BY OpenNone
<1>17. KeptSeen(d.seen, g, k)
  BY SeenStays DEF Pass
<1>18. KeptOut(Range(e.out), <<>>, g, k)
  <2>1. KeptOut(Range(d.out), d.open, h, k)
    BY DEF Pass
  <2>2. /\ Timing(p, row) \subseteq TimedCalls(g)
        /\ \A c \in TimedCalls(g) \ TimedCalls(h) : c.tool = answered /\ c \in Timing(p, row)
    BY <1>6, AnswerTimed DEF p
  <2>3. Gained(Range(closed.out), Range(e.out), g, k)
    <3>1. \A t \in Timing(p, row) : t.what = "tool"
      BY DEF Timing, Took
    <3>2. \A t \in Range(e.out) \ Range(closed.out) : t.what = "tool" /\ t \in TimedCalls(g)
      BY <1>12, <2>2, <3>1
    <3>3. Range(closed.out) \subseteq Range(e.out)
      BY <1>12
    <3> QED
      BY <3>2, <3>3 DEF Gained
  <2>4. Gained(Range(d.out), Range(e.out), g, k)
    BY <1>2, <1>4, <2>3, GainedTwice, Zenon
  <2>5. \A o : d.open = <<o>> => \E t \in Range(e.out) : t.what = "turn" /\ t.req = o.turn.req
    <3>1. Range(closed.out) \subseteq Range(e.out)
      BY <2>3 DEF Gained
    <3>2. \A o : d.open = <<o>> => \E t \in Range(closed.out) : t.what = "turn" /\ t.req = o.turn.req
      BY <1>2, <1>4, Zenon
    <3> QED
      BY <3>1, <3>2
  <2>6. \A c \in TimedCalls(g) \ TimedCalls(h) : AskedBy(g, c.tool) >= k => c \in Range(e.out)
    <3>1. AskedBy(g, answered) = AskedBy(h, answered)
      BY <1>6, GrownAsker
    <3> QED
      BY <1>12, <2>2, <3>1
  <2>7. Measurable(g) \ Measurable(h) = {}
    BY NoneNew
  <2> QED
    BY <2>1, <2>4, <2>5, <2>6, <2>7, OutGrows DEF Gained
<1> QED
  BY <1>1, <1>11, <1>13, <1>14, <1>15, <1>16, <1>17, <1>18, Zenon DEF Pass


\* All calls a file asks for may wait at once.
LEMMA CalmIs ==
  ASSUME NEW h, Orderly(h), Calm(h), NEW c \in Nat, ToolsIn(h) = 1..c
  PROVE  c <= MaxPendingTools
<1>1. Cardinality(1..c) = c
  BY FS_Interval
<1> QED
  BY <1>1 DEF Calm

LEMMA CalmBefore ==
  ASSUME NEW h, NEW row, NEW g, NEW n, Grows(h, row, g, n), Calm(g)
  PROVE  Calm(h)
<1>1. Orderly(g) /\ Orderly(h) /\ ToolsIn(h) \subseteq ToolsIn(g)
  <2>1. Orderly(h)
    BY DEF Grows
  <2>2. Orderly(g) /\ ToolsIn(g) = ToolsIn(h) \cup Range(row.asks)
    BY StaysOrderly, GrownSets
  <2> QED
    BY <2>1, <2>2
<1>2. PICK c \in Nat : ToolsIn(g) = 1..c /\ Cardinality(ToolsIn(g)) = c
  BY <1>1, Numbered
<1>3. PICK b \in Nat : ToolsIn(h) = 1..b /\ Cardinality(ToolsIn(h)) = b
  BY <1>1, Numbered
<1>4. b <= c
  <2>1. b = 0 \/ b \in 1..b
    BY <1>3
  <2> QED
    BY <1>1, <1>2, <1>3, <2>1
<1>5. MaxPendingTools \in Nat
  BY DeriverAssumption
<1> QED
  BY <1>2, <1>3, <1>4, <1>5 DEF Calm

\* The calls a row of a response asks for are remembered, none for want of room forgotten.
LEMMA PassAsked ==
  ASSUME NEW h, NEW row, NEW g, NEW n, Grows(h, row, g, n), NEW k \in Nat \ {0}, k <= n,
         row.kind = "assistant", NEW d, Shaped(d), Calm(g),
         KeptCalls(d.tools, d.byRow, h, k), KeptRoom(d.order, d.byRow, h)
  PROVE  LET e == Remembering(d, row.asks, row) IN
         /\ Shaped(e) /\ Changed(d, e, {"tools", "byRow", "order"})
         /\ KeptCalls(e.tools, e.byRow, g, k) /\ KeptRoom(e.order, e.byRow, g)
<1> DEFINE e == Remembering(d, row.asks, row)
<1>1. Orderly(h) /\ NewRow(h, row) /\ Orderly(g)
  BY StaysOrderly DEF Grows
<1>2. PICK c \in Nat, m \in Nat :
        /\ ToolsIn(h) = 1..c /\ DOMAIN row.asks = 1..m /\ Len(row.asks) = m
        /\ \A i \in 1..m : row.asks[i] = c + i
        /\ Range(row.asks) = (c + 1)..(c + m)
  BY <1>1, NewAsks
<1>3. /\ d.order \in Seq(Nat) /\ Len(d.order) <= c
      /\ IsFiniteSet(d.byRow) /\ Cardinality(d.byRow) <= c
  <2>1. PICK b \in Nat : /\ ToolsIn(h) = 1..b /\ d.order \in Seq(Nat) /\ Len(d.order) <= b
                         /\ IsFiniteSet(d.byRow) /\ Cardinality(d.byRow) <= b
    BY DEF KeptRoom
  <2>2. b = c
    <3>1. Cardinality(1..b) = b /\ Cardinality(1..c) = c
      BY FS_Interval
    <3> QED
      BY <1>2, <2>1, <3>1
  <2> QED
    BY <2>1, <2>2
<1>4. ToolsIn(g) = 1..(c + m)
  <2>1. ToolsIn(g) = ToolsIn(h) \cup Range(row.asks)
    BY GrownSets
  <2> QED
    BY <1>2, <2>1
<1>5. c + m <= MaxPendingTools
  BY <1>1, <1>4, CalmIs
<1>6. \A p \in d.tools : p.id \in 1..c
  BY <1>2 DEF KeptCalls, AskedFrom
<1>7. row \in Row /\ row.uuid = n /\ n \notin 1..Len(h)
  BY Grown
<1>8. \A p \in d.byRow : p.row # row.uuid
  <2>1. \A p \in d.byRow : p.id \in ToolsIn(h) /\ p = Call(h, p.id)
    BY DEF KeptCalls, AskedFrom
  <2>2. \A t : Call(h, t).row = AskedBy(h, t)
    BY DEF Call
  <2>3. \A t \in ToolsIn(h) : AskedBy(h, t) \in 1..Len(h)
    BY GrownAsker
  <2> QED
    BY <1>7, <2>1, <2>2, <2>3
<1>9. /\ Shaped(e) /\ Changed(d, e, {"tools", "byRow", "order"})
      /\ e.tools = d.tools \cup {Asked(row, t) : t \in (c + 1)..(c + m)}
      /\ e.byRow = IF m = 0 THEN d.byRow ELSE d.byRow \cup {Asked(row, c + m)}
      /\ e.order \in Seq(Nat) /\ Len(e.order) <= c + m
  <2>1. Room(d, row, c, m)
    BY <1>2, <1>3, <1>5, <1>6, <1>8 DEF Room
  <2>2. AllOf(d, e, row, c, m)
    BY <1>7, <2>1, AllRemembered
  <2> QED
    BY <2>2, Zenon DEF AllOf
<1> HIDE DEF e
<1>10. KeptCalls(e.tools, e.byRow, g, k)
  <2> DEFINE T == e.tools
             B == e.byRow
  <2>1. /\ T = d.tools \cup {Asked(row, t) : t \in (c + 1)..(c + m)}
        /\ B = IF m = 0 THEN d.byRow ELSE d.byRow \cup {Asked(row, c + m)}
    BY <1>9
  <2> HIDE DEF T, B
  <2>2. KeptCalls(T, B, g, k)
    BY <1>2, <2>1, CallsAsked
  <2> QED
    BY <2>2 DEF T, B
<1>11. KeptRoom(e.order, e.byRow, g)
  <2>1. CASE m = 0
    BY <1>3, <1>4, <1>9, <2>1 DEF KeptRoom
  <2>2. CASE m # 0
    <3>1. e.byRow = d.byRow \cup {Asked(row, c + m)}
      BY <1>9, <2>2
    <3>2. /\ IsFiniteSet(e.byRow)
          /\ \/ Cardinality(e.byRow) = Cardinality(d.byRow)
             \/ Cardinality(e.byRow) = Cardinality(d.byRow) + 1
      BY <1>3, <3>1, FS_AddElement
    <3>3. Cardinality(d.byRow) \in Nat
      BY <1>3, FS_CardinalityType
    <3>4. Cardinality(e.byRow) <= c + m
      BY ONLY <1>3, <2>2, <3>2, <3>3, c \in Nat, m \in Nat
    <3> QED
      BY <1>4, <1>9, <3>2, <3>4 DEF KeptRoom
  <2> QED
    BY <2>1, <2>2
<1> QED
  BY <1>9, <1>10, <1>11, Zenon DEF e


\* Nothing of the response before it is left open, and its turn is recorded.
Cleared(d, e, g, k) ==
  /\ Shaped(e) /\ Changed(d, e, {"out", "open"}) /\ e.open = <<>>
  /\ Gained(Range(d.out), Range(e.out), g, k)
  /\ \A o : d.open = <<o>> => \E t \in Range(e.out) : t.what = "turn" /\ t.req = o.turn.req

LEMMA Clearing ==
  ASSUME NEW h, NEW row, NEW g, NEW n, Grows(h, row, g, n), NEW k \in Nat,
         row.kind = "assistant", NEW d, Shaped(d), KeptOpen(d.open, h, k),
         d.open = <<>> \/ row.req # Arriving(h)
  PROVE  Cleared(d, CloseTurn(d, TRUE), g, k)
<1>1. CASE row.req # Arriving(h)
  <2> DEFINE e == CloseTurn(d, TRUE)
  <2>1. /\ Shaped(e) /\ Changed(d, e, {"out", "open"}) /\ e.open = <<>>
        /\ Gained(Range(d.out), Range(e.out), g, k)
        /\ \A o : d.open = <<o>> => \E t \in Range(e.out) : t.what = "turn" /\ t.req = o.turn.req
    BY <1>1, Closing
  <2> QED
    BY <2>1, Zenon DEF Cleared
<1>2. CASE d.open = <<>>
  <2>1. CloseTurn(d, TRUE) = d
    BY <1>2 DEF CloseTurn
  <2>2. \A o : <<o>> # <<>>
    OBVIOUS
  <2>3. Changed(d, d, {"out", "open"}) /\ Gained(Range(d.out), Range(d.out), g, k)
    BY DEF Changed, Gained
  <2> QED
    BY <1>2, <2>1, <2>2, <2>3, Zenon DEF Cleared
<1> QED
  BY <1>1, <1>2

\* The rows of a response that a pass has not opened are before its first.
LEMMA Unopened ==
  ASSUME NEW h, NEW row, NEW g, NEW n, Grows(h, row, g, n), NEW k \in Nat,
         row.kind = "assistant", NEW open, KeptOpen(open, h, k),
         open = <<>> \/ row.req # Arriving(h)
  PROVE  \A i \in RowsOf(h, row.req) : i < k
<1>1. Orderly(h) /\ NewRow(h, row)
  BY DEF Grows
<1>2. CASE row.req \notin RequestsIn(h)
  <2>1. RowsOf(h, row.req) = {}
    BY <1>1, <1>2, RowsOfIs
  <2> QED
    BY <2>1
<1>3. CASE row.req \in RequestsIn(h)
  <2>1. row.req = Arriving(h) /\ row.req \in RequestsIn(h) \ Voided(h)
    BY <1>1, <1>3, NewRequest
  <2>2. Arriving(h) \in Measurable(h) /\ open = <<>>
    BY <2>1 DEF Measurable
  <2> QED
    BY <2>1, <2>2 DEF KeptOpen
<1> QED
  BY <1>2, <1>3

LEMMA PushAssistant ==
  ASSUME NEW h, NEW row, NEW g, NEW n, Grows(h, row, g, n), NEW k \in Nat \ {0}, k <= n,
         row.kind = "assistant", Calm(g), NEW d, Pass(d, h, k)
  PROVE  Pass(Push(d, row), g, k)
<1> DEFINE noted == NoteVersion(d, row)
           asked == Remembering(noted, row.asks, row)
           closed == CloseTurn(asked, TRUE)
           e == Assistant(noted, row)
           goesOn == asked.open # <<>> /\ row.req # None /\ asked.open[1].turn.req = row.req
<1>1. Push(d, row) = e
  BY DEF Push
<1>2. /\ Shaped(noted) /\ Gained(Range(d.out), Range(noted.out), g, k)
      /\ noted.tools = d.tools /\ noted.byRow = d.byRow /\ noted.order = d.order
      /\ noted.prompt = d.prompt /\ noted.open = d.open /\ noted.seen = d.seen
  BY PassNoted
<1>3. e = IF goesOn THEN [asked EXCEPT !.open[1].last = row.ts] ELSE OpenTurn(closed, row)
  BY AssistantIs, Zenon
<1> HIDE DEF noted, e
<1>4. /\ Shaped(asked) /\ Changed(noted, asked, {"tools", "byRow", "order"})
      /\ KeptCalls(asked.tools, asked.byRow, g, k) /\ KeptRoom(asked.order, asked.byRow, g)
  <2>1. KeptCalls(noted.tools, noted.byRow, h, k) /\ KeptRoom(noted.order, noted.byRow, h)
    BY <1>2, Zenon DEF Pass
  <2> QED
    BY <1>2, <2>1, PassAsked
<1> HIDE DEF asked
<1>5. asked.prompt = d.prompt /\ asked.open = d.open /\ asked.seen = d.seen /\ asked.out = noted.out
  BY <1>2, <1>4 DEF Changed, Fields
<1>6. /\ row \in Row /\ row.uuid = n /\ n \in Nat \ {0}
  BY Grown
<1>7. Orderly(h) /\ row.req # None
  <2>1. Orderly(h) /\ Orderly(g)
    BY StaysOrderly DEF Grows
  <2>2. row.req \in RequestsIn(g)
    BY GrownSets
  <2> QED
    BY <2>1, <2>2, Real
<1>8. KeptPrompt(d.prompt, g, k) /\ KeptPrompt(<<>>, g, k)
  BY PromptOver DEF Pass
<1>9. KeptOut(Range(d.out), d.open, h, k) /\ KeptOpen(d.open, h, k) /\ KeptSeen(d.seen, h, k)
  BY DEF Pass
<1>10. TimedCalls(g) \ TimedCalls(h) = {}
  BY NoneNew
<1>11. \A P, Q : (<<P>> = <<Q>> => P = Q) /\ <<P>> # <<>> /\ <<P>>[1] = P
  OBVIOUS
<1>12. CASE d.open # <<>> /\ row.req = Arriving(h)
  <2>1. PICK o \in Opened : d.open = <<o>> /\ OpenAt(o, h, k)
    BY <1>9, <1>12, Zenon DEF KeptOpen
  <2>2. goesOn
    BY <1>5, <1>7, <1>11, <1>12, <2>1 DEF OpenAt
  <2> DEFINE u == [o EXCEPT !.last = row.ts]
             f == [asked EXCEPT !.open[1].last = row.ts]
  <2>3. e = f
    BY <1>3, <2>2
  <2>4. Shaped(f) /\ Changed(asked, f, {"open"}) /\ f.open = <<u>>
    <3>1. row.ts \in Int
      BY <1>6 DEF Row
    <3> QED
      BY <1>4, <1>5, <2>1, <3>1, Continued
  <2> HIDE DEF f
  <2>5. u.turn = o.turn /\ u \in Opened /\ OpenAt(u, g, k)
    BY <1>12, <2>1, OpenContinued
  <2> HIDE DEF u
  <2>6. /\ f.tools = asked.tools /\ f.byRow = asked.byRow /\ f.order = asked.order
        /\ f.prompt = d.prompt /\ f.seen = d.seen /\ f.out = noted.out
    BY <1>5, <2>4 DEF Changed, Fields
  <2>7. KeptOpen(f.open, g, k)
    BY <1>11, <2>4, <2>5, Zenon DEF KeptOpen
  <2>8. KeptSeen(d.seen, g, k)
    BY <1>9, SeenStays
  <2>9. KeptOut(Range(f.out), f.open, g, k)
    <3>1. Gained(Range(d.out), Range(f.out), g, k)
      BY <1>2, <2>6, Zenon
    <3>2. Measurable(g) \ Measurable(h) = {}
      <4>1. row.req \in RequestsIn(h)
        BY <1>7, <1>12, ArrivingIn
      <4> QED
        BY <4>1, NoneNew
    <3>3. \A x : d.open = <<x>> => \E y : f.open = <<y>> /\ y.turn.req = x.turn.req
      BY <1>11, <2>1, <2>4, <2>5
    <3> QED
      BY <1>9, <1>10, <3>1, <3>2, <3>3, OutGrows DEF Gained
  <2> QED
    BY <1>1, <1>4, <1>8, <2>3, <2>4, <2>6, <2>7, <2>8, <2>9, Zenon DEF Pass
<1>13. CASE d.open = <<>> \/ row.req # Arriving(h)
  <2>1. ~ goesOn
    <3>1. d.open = <<>> \/ \E o \in Opened : d.open = <<o>> /\ OpenAt(o, h, k)
      BY <1>9, Zenon DEF KeptOpen
    <3>2. d.open # <<>> => d.open[1].turn.req = Arriving(h)
      BY <1>11, <3>1 DEF OpenAt
    <3> QED
      BY <1>5, <1>13, <3>2
  <2>2. e = OpenTurn(closed, row)
    BY <1>3, <2>1
  <2>3. Cleared(asked, closed, g, k)
    <3>1. KeptOpen(asked.open, h, k) /\ (asked.open = <<>> \/ row.req # Arriving(h))
      BY <1>5, <1>9, <1>13, Zenon
    <3> QED
      BY <1>4, <3>1, Clearing
  <2> HIDE DEF closed, goesOn
  <2>4. /\ Shaped(closed) /\ closed.open = <<>>
        /\ closed.tools = asked.tools /\ closed.byRow = asked.byRow /\ closed.order = asked.order
        /\ closed.prompt = d.prompt /\ closed.seen = d.seen
    BY <1>5, <2>3 DEF Cleared, Changed, Fields
  <2>5. Gained(Range(d.out), Range(closed.out), g, k)
    <3>1. Gained(Range(noted.out), Range(closed.out), g, k)
      BY <1>5, <2>3, Zenon DEF Cleared
    <3> QED
      BY <1>2, <3>1, GainedTwice
  <2>6. \A o : d.open = <<o>> => \E t \in Range(closed.out) : t.what = "turn" /\ t.req = o.turn.req
    BY <1>5, <2>3, Zenon DEF Cleared
  <2>7. \A i \in RowsOf(h, row.req) : i < k
    BY <1>9, <1>13, Unopened
  <2>8. CASE row.void
    <3>1. e = closed
      BY <1>6, <1>7, <2>2, <2>4, <2>8, TurnOpened
    <3>2. KeptOpen(<<>>, g, k)
      BY <2>8, OpenNone
    <3>3. KeptSeen(d.seen, g, k)
      BY <1>9, SeenStays
    <3>4. KeptOut(Range(closed.out), <<>>, g, k)
      <4>1. Measurable(g) \ Measurable(h) = {}
        BY <2>8, NoneNew
      <4> QED
        BY <1>9, <1>10, <2>5, <2>6, <4>1, OutGrows DEF Gained
    <3> QED
      BY <1>1, <1>4, <1>8, <2>4, <3>1, <3>2, <3>3, <3>4, Zenon DEF Pass
  <2>9. CASE ~ row.void
    <3>1. row.req \notin closed.seen
      <4>1. \A r \in d.seen : \E i \in RowsOf(h, r) : i >= k
        BY <1>9 DEF KeptSeen
      <4>2. RowsOf(h, row.req) \subseteq Nat
        BY <1>7, RowsOfIs
      <4> QED
        BY <2>4, <2>7, <4>1, <4>2
    <3> DEFINE late == NewOpen(closed, row)
    <3>2. /\ Shaped(e) /\ Changed(closed, e, {"seen", "prompt", "open"})
          /\ e.seen \subseteq closed.seen \cup {row.req}
          /\ e.prompt = IF ClaimsPrompt(closed, row) THEN <<>> ELSE closed.prompt
          /\ late \in Opened /\ e.open = <<late>>
      BY <1>6, <1>7, <2>2, <2>4, <2>9, <3>1, TurnOpened
    <3>3. late.turn.req = row.req
      BY DEF NewOpen
    <3>4. OpenAt(late, g, k)
      <4>1. KeptPrompt(closed.prompt, h, k)
        BY <2>4, Zenon DEF Pass
      <4> QED
        BY <2>7, <2>9, <4>1, OpenNew
    <3> HIDE DEF late
    <3>5. /\ e.tools = asked.tools /\ e.byRow = asked.byRow /\ e.order = asked.order
          /\ e.out = closed.out
      BY <2>4, <3>2 DEF Changed, Fields
    <3>6. KeptPrompt(e.prompt, g, k)
      BY <1>8, <2>4, <3>2
    <3>7. KeptOpen(e.open, g, k)
      BY <1>11, <3>2, <3>4, Zenon DEF KeptOpen
    <3>8. KeptSeen(e.seen, g, k)
      BY <1>9, <2>4, <3>2, SeenStays
    <3>9. KeptOut(Range(e.out), e.open, g, k)
      <4>1. \A r \in Measurable(g) \ Measurable(h) : \E u : e.open = <<u>> /\ u.turn.req = r
        <5>1. Measurable(g) \ Measurable(h) \subseteq {row.req}
          BY NoneNew
        <5> QED
          BY <3>2, <3>3, <5>1
      <4>2. Gained(Range(d.out), Range(e.out), g, k)
        BY <2>5, <3>5, Zenon
      <4>3. \A o : d.open = <<o>> => \E t \in Range(e.out) : t.what = "turn" /\ t.req = o.turn.req
        BY <2>6, <3>5, Zenon
      <4>4. /\ Range(d.out) \subseteq Range(e.out)
            /\ \A t \in Range(e.out) \ Range(d.out) : /\ t.what = "turn" => TurnKept(t, g, k)
                                                      /\ t.what = "tool" => t \in TimedCalls(g)
        BY <4>2, Zenon DEF Gained
      <4> QED
        BY <1>9, <1>10, <4>1, <4>3, <4>4, OutGrows, SMTT(30)
    <3> QED
      BY <1>1, <1>4, <3>2, <3>5, <3>6, <3>7, <3>8, <3>9, Zenon DEF Pass
  <2> QED
    BY <2>8, <2>9
<1> QED
  BY <1>12, <1>13


LEMMA PassGoesOn ==
  ASSUME NEW h, NEW row, NEW g, NEW n, Grows(h, row, g, n), NEW k \in Nat \ {0}, k <= n,
         Calm(g), NEW d, Pass(d, h, k)
  PROVE  Pass(Push(d, row), g, k)
<1>1. row.kind \in {"prompt", "assistant", "result", "other"}
  <2>1. row \in Row
    BY Grown
  <2> QED
    BY <2>1 DEF Row, RowKinds
<1>2. CASE row.kind = "prompt"
  BY <1>2, PushPrompt
<1>3. CASE row.kind = "assistant"
  BY <1>3, PushAssistant
<1>4. CASE row.kind = "result"
  BY <1>4, PushResult
<1>5. CASE row.kind = "other"
  BY <1>5, PushOther
<1> QED
  BY <1>1, <1>2, <1>3, <1>4, <1>5

\* Whatever row it begins at, a pass over the file as it stands keeps what it should.
FedWell(h) ==
  \A k \in Nat \ {0} : /\ Folds("lines", Start(k), Fresh, h)
                       /\ k > Len(h) => Fed(h, Start(k)) = Fresh
                       /\ Pass(Fed(h, Start(k)), h, k)

LEMMA OrderlyNothing == Orderly(<<>>)
<1>1. DOMAIN <<>> = {} /\ Len(<<>>) = 0 /\ <<>> \in Seq(Row)
  OBVIOUS
<1>2. \A kind : Indices(<<>>, kind) = {}
  BY <1>1 DEF Indices
<1>3. RequestsIn(<<>>) = {} /\ ToolsIn(<<>>) = {}
  BY <1>2 DEF RequestsIn, ToolsIn
<1>4. 1..0 = {}
  OBVIOUS
<1>5. \E n \in 0..Len(<<>>) : RequestsIn(<<>>) = 1..n
  BY <1>1, <1>3, <1>4
<1>6. \E n \in Nat : ToolsIn(<<>>) = 1..n
  BY <1>3, <1>4
<1> QED
  BY <1>1, <1>2, <1>5, <1>6, Zenon DEF Orderly

LEMMA FedNothing == FedWell(<<>>)
<1>1. SUFFICES ASSUME NEW k \in Nat \ {0}
               PROVE  /\ Folds("lines", Start(k), Fresh, <<>>)
                      /\ Fed(<<>>, Start(k)) = Fresh
                      /\ Pass(Fed(<<>>, Start(k)), <<>>, k)
  BY Zenon DEF FedWell
<1>2. DOMAIN <<>> = {} /\ Len(<<>>) = 0
  OBVIOUS
<1>3. /\ Folds("lines", Start(k), Fresh, <<>>)
      /\ Folded("lines", Start(k), Fresh, <<>>) = Fresh
  BY <1>2, FoldsNothing
<1>4. Fed(<<>>, Start(k)) = Fresh
  BY <1>3, FedIs
<1>5. Pass(Fresh, <<>>, k)
  <2>1. k \in Nat /\ k > Len(<<>>)
    BY <1>2
  <2> QED
    BY <2>1, OrderlyNothing, PassBegins
<1> QED
  BY <1>3, <1>4, <1>5

LEMMA FedGrows ==
  ASSUME NEW h, NEW row, NEW g, NEW n, Grows(h, row, g, n), Calm(g), FedWell(h)
  PROVE  FedWell(g)
<1>1. SUFFICES ASSUME NEW k \in Nat \ {0}
               PROVE  /\ Folds("lines", Start(k), Fresh, g)
                      /\ k > Len(g) => Fed(g, Start(k)) = Fresh
                      /\ Pass(Fed(g, Start(k)), g, k)
  BY Zenon DEF FedWell
<1>2. /\ Len(h) \in Nat /\ n \in Nat /\ n - 1 = Len(h) /\ row.uuid = n /\ Len(g) = n
      /\ DOMAIN h = 1..Len(h) /\ DOMAIN g = 1..n /\ g[n] = row
      /\ \A i \in 1..Len(h) : g[i] = h[i]
  BY Grown
<1> DEFINE s == Start(k)
           m == Len(h)
<1>3. Longer(h, g, m, row)
  BY <1>2 DEF Longer
<1>4. /\ Folds("lines", s, Fresh, h) /\ Pass(Fed(h, s), h, k)
      /\ k > Len(h) => Fed(h, s) = Fresh
  BY DEF FedWell
<1> HIDE DEF s, m
<1>5. /\ Folds("lines", s, Fresh, g)
      /\ Folded("lines", s, Fresh, g) = FoldStep("lines", s, Folded("lines", s, Fresh, h), row)
  BY <1>3, <1>4, FoldsGrow
<1>6. Fed(h, s) = Folded("lines", s, Fresh, h) /\ Fed(g, s) = Folded("lines", s, Fresh, g)
  BY <1>4, <1>5, FedIs
<1>7. Fed(g, s) = IF Start(row.uuid) >= s THEN Push(Fed(h, s), row) ELSE Fed(h, s)
  BY <1>5, <1>6, Zenon DEF FoldStep
<1>8. Start(row.uuid) >= s <=> n >= k
  BY <1>2 DEF Start, s
<1>9. CASE n >= k
  <2>1. Fed(g, s) = Push(Fed(h, s), row)
    BY <1>7, <1>8, <1>9
  <2>2. Pass(Push(Fed(h, s), row), g, k)
    BY <1>2, <1>4, <1>9, PassGoesOn
  <2>3. ~ (k > Len(g))
    BY <1>2, <1>9
  <2> QED
    BY <1>5, <2>1, <2>2, <2>3 DEF s
<1>10. CASE ~ (n >= k)
  <2>1. Fed(g, s) = Fresh
    BY <1>2, <1>4, <1>7, <1>8, <1>10
  <2>2. Pass(Fresh, g, k)
    <3>1. Orderly(g) /\ k \in Nat /\ k > Len(g)
      BY <1>2, <1>10, StaysOrderly
    <3> QED
      BY <3>1, PassBegins
  <2> QED
    BY <1>5, <2>1, <2>2 DEF s
<1> QED
  BY <1>9, <1>10


-----------------------------------------------------------------------------
(* What a pass reports                                                     *)

\* Where it would have the next one begin: at a row it waits for, or at the end.
LEMMA ResumesAtRow ==
  ASSUME NEW n \in Nat, NEW k \in 1..(n + 1), NEW d,
         Awaited(d) \subseteq {Start(j) : j \in k..n}, 2 * n <= MaxReread
  PROVE  \E m \in k..(n + 1) : /\ ResumeOffset(d, 2 * n) = Start(m)
                               /\ \A o \in Awaited(d) : Start(m) <= o
<1>1. MaxReread \in Nat
  BY DeriverAssumption
<1>2. \A o \in Awaited(d) : o \in Nat /\ \E j \in k..n : o = Start(j)
  BY DEF Start
<1> DEFINE near == {o \in Awaited(d) : o >= 2 * n - MaxReread}
<1>3. near = Awaited(d)
  BY <1>1, <1>2
<1>4. ResumeOffset(d, 2 * n) = IF near = {} THEN 2 * n ELSE Min(near)
  BY Zenon DEF ResumeOffset
<1>5. CASE near = {}
  <2>1. n + 1 \in k..(n + 1) /\ Start(n + 1) = 2 * n
    BY DEF Start
  <2> QED
    BY <1>3, <1>4, <1>5, <2>1
<1>6. CASE near # {}
  <2>1. near \subseteq Nat
    BY <1>2
  <2>2. Min(near) \in near /\ \A y \in near : Min(near) <= y
    BY <1>6, <2>1, MinIs
  <2>3. PICK m \in k..n : Min(near) = Start(m)
    BY <1>2, <1>3, <2>2
  <2>4. m \in k..(n + 1)
    BY <2>3
  <2> QED
    BY <1>3, <1>4, <1>6, <2>2, <2>3, <2>4
<1> QED
  BY <1>5, <1>6

\* Two derivers that differ in the response that is open, at most.
LEMMA AwaitedIn ==
  ASSUME NEW h, Orderly(h), NEW k \in Nat \ {0}, NEW d, Pass(d, h, k),
         NEW done, done.tools = d.tools, done.prompt = d.prompt,
         done.open = <<>> \/ done.open = d.open
  PROVE  /\ Awaited(done) \subseteq {Start(j) : j \in k..Len(h)}
         /\ \A t \in AskedFrom(h, k) : Waits(h, t) => Start(AskedBy(h, t)) \in Awaited(done)
         /\ \A o : done.open = <<o>> => o.offset \in Awaited(done)
<1>1. /\ KeptCalls(d.tools, d.byRow, h, k) /\ KeptPrompt(d.prompt, h, k)
      /\ KeptOpen(d.open, h, k)
  BY DEF Pass
<1>2. Len(h) \in Nat
  BY Lines
<1>3. \A p \in done.tools : \E j \in k..Len(h) : p.offset = Start(j)
  <2>1. SUFFICES ASSUME NEW p \in done.tools
                 PROVE  \E j \in k..Len(h) : p.offset = Start(j)
    OBVIOUS
  <2>2. p.id \in ToolsIn(h) /\ AskedBy(h, p.id) >= k /\ p = Call(h, p.id)
    BY <1>1 DEF KeptCalls, AskedFrom
  <2>3. AskedBy(h, p.id) \in 1..Len(h)
    <3>1. AskedBy(h, p.id) \in Indices(h, "assistant")
      BY <2>2, Asker
    <3> QED
      BY <3>1, Lines
  <2>4. p.offset = Start(AskedBy(h, p.id))
    BY <2>2 DEF Call
  <2>5. AskedBy(h, p.id) \in k..Len(h)
    BY <1>2, <2>2, <2>3
  <2> QED
    BY <2>4, <2>5
<1>4. \A i \in DOMAIN done.prompt : \E j \in k..Len(h) : done.prompt[i].offset = Start(j)
  <2>1. CASE d.prompt = <<>>
    BY <2>1
  <2>2. ASSUME NEW p \in k..Len(h), NEW P, d.prompt = <<P>>, PromptAt(P, p, h)
        PROVE  \A i \in DOMAIN done.prompt : \E j \in k..Len(h) : done.prompt[i].offset = Start(j)
    <3>1. P.offset = Start(p)
      BY <2>2 DEF PromptAt
    <3>2. DOMAIN done.prompt = {1} /\ done.prompt[1] = P
      BY <2>2
    <3> QED
      BY <3>1, <3>2
  <2> QED
    BY <1>1, <2>1, <2>2 DEF KeptPrompt
<1>5. \A i \in DOMAIN done.open : \E j \in k..Len(h) : done.open[i].offset = Start(j)
  <2>1. CASE done.open = <<>>
    BY <2>1
  <2>2. ASSUME NEW o \in Opened, d.open = <<o>>, OpenAt(o, h, k), done.open = d.open
        PROVE  \A i \in DOMAIN done.open : \E j \in k..Len(h) : done.open[i].offset = Start(j)
    <3>1. o.offset = Start(o.turn.uuid) /\ o.turn.uuid >= k
      BY <2>2 DEF OpenAt
    <3>2. o.turn.uuid \in 1..Len(h)
      <4>1. RowsOf(h, Arriving(h)) \subseteq 1..Len(h)
        BY RowsOfIs
      <4> QED
        BY <2>2, <4>1 DEF OpenAt
    <3>3. DOMAIN done.open = {1} /\ done.open[1] = o
      BY <2>2
    <3>4. o.turn.uuid \in k..Len(h)
      BY <1>2, <3>1, <3>2
    <3> QED
      BY <3>1, <3>3, <3>4
  <2>3. d.open = <<>> \/ \E o \in Opened : d.open = <<o>> /\ OpenAt(o, h, k)
    BY <1>1 DEF KeptOpen
  <2> QED
    BY <2>1, <2>2, <2>3
<1>6. Awaited(done) \subseteq {Start(j) : j \in k..Len(h)}
  BY <1>3, <1>4, <1>5, ZenonT(40) DEF Awaited
<1>7. ASSUME NEW t \in AskedFrom(h, k), Waits(h, t)
      PROVE  Start(AskedBy(h, t)) \in Awaited(done)
  <2>1. Call(h, t) \in done.tools
    BY <1>1, <1>7 DEF KeptCalls
  <2>2. Call(h, t).offset = Start(AskedBy(h, t))
    BY Zenon DEF Call
  <2>3. Start(AskedBy(h, t)) \in {p.offset : p \in done.tools}
    BY <2>1, <2>2
  <2> QED
    BY <2>3, Zenon DEF Awaited
<1>8. ASSUME NEW o, done.open = <<o>>
      PROVE  o.offset \in Awaited(done)
  <2>1. 1 \in DOMAIN done.open /\ done.open[1] = o
    BY <1>8
  <2>2. o.offset \in {done.open[i].offset : i \in DOMAIN done.open}
    BY <2>1, Zenon
  <2> QED
    BY <2>2, Zenon DEF Awaited
<1> QED
  BY <1>6, <1>7, <1>8


\* A pass from row k up to row m: what it reports is so, and all that began there is in it.
Reports(h, k, m, records) ==
  /\ records \in Seq(Record)
  /\ \A t \in Range(records) : t.what = "turn" =>
       /\ t.req \in Measurable(h) /\ t.uuid \in RowsOf(h, t.req)
       /\ Opening(h, t.req) >= k => Right(h, t)
  /\ \A t \in Range(records) : t.what = "tool" => t \in TimedCalls(h)
  /\ \A r \in Measurable(h) : Opening(h, r) >= k /\ Opening(h, r) < m =>
       \E t \in Range(records) : t.what = "turn" /\ t.req = r
  /\ \A c \in TimedCalls(h) : AskedBy(h, c.tool) >= k => c \in Range(records)

\* A turn is right whether its response was followed by something or the file was finished.
LEMMA TurnsReported ==
  ASSUME NEW h, Orderly(h), NEW k \in Nat \ {0}, NEW d, Pass(d, h, k), NEW out,
         \/ out = Range(d.out)
         \/ \E o \in Opened : d.open = <<o>> /\ out = Range(d.out) \cup {[o.turn EXCEPT !.gen = Absent]}
  PROVE  \A t \in out : t.what = "turn" =>
           /\ t.req \in Measurable(h) /\ t.uuid \in RowsOf(h, t.req)
           /\ Opening(h, t.req) >= k => Right(h, t)
<1>1. KeptOut(Range(d.out), d.open, h, k) /\ KeptOpen(d.open, h, k)
  BY DEF Pass
<1>2. ASSUME NEW t \in Range(d.out), t.what = "turn"
      PROVE  /\ t.req \in Measurable(h) /\ t.uuid \in RowsOf(h, t.req)
             /\ Opening(h, t.req) >= k => Right(h, t)
  <2>1. TurnKept(t, h, k)
    BY <1>1, <1>2 DEF KeptOut
  <2>2. TrueGen(h, t.req) \in {Absent, Span(h, t.req)}
    BY DEF TrueGen
  <2> QED
    BY <2>1, <2>2 DEF TurnKept, BeginsRight, Right
<1>3. ASSUME NEW o \in Opened, d.open = <<o>>, NEW t, t = [o.turn EXCEPT !.gen = Absent]
      PROVE  /\ t.req \in Measurable(h) /\ t.uuid \in RowsOf(h, t.req)
             /\ Opening(h, t.req) >= k => Right(h, t)
  <2>1. OpenAt(o, h, k)
    <3>1. \E u \in Opened : d.open = <<u>> /\ OpenAt(u, h, k)
      BY <1>1, <1>3 DEF KeptOpen
    <3> QED
      BY <1>3, <3>1
  <2>2. o.turn \in TurnRecord
    BY DEF Opened
  <2>3. t.req = o.turn.req /\ t.uuid = o.turn.uuid /\ t.first = o.turn.first /\ t.gen = Absent
    BY <1>3, <2>2 DEF TurnRecord
  <2> QED
    BY <2>1, <2>3 DEF OpenAt, BeginsRight, Right
<1> QED
  BY <1>2, <1>3

\* The pass itself, or finished: the file has been read as far as the offset it gives.
LEMMA PassReports ==
  ASSUME NEW h, Orderly(h), NEW k \in 1..(Len(h) + 1), NEW d, Pass(d, h, k),
         End(h) <= MaxReread, NothingPending(h, k),
         NEW done, Shaped(done), done.tools = d.tools, done.prompt = d.prompt,
         \/ done = d
         \/ /\ done.open = <<>>
            /\ \E o \in Opened : /\ d.open = <<o>>
                                 /\ [o.turn EXCEPT !.gen = Absent] \in TurnRecord
                                 /\ Range(done.out) =
                                      Range(d.out) \cup {[o.turn EXCEPT !.gen = Absent]}
  PROVE  \E m \in k..(Len(h) + 1) : /\ ResumeOffset(done, End(h)) = Start(m)
                                    /\ NothingPending(h, m) /\ Reports(h, k, m, done.out)
<1>1. Len(h) \in Nat /\ k \in Nat \ {0}
  BY Lines
<1>2. /\ Awaited(done) \subseteq {Start(j) : j \in k..Len(h)}
      /\ \A t \in AskedFrom(h, k) : Waits(h, t) => Start(AskedBy(h, t)) \in Awaited(done)
      /\ \A o : done.open = <<o>> => o.offset \in Awaited(done)
  BY <1>1, AwaitedIn
<1>3. PICK m \in k..(Len(h) + 1) : /\ ResumeOffset(done, 2 * Len(h)) = Start(m)
                                   /\ \A o \in Awaited(done) : Start(m) <= o
  <2>1. 2 * Len(h) <= MaxReread
    BY DEF End
  <2> QED
    BY <1>1, <1>2, <2>1, ResumesAtRow
<1>4. m \in Nat
  BY <1>1, <1>3
<1>5. NothingPending(h, m)
  <2>1. SUFFICES ASSUME NEW t \in ToolsIn(h), AskedBy(h, t) < m,
                        \A i \in 1..Len(h) : ~ Answers(h, i, t)
                 PROVE  FALSE
    BY Zenon DEF NothingPending
  <2>2. AskedBy(h, t) \in Nat
    <3>1. AskedBy(h, t) \in Indices(h, "assistant")
      BY <2>1, Asker
    <3> QED
      BY <3>1, Lines
  <2>3. AskedBy(h, t) >= k
    BY <1>1, <2>1, <2>2 DEF NothingPending
  <2>4. t \in AskedFrom(h, k) /\ Waits(h, t)
    BY <2>1, <2>3 DEF AskedFrom, Waits
  <2>5. Start(m) <= Start(AskedBy(h, t))
    BY <1>2, <1>3, <2>4
  <2> QED
    BY <1>4, <2>1, <2>2, <2>5 DEF Start
<1>6. KeptOut(Range(d.out), d.open, h, k) /\ KeptOpen(d.open, h, k)
  BY DEF Pass
<1>7. \/ done = d /\ Range(done.out) = Range(d.out)
      \/ \E o \in Opened : /\ d.open = <<o>> /\ done.open = <<>>
                           /\ [o.turn EXCEPT !.gen = Absent] \in TurnRecord
                           /\ Range(done.out) = Range(d.out) \cup {[o.turn EXCEPT !.gen = Absent]}
  BY Zenon
<1>8. Range(d.out) \subseteq Range(done.out)
  BY <1>7
<1>9. \A t \in Range(done.out) : t.what = "turn" =>
        /\ t.req \in Measurable(h) /\ t.uuid \in RowsOf(h, t.req)
        /\ Opening(h, t.req) >= k => Right(h, t)
  <2>1. \/ Range(done.out) = Range(d.out)
        \/ \E o \in Opened : /\ d.open = <<o>>
                             /\ Range(done.out) = Range(d.out) \cup {[o.turn EXCEPT !.gen = Absent]}
    BY <1>7, Zenon
  <2> QED
    BY <1>1, <2>1, TurnsReported
<1>10. \A t \in Range(done.out) : t.what = "tool" => t \in TimedCalls(h)
  <2>1. \A o \in Opened : [o.turn EXCEPT !.gen = Absent] \in TurnRecord =>
                            [o.turn EXCEPT !.gen = Absent].what # "tool"
    BY DEF TurnRecord
  <2>2. \A t \in Range(d.out) : t.what = "tool" => t \in TimedCalls(h)
    BY <1>6 DEF KeptOut
  <2> QED
    BY <1>7, <2>1, <2>2
<1>11. ASSUME NEW r \in Measurable(h), Opening(h, r) >= k, Opening(h, r) < m
       PROVE  \E t \in Range(done.out) : t.what = "turn" /\ t.req = r
  <2>1. CASE \E t \in Range(d.out) : t.what = "turn" /\ t.req = r
    BY <1>8, <2>1
  <2>2. ASSUME NEW o, d.open = <<o>>, o.turn.req = r
        PROVE  \E t \in Range(done.out) : t.what = "turn" /\ t.req = r
    <3>1. o \in Opened /\ OpenAt(o, h, k)
      <4>1. \E u \in Opened : d.open = <<u>> /\ OpenAt(u, h, k)
        BY <1>6, <2>2 DEF KeptOpen
      <4> QED
        BY <2>2, <4>1
    <3>2. CASE done = d
      <4>1. o.offset \in Awaited(done)
        BY <1>2, <2>2, <3>2
      <4>2. o.offset = Start(Opening(h, r))
        BY <1>11, <2>2, <3>1 DEF OpenAt, BeginsRight
      <4>3. Opening(h, r) \in Nat
        <5>1. r \in RequestsIn(h)
          BY Real
        <5>2. Opening(h, r) \in RowsOf(h, r) /\ RowsOf(h, r) \subseteq 1..Len(h)
          BY <5>1, RowsOfIs
        <5> QED
          BY <1>1, <5>2
      <4>4. Start(m) <= Start(Opening(h, r))
        BY <1>3, <4>1, <4>2
      <4> QED
        BY <1>4, <1>11, <4>3, <4>4 DEF Start
    <3>3. CASE /\ [o.turn EXCEPT !.gen = Absent] \in TurnRecord
               /\ [o.turn EXCEPT !.gen = Absent] \in Range(done.out)
      <4>1. o.turn \in TurnRecord
        BY <3>1 DEF Opened
      <4>2. /\ [o.turn EXCEPT !.gen = Absent].what = "turn"
            /\ [o.turn EXCEPT !.gen = Absent].req = r
        BY <2>2, <4>1 DEF TurnRecord
      <4> QED
        BY <3>3, <4>2
    <3>4. \/ done = d
          \/ /\ [o.turn EXCEPT !.gen = Absent] \in TurnRecord
             /\ [o.turn EXCEPT !.gen = Absent] \in Range(done.out)
      <4>1. \A u : d.open = <<u>> => u = o
        BY <2>2
      <4> QED
        BY <1>7, <4>1
    <3> QED
      BY <3>2, <3>3, <3>4
  <2> QED
    BY <1>6, <1>11, <2>1, <2>2 DEF KeptOut
<1>12. \A c \in TimedCalls(h) : AskedBy(h, c.tool) >= k => c \in Range(done.out)
  BY <1>6, <1>8 DEF KeptOut
<1>13. done.out \in Seq(Record)
  BY DEF Shaped
<1>14. Reports(h, k, m, done.out)
  BY <1>9, <1>10, <1>11, <1>12, <1>13, Zenon DEF Reports
<1>15. ResumeOffset(done, End(h)) = Start(m)
  BY <1>3 DEF End
<1> QED
  BY <1>3, <1>5, <1>14, <1>15


\* A pass over the file as it stands, from a row before which nothing was pending.
LEMMA ImportReports ==
  ASSUME NEW h, Orderly(h), FedWell(h), End(h) <= MaxReread,
         NEW k \in 1..(Len(h) + 1), NothingPending(h, k), NEW fragment, NEW settled
  PROVE  \E m \in k..(Len(h) + 1) :
           /\ Import(h, fragment, Start(k), settled).offset = Start(m)
           /\ NothingPending(h, m)
           /\ Reports(h, k, m, Import(h, fragment, Start(k), settled).records)
<1>1. Len(h) \in Nat /\ k \in Nat \ {0} /\ k - 1 <= Len(h)
  BY Lines
<1> DEFINE length == End(h) + (IF fragment THEN 1 ELSE 0)
           d == Fed(h, Start(k))
           done == IF settled /\ ~fragment THEN Finish(d) ELSE d
<1>2. StartOffset(Start(k), length) = Start(k)
  <2>1. Start(k) <= End(h)
    BY <1>1 DEF Start, End
  <2>2. length = End(h) + 0 \/ length = End(h) + 1
    BY Zenon
  <2>3. Start(k) \in Int /\ End(h) \in Int
    BY <1>1 DEF Start, End
  <2> HIDE DEF length
  <2>4. ~ (Start(k) > length)
    BY <2>1, <2>2, <2>3
  <2> QED
    BY <2>4 DEF StartOffset
<1>3. /\ Import(h, fragment, Start(k), settled).records = done.out
      /\ Import(h, fragment, Start(k), settled).offset = ResumeOffset(done, End(h))
  <2>1. Import(h, fragment, Start(k), settled) =
          [records |-> done.out, offset |-> ResumeOffset(done, End(h))]
    BY <1>2, Zenon DEF Import
  <2> HIDE DEF done
  <2> QED
    BY <2>1
<1>4. Pass(d, h, k)
  BY <1>1 DEF FedWell
<1> HIDE DEF d
<1>5. Shaped(d)
  BY <1>4 DEF Pass
<1>6. CASE done = d
  <2>1. \E m \in k..(Len(h) + 1) : /\ ResumeOffset(d, End(h)) = Start(m)
                                   /\ NothingPending(h, m) /\ Reports(h, k, m, d.out)
    BY <1>4, <1>5, PassReports
  <2> HIDE DEF done
  <2> QED
    BY <1>3, <1>6, <2>1
<1>7. CASE done = Finish(d)
  <2>1. CASE d.open = <<>>
    <3>1. Finish(d) = d
      BY <2>1, Zenon DEF Finish, CloseTurn
    <3> QED
      BY <1>6, <1>7, <3>1
  <2>2. ASSUME NEW o \in Opened, d.open = <<o>>
        PROVE  \E m \in k..(Len(h) + 1) :
                 /\ Import(h, fragment, Start(k), settled).offset = Start(m)
                 /\ NothingPending(h, m)
                 /\ Reports(h, k, m, Import(h, fragment, Start(k), settled).records)
    <3>1. /\ Shaped(Finish(d)) /\ Changed(d, Finish(d), {"out", "open"}) /\ Finish(d).open = <<>>
          /\ [o.turn EXCEPT !.gen = Absent] \in TurnRecord
          /\ Range(Finish(d).out) = Range(d.out) \cup {[o.turn EXCEPT !.gen = Absent]}
      BY <1>5, <2>2, Finished
    <3>2. Finish(d).tools = d.tools /\ Finish(d).prompt = d.prompt
      BY <3>1 DEF Changed, Fields
    <3>3. \E u \in Opened : /\ d.open = <<u>>
                            /\ [u.turn EXCEPT !.gen = Absent] \in TurnRecord
                            /\ Range(Finish(d).out) =
                                 Range(d.out) \cup {[u.turn EXCEPT !.gen = Absent]}
      BY <2>2, <3>1
    <3>4. \E m \in k..(Len(h) + 1) : /\ ResumeOffset(Finish(d), End(h)) = Start(m)
                                     /\ NothingPending(h, m) /\ Reports(h, k, m, Finish(d).out)
      BY <1>4, <3>1, <3>2, <3>3, PassReports
    <3> HIDE DEF done
    <3> QED
      BY <1>3, <1>7, <3>4
  <2> QED
    BY <1>5, <2>1, <2>2 DEF Shaped
<1> QED
  BY <1>6, <1>7


-----------------------------------------------------------------------------
(* What reading a finished transcript measures                             *)

\* The one turn of a real request.
TrueTurn(h, r) ==
  [what |-> "turn", uuid |-> Opening(h, r), req |-> r, ts |-> h[Opening(h, r)].ts,
   first |-> TrueFirst(h, r), gen |-> IF Proven(h, r) THEN TrueGen(h, r) ELSE Absent]

\* A closed turn is that one, and so is the one a finished pass closes.
LEMMA ClosedIsTrue ==
  ASSUME NEW h, Orderly(h), NEW t, TurnKept(t, h, 1)
  PROVE  t = TrueTurn(h, t.req) /\ t.req \in Measurable(h)
<1>1. /\ t \in TurnRecord /\ t.req \in Measurable(h) /\ t.uuid \in RowsOf(h, t.req)
      /\ Opening(h, t.req) >= 1 =>
           BeginsRight(t, h, 1) /\ Proven(h, t.req) /\ t.gen = TrueGen(h, t.req)
  BY DEF TurnKept
<1>2. Opening(h, t.req) >= 1
  <2>1. Opening(h, t.req) \in RowsOf(h, t.req) /\ RowsOf(h, t.req) \subseteq 1..Len(h)
    BY <1>1, Real, RowsOfIs
  <2> QED
    BY <2>1
<1>3. t.what = "turn" /\ t = [what |-> t.what, uuid |-> t.uuid, req |-> t.req, ts |-> t.ts,
                              first |-> t.first, gen |-> t.gen]
  BY <1>1 DEF TurnRecord
<1>4. /\ t.uuid = Opening(h, t.req) /\ t.ts = h[Opening(h, t.req)].ts
      /\ t.first = TrueFirst(h, t.req)
      /\ t.gen = IF Proven(h, t.req) THEN TrueGen(h, t.req) ELSE Absent
  BY <1>1, <1>2 DEF BeginsRight
<1> QED
  BY <1>1, <1>3, <1>4 DEF TrueTurn

LEMMA OpenIsTrue ==
  ASSUME NEW h, Orderly(h), NEW o \in Opened, OpenAt(o, h, 1),
         NEW t, t = [o.turn EXCEPT !.gen = Absent]
  PROVE  t = TrueTurn(h, t.req) /\ t.req = o.turn.req /\ t.req \in Measurable(h)
<1>1. o.turn \in TurnRecord
  BY DEF Opened
<1>2. /\ t.what = "turn" /\ t.req = o.turn.req /\ t.uuid = o.turn.uuid /\ t.ts = o.turn.ts
      /\ t.first = o.turn.first /\ t.gen = Absent
      /\ t = [what |-> t.what, uuid |-> t.uuid, req |-> t.req, ts |-> t.ts,
              first |-> t.first, gen |-> t.gen]
  BY <1>1 DEF TurnRecord
<1>3. t.req = Arriving(h) /\ Arriving(h) \in Measurable(h)
  BY <1>2 DEF OpenAt
<1>4. Opening(h, t.req) >= 1
  <2>1. Opening(h, t.req) \in RowsOf(h, t.req) /\ RowsOf(h, t.req) \subseteq 1..Len(h)
    BY <1>3, Real, RowsOfIs
  <2> QED
    BY <2>1
<1>5. BeginsRight(o.turn, h, 1)
  BY <1>3, <1>4 DEF OpenAt
<1>6. /\ t.uuid = Opening(h, t.req) /\ t.ts = h[Opening(h, t.req)].ts
      /\ t.first = TrueFirst(h, t.req)
  BY <1>2, <1>5 DEF BeginsRight
<1>7. ~ Proven(h, t.req)
  BY <1>3 DEF Proven
<1> QED
  BY <1>2, <1>3, <1>6, <1>7 DEF TrueTurn

\* A pass over the whole file, finished.
LEMMA WholeIs ==
  ASSUME NEW h, Orderly(h), FedWell(h),
         NEW records, records = Import(h, FALSE, 0, TRUE).records
  PROVE  /\ \A t \in Range(records) : t.what = "turn" =>
              t = TrueTurn(h, t.req) /\ t.req \in Measurable(h)
         /\ \A r \in Measurable(h) : \E t \in Range(records) : t.what = "turn" /\ t.req = r
         /\ \A c \in Range(records) : c.what = "tool" => c \in TimedCalls(h)
         /\ TimedCalls(h) \subseteq Range(records)
<1>1. Len(h) \in Nat
  BY Lines
<1> DEFINE d == Fed(h, Start(1))
<1>2. Pass(d, h, 1)
  BY DEF FedWell
<1>3. records = Finish(d).out
  <2>1. StartOffset(0, End(h) + 0) = Start(1)
    BY <1>1 DEF StartOffset, End, Start
  <2> DEFINE done == Finish(d)
             imported == Import(h, FALSE, 0, TRUE)
  <2>2. imported = [records |-> done.out, offset |-> ResumeOffset(done, End(h))]
    BY <2>1, Zenon DEF Import
  <2>3. records = imported.records
    BY Zenon
  <2> HIDE DEF done, imported
  <2>4. imported.records = done.out
    BY ONLY <2>2
  <2>5. records = done.out
    BY ONLY <2>3, <2>4
  <2> QED
    BY <2>5, Zenon DEF done
<1> HIDE DEF d
<1>4. Shaped(d) /\ KeptOut(Range(d.out), d.open, h, 1) /\ KeptOpen(d.open, h, 1)
  BY <1>2 DEF Pass
<1>5. \A t \in Range(d.out) : t.what = "turn" => t = TrueTurn(h, t.req) /\ t.req \in Measurable(h)
  BY <1>4, ClosedIsTrue, Zenon DEF KeptOut
<1>6. /\ \A c \in Range(d.out) : c.what = "tool" => c \in TimedCalls(h)
      /\ \A c \in TimedCalls(h) : AskedBy(h, c.tool) >= 1 => c \in Range(d.out)
      /\ \A r \in Measurable(h) : Opening(h, r) >= 1 =>
           \/ \E t \in Range(d.out) : t.what = "turn" /\ t.req = r
           \/ \E o : d.open = <<o>> /\ o.turn.req = r
  BY <1>4, Zenon DEF KeptOut
<1>7. \A r \in Measurable(h) : Opening(h, r) >= 1
  <2>1. SUFFICES ASSUME NEW r \in Measurable(h) PROVE Opening(h, r) >= 1
    OBVIOUS
  <2>2. Opening(h, r) \in RowsOf(h, r) /\ RowsOf(h, r) \subseteq 1..Len(h)
    BY Real, RowsOfIs
  <2> QED
    BY <2>2
<1>8. \A c \in TimedCalls(h) : c \in Range(d.out)
  <2>1. SUFFICES ASSUME NEW c \in TimedCalls(h) PROVE c \in Range(d.out)
    OBVIOUS
  <2>2. AskedBy(h, c.tool) \in 1..(c.uuid - 1)
    BY TimedFields
  <2> QED
    BY <1>6, <2>2
<1>9. CASE d.open = <<>>
  <2>1. records = d.out
    BY <1>3, <1>9, Zenon DEF Finish, CloseTurn
  <2>2. \A o : d.open # <<o>>
    BY <1>9
  <2> QED
    BY <1>5, <1>6, <1>7, <1>8, <2>1, <2>2, Zenon
<1>10. ASSUME NEW o \in Opened, d.open = <<o>>, OpenAt(o, h, 1)
       PROVE  /\ \A t \in Range(records) : t.what = "turn" =>
                   t = TrueTurn(h, t.req) /\ t.req \in Measurable(h)
              /\ \A r \in Measurable(h) : \E t \in Range(records) : t.what = "turn" /\ t.req = r
              /\ \A c \in Range(records) : c.what = "tool" => c \in TimedCalls(h)
              /\ TimedCalls(h) \subseteq Range(records)
  <2> DEFINE last == [o.turn EXCEPT !.gen = Absent]
  <2>1. last \in TurnRecord /\ Range(records) = Range(d.out) \cup {last}
    BY <1>3, <1>4, <1>10, Finished
  <2>2. last = TrueTurn(h, last.req) /\ last.req = o.turn.req /\ last.req \in Measurable(h)
    BY <1>10, OpenIsTrue
  <2>3. last.what = "turn"
    BY <2>1 DEF TurnRecord
  <2> HIDE DEF last
  <2>4. \A u : d.open = <<u>> => u = o
    BY <1>10
  <2>5. \A t \in Range(records) : t \in Range(d.out) \/ t = last
    BY <2>1
  <2>6. \A t \in Range(d.out) : t \in Range(records)
    BY <2>1
  <2>7. last \in Range(records)
    BY <2>1
  <2>8. \A r \in Measurable(h) : \E t \in Range(records) : t.what = "turn" /\ t.req = r
    BY <1>6, <1>7, <2>2, <2>3, <2>4, <2>6, <2>7, Zenon
  <2>9. \A c \in Range(records) : c.what = "tool" => c \in TimedCalls(h)
    BY <1>6, <2>3, <2>5
  <2>10. \A t \in Range(records) : t.what = "turn" =>
           t = TrueTurn(h, t.req) /\ t.req \in Measurable(h)
    BY <1>5, <2>2, <2>5, Zenon
  <2> QED
    BY <1>8, <2>6, <2>8, <2>9, <2>10
<1> QED
  BY <1>4, <1>9, <1>10, Zenon DEF KeptOpen

\* The measurements of the file as it stands are the true ones.
Growth == Orderly(rows) /\ (Calm(rows) => FedWell(rows))

LEMMA GrowthBegins == Empty => Growth
  BY OrderlyNothing, FedNothing DEF Empty, Growth

LEMMA GrowthGoesOn == Growth /\ [Grow]_rows => Growth'
<1> SUFFICES ASSUME Growth, [Grow]_rows
             PROVE  Growth'
  OBVIOUS
<1>1. CASE Write
  <2>1. PICK row \in NextRows(rows) : rows' = Append(rows, row)
    BY <1>1 DEF Write
  <2>2. Orderly(rows) /\ Len(rows) < MaxRows /\ NewRow(rows, row)
    BY <1>1, NextRow DEF Growth, Write
  <2>3. row \in Row
    BY <2>2, NewTyped
  <2>4. Grows(rows, row, rows', Len(rows) + 1)
    BY <2>1, <2>2, <2>3, Zenon DEF Grows
  <2>5. Orderly(rows')
    BY <2>4, StaysOrderly
  <2>6. Calm(rows') => FedWell(rows')
    <3>1. SUFFICES ASSUME Calm(rows')
                   PROVE  FedWell(rows')
      OBVIOUS
    <3>2. FedWell(rows)
      BY <2>4, <3>1, CalmBefore DEF Growth
    <3> QED
      BY <2>4, <3>1, <3>2, FedGrows, Zenon
  <2> QED
    BY <2>5, <2>6, Zenon DEF Growth
<1>2. CASE UNCHANGED rows
  BY <1>2, Zenon DEF Growth
<1> QED
  BY <1>1, <1>2 DEF Grow, Full

LEMMA GrowthMeasures == Growth => MeasuresTruth
<1> SUFFICES ASSUME Growth, Calm(rows)
             PROVE  Kept(Whole, "turn") = Turns(rows) /\ Kept(Whole, "tool") = TimedCalls(rows)
  BY DEF MeasuresTruth
<1>1. Orderly(rows) /\ FedWell(rows)
  BY DEF Growth
<1>2. /\ \A t \in Whole : t.what = "turn" =>
           t = TrueTurn(rows, t.req) /\ t.req \in Measurable(rows)
      /\ \A r \in Measurable(rows) : \E t \in Whole : t.what = "turn" /\ t.req = r
      /\ \A c \in Whole : c.what = "tool" => c \in TimedCalls(rows)
      /\ TimedCalls(rows) \subseteq Whole
  BY <1>1, WholeIs DEF Whole
<1>3. \A c \in TimedCalls(rows) : c.what = "tool"
  BY <1>1, TimedFields
<1>4. Kept(Whole, "tool") = TimedCalls(rows)
  BY <1>2, <1>3 DEF Kept
<1>5. Turns(rows) = {TrueTurn(rows, r) : r \in Measurable(rows)}
  BY Zenon DEF Turns, TrueTurn
<1>6. ASSUME NEW t \in Kept(Whole, "turn")
      PROVE  t \in Turns(rows)
  <2>1. t \in Whole /\ t.what = "turn"
    BY <1>6 DEF Kept
  <2> QED
    BY <1>2, <1>5, <2>1
<1>7. ASSUME NEW r \in Measurable(rows)
      PROVE  TrueTurn(rows, r) \in Kept(Whole, "turn")
  <2>1. PICK t \in Whole : t.what = "turn" /\ t.req = r
    BY <1>2
  <2>2. t = TrueTurn(rows, r)
    BY <1>2, <2>1
  <2> QED
    BY <2>1, <2>2 DEF Kept
<1> QED
  BY <1>4, <1>5, <1>6, <1>7

-----------------------------------------------------------------------------
(* A pass cut short, and the one that resumes it                           *)

\* What a pass that would have the next one begin at row m has put out, in a file that may
\* have grown since: all that began before that row, and nothing untrue.
Saved(h, m, pass) ==
  /\ pass.offset = Start(m) /\ NothingPending(h, m)
  /\ pass.records \in Seq(Record)
  /\ \A t \in Range(pass.records) : t.what = "turn" => TurnKept(t, h, 1)
  /\ \A t \in Range(pass.records) : t.what = "tool" => t \in TimedCalls(h)
  /\ \A r \in Measurable(h) : Opening(h, r) < m =>
       \E t \in Range(pass.records) : t.what = "turn" /\ t.req = r
  /\ \A c \in TimedCalls(h) : AskedBy(h, c.tool) < m => c \in Range(pass.records)

LEMMA SavedStays ==
  ASSUME NEW h, NEW row, NEW g, NEW n, Grows(h, row, g, n), NEW m \in 1..n,
         NEW pass, Saved(h, m, pass)
  PROVE  Saved(g, m, pass)
<1>1. Orderly(h) /\ Orderly(g)
  BY StaysOrderly DEF Grows
<1>2. n \in Nat /\ m \in Nat
  BY Grown
<1>3. /\ pass.offset = Start(m) /\ NothingPending(h, m) /\ pass.records \in Seq(Record)
      /\ \A t \in Range(pass.records) : t.what = "turn" => TurnKept(t, h, 1)
      /\ \A t \in Range(pass.records) : t.what = "tool" => t \in TimedCalls(h)
      /\ \A r \in Measurable(h) : Opening(h, r) < m =>
           \E t \in Range(pass.records) : t.what = "turn" /\ t.req = r
      /\ \A c \in TimedCalls(h) : AskedBy(h, c.tool) < m => c \in Range(pass.records)
  BY Zenon DEF Saved
<1>4. NothingPending(g, m)
  BY <1>3, StaysAnswered
<1>5. \A t \in Range(pass.records) : t.what = "turn" => TurnKept(t, g, 1)
  BY <1>3, StaysKept
<1>6. \A t \in Range(pass.records) : t.what = "tool" => t \in TimedCalls(g)
  BY <1>3, GrownTimed
<1>7. ASSUME NEW r \in Measurable(g), Opening(g, r) < m
      PROVE  \E t \in Range(pass.records) : t.what = "turn" /\ t.req = r
  <2>1. CASE r \in RequestsIn(h)
    <3>1. r \in Measurable(h)
      BY <1>7, <2>1, GrownRequests
    <3>2. Opening(g, r) = Opening(h, r)
      BY <2>1, GrownOpening
    <3> QED
      BY <1>3, <1>7, <3>1, <3>2
  <2>2. CASE r \notin RequestsIn(h)
    <3>1. r \notin Measurable(h)
      BY <1>1, <2>2, Real
    <3>2. row.kind = "assistant" /\ r = row.req
      BY <1>7, <3>1, GrownRequests
    <3>3. Opening(g, r) = n
      BY <2>2, <3>2, GrownOpening
    <3> QED
      BY <1>2, <1>7, <3>3
  <2> QED
    BY <2>1, <2>2
<1>8. ASSUME NEW c \in TimedCalls(g), AskedBy(g, c.tool) < m
      PROVE  c \in Range(pass.records)
  <2>1. CASE c \in TimedCalls(h)
    <3>1. AskedBy(g, c.tool) = AskedBy(h, c.tool)
      BY <1>1, <2>1, TimedFields, GrownAsker
    <3> QED
      BY <1>3, <1>8, <2>1, <3>1
  <2>2. CASE c \notin TimedCalls(h)
    <3>1. c.uuid = n /\ c.tool \in ToolsIn(g) /\ Answers(g, n, c.tool)
      BY <1>1, <1>8, <2>2, GrownTimed, TimedFields
    <3>2. row.kind = "result"
      BY <3>1, GrownAnswers
    <3>3. c.tool \in Unanswered(h) /\ c.tool \in ToolsIn(h)
      BY <3>1, <3>2, GrownAnswers
    <3>4. AskedBy(h, c.tool) < m
      <4>1. AskedBy(g, c.tool) = AskedBy(h, c.tool)
        BY <3>3, GrownAsker
      <4> QED
        BY <1>8, <4>1
    <3>5. \E i \in 1..Len(h) : Answers(h, i, c.tool)
      BY <1>3, <3>3, <3>4 DEF NothingPending
    <3>6. DOMAIN h = 1..Len(h)
      BY <1>1, Lines
    <3> QED
      BY <3>3, <3>5, <3>6 DEF Unanswered
  <2> QED
    BY <2>1, <2>2
<1> QED
  BY <1>3, <1>4, <1>5, <1>6, <1>7, <1>8, Zenon DEF Saved

\* A pass from the beginning of the file that is left unfinished.
LEMMA UnfinishedIs ==
  ASSUME NEW h, Orderly(h)
  PROVE  /\ Import(h, FALSE, 0, FALSE).records = Fed(h, Start(1)).out
         /\ Import(h, FALSE, 0, FALSE).offset = ResumeOffset(Fed(h, Start(1)), End(h))
<1>1. Len(h) \in Nat
  BY Lines
<1>2. StartOffset(0, End(h) + 0) = Start(1)
  BY <1>1 DEF StartOffset, End, Start
<1> DEFINE d == Fed(h, Start(1))
<1>3. Import(h, FALSE, 0, FALSE) = [records |-> d.out, offset |-> ResumeOffset(d, End(h))]
  BY <1>2, Zenon DEF Import
<1> DEFINE pass == Import(h, FALSE, 0, FALSE)
<1> HIDE DEF d, pass
<1>4. pass = [records |-> d.out, offset |-> ResumeOffset(d, End(h))]
  BY <1>3, Zenon DEF pass
<1>5. pass.records = d.out /\ pass.offset = ResumeOffset(d, End(h))
  BY ONLY <1>4
<1> QED
  BY <1>5, Zenon DEF d, pass

LEMMA SavedNow ==
  ASSUME NEW h, Orderly(h), FedWell(h), End(h) <= MaxReread
  PROVE  \E m \in 1..(Len(h) + 1) : Saved(h, m, Import(h, FALSE, 0, FALSE))
<1> DEFINE d == Fed(h, Start(1))
           pass == Import(h, FALSE, 0, FALSE)
<1>1. Len(h) \in Nat /\ 1 \in 1..(Len(h) + 1) /\ 1 \in Nat \ {0}
  BY Lines
<1>2. pass.records = d.out /\ pass.offset = ResumeOffset(d, End(h))
  BY UnfinishedIs
<1>3. Pass(d, h, 1)
  BY <1>1 DEF FedWell
<1> HIDE DEF d, pass
<1>4. Shaped(d) /\ KeptOut(Range(d.out), d.open, h, 1)
  BY <1>3 DEF Pass
<1>5. NothingPending(h, 1)
  <2>1. \A t \in ToolsIn(h) : AskedBy(h, t) \in 1..Len(h)
    BY Asker, Lines
  <2> QED
    BY <1>1, <2>1 DEF NothingPending
<1>6. PICK m \in 1..(Len(h) + 1) : /\ ResumeOffset(d, End(h)) = Start(m)
                                   /\ NothingPending(h, m) /\ Reports(h, 1, m, d.out)
  BY <1>1, <1>3, <1>4, <1>5, PassReports
<1>7. \A r \in Measurable(h) : Opening(h, r) >= 1
  <2> SUFFICES ASSUME NEW r \in Measurable(h)
               PROVE  Opening(h, r) >= 1
    OBVIOUS
  <2>1. Opening(h, r) \in RowsOf(h, r) /\ RowsOf(h, r) \subseteq 1..Len(h)
    BY Real, RowsOfIs
  <2> QED
    BY <2>1
<1>8. \A c \in TimedCalls(h) : AskedBy(h, c.tool) >= 1
  <2> SUFFICES ASSUME NEW c \in TimedCalls(h)
               PROVE  AskedBy(h, c.tool) >= 1
    OBVIOUS
  <2>1. AskedBy(h, c.tool) \in 1..(c.uuid - 1)
    BY TimedFields
  <2> QED
    BY <2>1
<1>9. \A t \in Range(d.out) : t.what = "turn" => TurnKept(t, h, 1)
  BY <1>4 DEF KeptOut
<1>10. /\ d.out \in Seq(Record)
       /\ \A t \in Range(d.out) : t.what = "tool" => t \in TimedCalls(h)
       /\ \A r \in Measurable(h) : Opening(h, r) < m =>
            \E t \in Range(d.out) : t.what = "turn" /\ t.req = r
       /\ \A c \in TimedCalls(h) : c \in Range(d.out)
  BY <1>6, <1>7, <1>8, Zenon DEF Reports
<1>11. Saved(h, m, pass)
  BY <1>2, <1>6, <1>9, <1>10, Zenon DEF Saved
<1> QED
  BY <1>11 DEF pass

\* The turn of a request but for the wait before it, which may have been lost.
Like(h, t) ==
  /\ t \in TurnRecord
  /\ t.uuid = Opening(h, t.req) /\ t.ts = h[Opening(h, t.req)].ts
  /\ t.gen = IF Proven(h, t.req) THEN TrueGen(h, t.req) ELSE Absent
  /\ t.first \in {Absent, TrueFirst(h, t.req)}

\* What a pass that began at row k has put out by the end of the finished file.
Rest(h, k, records) ==
  /\ records \in Seq(Record)
  /\ \A t \in Range(records) : t.what = "turn" =>
       t.req \in Measurable(h) /\ (Opening(h, t.req) >= k => Like(h, t))
  /\ \A t \in Range(records) : t.what = "tool" => t \in TimedCalls(h)
  /\ \A r \in Measurable(h) : Opening(h, r) >= k =>
       \E t \in Range(records) : t.what = "turn" /\ t.req = r
  /\ \A c \in TimedCalls(h) : AskedBy(h, c.tool) >= k => c \in Range(records)

LEMMA KeptIsLike ==
  ASSUME NEW h, NEW k, NEW t, TurnKept(t, h, k), Opening(h, t.req) >= k
  PROVE  Like(h, t)
<1>1. t \in TurnRecord /\ BeginsRight(t, h, k) /\ Proven(h, t.req) /\ t.gen = TrueGen(h, t.req)
  BY DEF TurnKept
<1>2. /\ t.uuid = Opening(h, t.req) /\ t.ts = h[Opening(h, t.req)].ts
      /\ t.first \in {Absent, TrueFirst(h, t.req)}
  BY <1>1 DEF BeginsRight
<1> QED
  BY <1>1, <1>2, Zenon DEF Like

LEMMA OpenIsLike ==
  ASSUME NEW h, NEW k, NEW o \in Opened, OpenAt(o, h, k),
         NEW t, t = [o.turn EXCEPT !.gen = Absent], t \in TurnRecord
  PROVE  /\ t.req = o.turn.req /\ t.req \in Measurable(h)
         /\ Opening(h, t.req) >= k => Like(h, t)
<1>1. o.turn \in TurnRecord
  BY DEF Opened
<1>2. /\ t.req = o.turn.req /\ t.uuid = o.turn.uuid /\ t.ts = o.turn.ts
      /\ t.first = o.turn.first /\ t.gen = Absent
  BY <1>1 DEF TurnRecord
<1>3. t.req = Arriving(h) /\ Arriving(h) \in Measurable(h)
  BY <1>2 DEF OpenAt
<1>4. ASSUME Opening(h, t.req) >= k
      PROVE  Like(h, t)
  <2>1. BeginsRight(o.turn, h, k)
    BY <1>3, <1>4 DEF OpenAt
  <2>2. /\ t.uuid = Opening(h, t.req) /\ t.ts = h[Opening(h, t.req)].ts
        /\ t.first \in {Absent, TrueFirst(h, t.req)}
    BY <1>2, <2>1 DEF BeginsRight
  <2>3. ~ Proven(h, t.req)
    BY <1>3 DEF Proven
  <2> QED
    BY <1>2, <2>2, <2>3, Zenon DEF Like
<1> QED
  BY <1>2, <1>3, <1>4

LEMMA RestIs ==
  ASSUME NEW h, Orderly(h), FedWell(h), NEW k \in 1..(Len(h) + 1),
         NEW records, records = Import(h, FALSE, Start(k), TRUE).records
  PROVE  Rest(h, k, records)
<1>1. Len(h) \in Nat /\ k \in Nat \ {0} /\ k - 1 <= Len(h)
  BY Lines
<1> DEFINE d == Fed(h, Start(k))
<1>2. Pass(d, h, k)
  BY <1>1 DEF FedWell
<1>3. records = Finish(d).out
  <2>1. StartOffset(Start(k), End(h) + 0) = Start(k)
    BY <1>1 DEF StartOffset, End, Start
  <2> DEFINE done == Finish(d)
             imported == Import(h, FALSE, Start(k), TRUE)
  <2>2. imported = [records |-> done.out, offset |-> ResumeOffset(done, End(h))]
    BY <2>1, Zenon DEF Import
  <2>3. records = imported.records
    BY Zenon
  <2> HIDE DEF done, imported
  <2>4. imported.records = done.out
    BY ONLY <2>2
  <2>5. records = done.out
    BY ONLY <2>3, <2>4
  <2> QED
    BY <2>5, Zenon DEF done
<1> HIDE DEF d
<1>4. Shaped(d) /\ KeptOut(Range(d.out), d.open, h, k) /\ KeptOpen(d.open, h, k)
  BY <1>2 DEF Pass
<1>5. \A t \in Range(d.out) : t.what = "turn" =>
        t.req \in Measurable(h) /\ (Opening(h, t.req) >= k => Like(h, t))
  <2> SUFFICES ASSUME NEW t \in Range(d.out), t.what = "turn"
               PROVE  t.req \in Measurable(h) /\ (Opening(h, t.req) >= k => Like(h, t))
    OBVIOUS
  <2>1. TurnKept(t, h, k)
    BY <1>4 DEF KeptOut
  <2>2. t.req \in Measurable(h)
    BY <2>1 DEF TurnKept
  <2> QED
    BY <2>1, <2>2, KeptIsLike
<1>6. /\ \A c \in Range(d.out) : c.what = "tool" => c \in TimedCalls(h)
      /\ \A c \in TimedCalls(h) : AskedBy(h, c.tool) >= k => c \in Range(d.out)
      /\ \A r \in Measurable(h) : Opening(h, r) >= k =>
           \/ \E t \in Range(d.out) : t.what = "turn" /\ t.req = r
           \/ \E o : d.open = <<o>> /\ o.turn.req = r
  BY <1>4, Zenon DEF KeptOut
<1>7. CASE d.open = <<>>
  <2>1. records = d.out
    BY <1>3, <1>7, Zenon DEF Finish, CloseTurn
  <2>2. \A o : d.open # <<o>>
    BY <1>7
  <2>3. d.out \in Seq(Record)
    BY <1>4 DEF Shaped
  <2> QED
    BY <1>5, <1>6, <2>1, <2>2, <2>3, Zenon DEF Rest
<1>8. ASSUME NEW o \in Opened, d.open = <<o>>, OpenAt(o, h, k)
      PROVE  Rest(h, k, records)
  <2> DEFINE last == [o.turn EXCEPT !.gen = Absent]
  <2>1. last \in TurnRecord /\ Range(records) = Range(d.out) \cup {last} /\ Shaped(Finish(d))
    BY <1>3, <1>4, <1>8, Finished
  <2>2. /\ last.req = o.turn.req /\ last.req \in Measurable(h)
        /\ Opening(h, last.req) >= k => Like(h, last)
    BY <1>8, <2>1, OpenIsLike
  <2>3. last.what = "turn"
    BY <2>1 DEF TurnRecord
  <2>4. records \in Seq(Record)
    BY <1>3, <2>1 DEF Shaped
  <2> HIDE DEF last
  <2>5. \A u : d.open = <<u>> => u = o
    BY <1>8
  <2>6. \A t \in Range(records) : t \in Range(d.out) \/ t = last
    BY <2>1
  <2>7. \A t \in Range(d.out) : t \in Range(records)
    BY <2>1
  <2>8. last \in Range(records)
    BY <2>1
  <2>9. \A r \in Measurable(h) : Opening(h, r) >= k =>
          \E t \in Range(records) : t.what = "turn" /\ t.req = r
    BY <1>6, <2>2, <2>3, <2>5, <2>7, <2>8, Zenon
  <2>10. \A c \in Range(records) : c.what = "tool" => c \in TimedCalls(h)
    BY <1>6, <2>3, <2>6
  <2>11. \A t \in Range(records) : t.what = "turn" =>
           t.req \in Measurable(h) /\ (Opening(h, t.req) >= k => Like(h, t))
    BY <1>5, <2>2, <2>6, Zenon
  <2>12. \A c \in TimedCalls(h) : AskedBy(h, c.tool) >= k => c \in Range(records)
    BY <1>6, <2>7
  <2> QED
    BY <2>4, <2>9, <2>10, <2>11, <2>12, Zenon DEF Rest
<1> QED
  BY <1>4, <1>7, <1>8, Zenon DEF KeptOpen

\* A row answers one call.
LEMMA OneAnswer ==
  ASSUME NEW h, Orderly(h), NEW i, NEW t \in ToolsIn(h), NEW u \in ToolsIn(h),
         Answers(h, i, t), Answers(h, i, u), i \in 1..Len(h)
  PROVE  t = u
<1>1. h[i].kind = "result" /\ Result(h, i)
  <2>1. h[i].kind = "result"
    BY DEF Answers
  <2>2. i \in Indices(h, "result")
    BY <2>1, Lines
  <2> QED
    BY <2>1, <2>2, Zenon DEF Orderly
<1>2. None \notin ToolsIn(h)
  BY DEF Orderly, None
<1>3. CASE h[i].cites # None
  BY <1>2, <1>3 DEF Answers
<1>4. CASE h[i].cites = None
  <2>1. AskedBy(h, t) = h[i].source /\ AskedBy(h, u) = h[i].source
    BY <1>2, <1>4 DEF Answers
  <2>2. Len(h[h[i].source].asks) = 1
    <3>1. PICK a \in Range(h[h[i].source].asks) :
            \/ h[i].cites = a
            \/ h[i].cites = None /\ Len(h[h[i].source].asks) = 1
      BY <1>1 DEF Result
    <3>2. h[i].source \in Indices(h, "assistant")
      BY <2>1, Asker
    <3>3. a \in ToolsIn(h)
      BY <3>1, <3>2, Asker
    <3> QED
      BY <1>2, <1>4, <3>1, <3>3
  <2>3. t \in Range(h[h[i].source].asks) /\ u \in Range(h[h[i].source].asks)
    BY <2>1, Asker
  <2>4. h[h[i].source].asks \in Seq(Nat)
    <3>1. h[i].source \in 1..Len(h)
      BY <2>1, Asker, Lines
    <3> QED
      BY <3>1, Lines DEF Row
  <2> QED
    BY <2>2, <2>3, <2>4 DEF Range
<1> QED
  BY <1>3, <1>4

\* Records that arrive one pass after another.
LEMMA Joined ==
  ASSUME NEW a \in Seq(Record), NEW b \in Seq(Record), NEW s, s = a \o b
  PROVE  /\ Len(a) \in Nat /\ Len(s) \in Nat /\ Len(a) <= Len(s)
         /\ DOMAIN s = 1..Len(s) /\ DOMAIN a = 1..Len(a) /\ s \in Seq(Record)
         /\ \A i \in 1..Len(a) : s[i] = a[i] /\ s[i] \in Range(a)
         /\ \A i \in (Len(a) + 1)..Len(s) : s[i] \in Range(b)
         /\ Range(s) = Range(a) \cup Range(b)
<1>1. /\ Len(s) = Len(a) + Len(b) /\ s \in Seq(Record)
      /\ \A i \in 1..Len(s) : s[i] = IF i <= Len(a) THEN a[i] ELSE b[i - Len(a)]
  BY ConcatProperties
<1>2. /\ Len(a) \in Nat /\ Len(b) \in Nat /\ DOMAIN a = 1..Len(a) /\ DOMAIN b = 1..Len(b)
      /\ DOMAIN s = 1..Len(s)
  BY <1>1, LenProperties
<1>3. ASSUME NEW i \in 1..Len(a)
      PROVE  i \in 1..Len(s) /\ s[i] = a[i] /\ s[i] \in Range(a)
  <2>1. i \in 1..Len(s) /\ i <= Len(a)
    BY <1>1, <1>2
  <2>2. s[i] = a[i]
    BY <1>1, <2>1
  <2> QED
    BY <1>2, <2>1, <2>2 DEF Range
<1>4. ASSUME NEW i \in (Len(a) + 1)..Len(s)
      PROVE  s[i] \in Range(b)
  <2>1. i \in 1..Len(s) /\ ~ (i <= Len(a)) /\ i - Len(a) \in 1..Len(b)
    BY <1>1, <1>2
  <2>2. s[i] = b[i - Len(a)]
    BY <1>1, <2>1
  <2> QED
    BY <1>2, <2>1, <2>2 DEF Range
<1>5. ASSUME NEW j \in 1..Len(b)
      PROVE  b[j] \in Range(s)
  <2>1. j + Len(a) \in 1..Len(s) /\ ~ (j + Len(a) <= Len(a)) /\ j + Len(a) - Len(a) = j
    BY <1>1, <1>2
  <2>2. s[j + Len(a)] = b[j]
    BY <1>1, <2>1
  <2>3. s[j + Len(a)] \in Range(s)
    BY <1>2, <2>1 DEF Range
  <2> QED
    BY <2>2, <2>3
<1>6. Range(s) = Range(a) \cup Range(b)
  <2>1. ASSUME NEW x \in Range(s)
        PROVE  x \in Range(a) \cup Range(b)
    <3>1. PICK i \in 1..Len(s) : x = s[i]
      BY <1>2 DEF Range
    <3>2. i \in 1..Len(a) \/ i \in (Len(a) + 1)..Len(s)
      BY <1>2
    <3> QED
      BY <1>3, <1>4, <3>1, <3>2
  <2>2. ASSUME NEW x \in Range(a)
        PROVE  x \in Range(s)
    <3>1. PICK i \in 1..Len(a) : x = a[i]
      BY <1>2 DEF Range
    <3>2. i \in DOMAIN s /\ s[i] = x
      BY <1>2, <1>3, <3>1
    <3> QED
      BY <3>2 DEF Range
  <2>3. ASSUME NEW x \in Range(b)
        PROVE  x \in Range(s)
    <3>1. PICK i \in 1..Len(b) : x = b[i]
      BY <1>2 DEF Range
    <3> QED
      BY <1>5, <3>1
  <2> QED
    BY <2>1, <2>2, <2>3
<1> QED
  BY <1>1, <1>2, <1>3, <1>4, <1>6

\* Of a repeated record the first is kept.
LEMMA FirstIsKept ==
  ASSUME NEW s \in Seq(Record), NEW x \in Range(s)
  PROVE  \E y \in Distinct(s) : y = x \/ Repeats(x, y)
<1>1. Len(s) \in Nat /\ DOMAIN s = 1..Len(s)
  BY LenProperties
<1>2. PICK i \in 1..Len(s) : x = s[i]
  BY <1>1 DEF Range
<1> DEFINE before == {j \in 1..(i - 1) : Repeats(x, s[j])}
<1>3. CASE before = {}
  <2>1. \A j \in 1..(i - 1) : ~ Repeats(s[i], s[j])
    BY <1>2, <1>3
  <2>2. s[i] \in Distinct(s)
    BY <1>1, <2>1, Zenon DEF Distinct
  <2> QED
    BY <1>2, <2>2
<1>4. CASE before # {}
  <2>1. before \subseteq Nat
    BY <1>1
  <2>2. PICK j \in before : \A l \in before : j <= l
    BY <1>4, <2>1, Smallest
  <2>3. j \in 1..(i - 1) /\ j \in 1..Len(s) /\ Repeats(x, s[j])
    BY <1>1, <2>2
  <2>4. ASSUME NEW l \in 1..(j - 1), Repeats(s[j], s[l])
        PROVE  FALSE
    <3>1. Repeats(x, s[l])
      BY <2>3, <2>4 DEF Repeats
    <3>2. l \in 1..(i - 1) /\ ~ (j <= l)
      BY <1>1, <2>3
    <3> QED
      BY <2>2, <3>1, <3>2
  <2>5. s[j] \in Distinct(s)
    BY <1>1, <2>3, <2>4, Zenon DEF Distinct
  <2> QED
    BY <2>3, <2>5
<1> QED
  BY <1>3, <1>4

\* Of two passes the second adds what the first did not have.
LEMMA SecondAdds ==
  ASSUME NEW a \in Seq(Record), NEW b \in Seq(Record), NEW x \in Distinct(a \o b)
  PROVE  \/ x \in Range(a)
         \/ x \in Range(b) /\ \A y \in Range(a) : ~ Repeats(x, y)
<1> DEFINE s == a \o b
<1>1. /\ Len(a) \in Nat /\ Len(s) \in Nat /\ Len(a) <= Len(s)
      /\ DOMAIN s = 1..Len(s) /\ DOMAIN a = 1..Len(a)
      /\ \A i \in 1..Len(a) : s[i] = a[i] /\ s[i] \in Range(a)
      /\ \A i \in (Len(a) + 1)..Len(s) : s[i] \in Range(b)
  BY Joined
<1>2. x \in Distinct(s)
  OBVIOUS
<1> HIDE DEF s
<1>3. PICK i \in 1..Len(s) : x = s[i] /\ \A j \in 1..(i - 1) : ~ Repeats(s[i], s[j])
  BY <1>1, <1>2, Zenon DEF Distinct
<1>4. CASE i \in 1..Len(a)
  BY <1>1, <1>3, <1>4
<1>5. CASE i \in (Len(a) + 1)..Len(s)
  <2>1. x \in Range(b)
    BY <1>1, <1>3, <1>5
  <2>2. ASSUME NEW y \in Range(a)
        PROVE  ~ Repeats(x, y)
    <3>1. PICK j \in 1..Len(a) : y = a[j]
      BY <1>1 DEF Range
    <3>2. j \in 1..(i - 1) /\ s[j] = y
      BY <1>1, <1>5, <3>1
    <3> QED
      BY <1>3, <3>2
  <2> QED
    BY <2>1, <2>2
<1>6. i \in 1..Len(a) \/ i \in (Len(a) + 1)..Len(s)
  BY <1>1
<1> QED
  BY <1>4, <1>5, <1>6

LEMMA LikeButFirst ==
  ASSUME NEW h, NEW t, Like(h, t)
  PROVE  [t EXCEPT !.first = Absent] = [TrueTurn(h, t.req) EXCEPT !.first = Absent]
<1>1. t = [what |-> "turn", uuid |-> t.uuid, req |-> t.req, ts |-> t.ts,
           first |-> t.first, gen |-> t.gen]
  BY DEF Like, TurnRecord
<1>2. /\ t.uuid = Opening(h, t.req) /\ t.ts = h[Opening(h, t.req)].ts
      /\ t.gen = IF Proven(h, t.req) THEN TrueGen(h, t.req) ELSE Absent
  BY Zenon DEF Like
<1> DEFINE gen == IF Proven(h, t.req) THEN TrueGen(h, t.req) ELSE Absent
           u == TrueTurn(h, t.req)
<1>3. u = [what |-> "turn", uuid |-> t.uuid, req |-> t.req, ts |-> t.ts,
           first |-> TrueFirst(h, t.req), gen |-> gen]
  BY <1>2, Zenon DEF TrueTurn
<1>4. t.gen = gen
  BY <1>2
<1> HIDE DEF gen, u
<1>5. [t EXCEPT !.first = Absent] = [u EXCEPT !.first = Absent]
  BY <1>1, <1>3, <1>4
<1> QED
  BY <1>5 DEF u

\* A pass, and what a later one adds to it when the file is finished.
LEMMA BothMeasure ==
  ASSUME NEW h, Orderly(h), NEW m \in 1..(Len(h) + 1),
         NEW pass, Saved(h, m, pass), NEW records, Rest(h, m, records),
         NEW kept, kept = Distinct(pass.records \o records)
  PROVE  /\ \A x \in kept : x.what = "turn" => x.req \in Measurable(h) /\ Like(h, x)
         /\ \A r \in Measurable(h) : \E x \in kept : x.what = "turn" /\ x.req = r
         /\ \A x \in kept : x.what = "tool" => x \in TimedCalls(h)
         /\ TimedCalls(h) \subseteq kept
<1>1. Len(h) \in Nat /\ m \in Nat
  BY Lines
<1> DEFINE a == pass.records
<1>2. /\ a \in Seq(Record)
      /\ \A t \in Range(a) : t.what = "turn" => TurnKept(t, h, 1)
      /\ \A t \in Range(a) : t.what = "tool" => t \in TimedCalls(h)
      /\ \A r \in Measurable(h) : Opening(h, r) < m =>
           \E t \in Range(a) : t.what = "turn" /\ t.req = r
      /\ \A c \in TimedCalls(h) : AskedBy(h, c.tool) < m => c \in Range(a)
  BY Zenon DEF Saved
<1>3. /\ records \in Seq(Record)
      /\ \A t \in Range(records) : t.what = "turn" =>
           t.req \in Measurable(h) /\ (Opening(h, t.req) >= m => Like(h, t))
      /\ \A t \in Range(records) : t.what = "tool" => t \in TimedCalls(h)
      /\ \A r \in Measurable(h) : Opening(h, r) >= m =>
           \E t \in Range(records) : t.what = "turn" /\ t.req = r
      /\ \A c \in TimedCalls(h) : AskedBy(h, c.tool) >= m => c \in Range(records)
  BY Zenon DEF Rest
<1>4. kept = Distinct(a \o records)
  BY Zenon
<1> HIDE DEF a
<1>5. ASSUME NEW x \in kept
      PROVE  \/ x \in Range(a)
             \/ x \in Range(records) /\ \A y \in Range(a) : ~ Repeats(x, y)
  BY <1>2, <1>3, <1>4, <1>5, SecondAdds
<1>6. ASSUME NEW x, x \in Range(a) \/ x \in Range(records)
      PROVE  \E y \in kept : y = x \/ Repeats(x, y)
  <2> DEFINE s == a \o records
  <2>1. s = a \o records
    OBVIOUS
  <2> HIDE DEF s
  <2>2. s \in Seq(Record) /\ Range(s) = Range(a) \cup Range(records)
    BY <1>2, <1>3, <2>1, Joined
  <2>3. \E y \in Distinct(s) : y = x \/ Repeats(x, y)
    BY <1>6, <2>2, FirstIsKept
  <2> QED
    BY <1>4, <2>1, <2>3
<1>7. \A r \in Measurable(h) : Opening(h, r) \in Nat /\ Opening(h, r) >= 1
  <2> SUFFICES ASSUME NEW r \in Measurable(h)
               PROVE  Opening(h, r) \in Nat /\ Opening(h, r) >= 1
    OBVIOUS
  <2>1. Opening(h, r) \in RowsOf(h, r) /\ RowsOf(h, r) \subseteq 1..Len(h)
    BY Real, RowsOfIs
  <2> QED
    BY <1>1, <2>1
<1>8. ASSUME NEW x \in kept, x.what = "turn"
      PROVE  x.req \in Measurable(h) /\ Like(h, x)
  <2>1. CASE x \in Range(a)
    <3>1. TurnKept(x, h, 1)
      BY <1>2, <1>8, <2>1
    <3>2. x.req \in Measurable(h)
      BY <3>1 DEF TurnKept
    <3>3. Opening(h, x.req) >= 1
      BY <1>7, <3>2
    <3> QED
      BY <3>1, <3>2, <3>3, KeptIsLike
  <2>2. CASE x \in Range(records) /\ \A y \in Range(a) : ~ Repeats(x, y)
    <3>1. x.req \in Measurable(h) /\ (Opening(h, x.req) >= m => Like(h, x))
      BY <1>3, <1>8, <2>2
    <3>2. CASE Opening(h, x.req) < m
      <4>1. PICK t \in Range(a) : t.what = "turn" /\ t.req = x.req
        BY <1>2, <3>1, <3>2
      <4>2. Repeats(x, t)
        BY <1>8, <4>1 DEF Repeats
      <4> QED
        BY <2>2, <4>1, <4>2
    <3>3. Opening(h, x.req) < m \/ Opening(h, x.req) >= m
      BY <1>1, <1>7, <3>1
    <3> QED
      BY <3>1, <3>2, <3>3
  <2> QED
    BY <1>5, <1>8, <2>1, <2>2
<1>9. ASSUME NEW r \in Measurable(h)
      PROVE  \E x \in kept : x.what = "turn" /\ x.req = r
  <2>1. Opening(h, r) < m \/ Opening(h, r) >= m
    BY <1>1, <1>7, <1>9
  <2>2. \E t : (t \in Range(a) \/ t \in Range(records)) /\ t.what = "turn" /\ t.req = r
    BY <1>2, <1>3, <1>9, <2>1, Zenon
  <2>3. PICK t : (t \in Range(a) \/ t \in Range(records)) /\ t.what = "turn" /\ t.req = r
    BY <2>2
  <2>4. PICK y \in kept : y = t \/ Repeats(t, y)
    BY <1>6, <2>3
  <2> QED
    BY <2>3, <2>4 DEF Repeats
<1>10. ASSUME NEW x \in kept, x.what = "tool"
       PROVE  x \in TimedCalls(h)
  BY <1>2, <1>3, <1>5, <1>10
<1>11. ASSUME NEW c \in TimedCalls(h)
       PROVE  c \in kept
  <2>1. c.what = "tool" /\ c.tool \in ToolsIn(h) /\ AskedBy(h, c.tool) \in 1..(c.uuid - 1)
    BY <1>11, TimedFields
  <2>2. AskedBy(h, c.tool) < m \/ AskedBy(h, c.tool) >= m
    BY <1>1, <2>1
  <2>3. c \in Range(a) \/ c \in Range(records)
    BY <1>2, <1>3, <1>11, <2>2
  <2>4. PICK y \in kept : y = c \/ Repeats(c, y)
    BY <1>6, <2>3
  <2>5. CASE Repeats(c, y)
    <3>1. y.what = "tool" /\ y.uuid = c.uuid
      BY <2>1, <2>5 DEF Repeats
    <3>2. y \in TimedCalls(h)
      BY <1>10, <2>4, <3>1
    <3>3. /\ y.tool \in ToolsIn(h) /\ Answers(h, c.uuid, y.tool) /\ y = Timed(h, c.uuid, y.tool)
          /\ c.uuid \in 1..Len(h)
      BY <3>1, <3>2, TimedFields
    <3>4. Answers(h, c.uuid, c.tool) /\ c = Timed(h, c.uuid, c.tool)
      BY <1>11, TimedFields
    <3>5. y.tool = c.tool
      BY <2>1, <3>3, <3>4, OneAnswer
    <3> QED
      BY <2>4, <3>3, <3>4, <3>5
  <2> QED
    BY <2>4, <2>5
<1> QED
  BY <1>8, <1>9, <1>10, <1>11

LEMMA SameIs ==
  ASSUME Orderly(rows), FedWell(rows), Calm(rows), MeasuresTruth,
         NEW m \in 1..(Len(rows) + 1), NEW pass, Saved(rows, m, pass)
  PROVE  SameMeasures(Resumed(pass), Whole)
<1> DEFINE records == Import(rows, FALSE, Start(m), TRUE).records
           kept == Distinct(pass.records \o records)
<1>1. Rest(rows, m, records)
  BY RestIs
<1>2. pass.offset = Start(m)
  BY DEF Saved
<1>3. Resumed(pass) = kept
  BY <1>2, Zenon DEF Resumed
<1> HIDE DEF records
<1>4. /\ \A x \in kept : x.what = "turn" => x.req \in Measurable(rows) /\ Like(rows, x)
      /\ \A r \in Measurable(rows) : \E x \in kept : x.what = "turn" /\ x.req = r
      /\ \A x \in kept : x.what = "tool" => x \in TimedCalls(rows)
      /\ TimedCalls(rows) \subseteq kept
  BY <1>1, BothMeasure
<1> HIDE DEF kept
<1>5. Kept(Whole, "turn") = Turns(rows) /\ Kept(Whole, "tool") = TimedCalls(rows)
  BY DEF MeasuresTruth
<1>6. Turns(rows) = {TrueTurn(rows, r) : r \in Measurable(rows)}
  BY Zenon DEF Turns, TrueTurn
<1>7. Kept(kept, "tool") = Kept(Whole, "tool")
  <2>1. \A c \in TimedCalls(rows) : c.what = "tool"
    BY TimedFields
  <2> QED
    BY <1>4, <1>5, <2>1 DEF Kept
<1>8. \A x \in Kept(kept, "turn") : x.first \in {Absent, TrueFirst(rows, x.req)}
  BY <1>4 DEF Kept, Like
<1>9. WithoutFirst(Kept(kept, "turn")) = WithoutFirst(Kept(Whole, "turn"))
  <2> DEFINE NoFirst(t) == [t EXCEPT !.first = Absent]
  <2>1. \A x \in kept : x.what = "turn" =>
          x.req \in Measurable(rows) /\ NoFirst(x) = NoFirst(TrueTurn(rows, x.req))
    BY <1>4, LikeButFirst
  <2>2. WithoutFirst(Kept(kept, "turn")) = {NoFirst(x) : x \in {y \in kept : y.what = "turn"}}
    BY Zenon DEF WithoutFirst, Kept
  <2>3. WithoutFirst(Kept(Whole, "turn")) = {NoFirst(x) : x \in Turns(rows)}
    BY <1>5, Zenon DEF WithoutFirst
  <2> HIDE DEF NoFirst
  <2>4. {NoFirst(x) : x \in {y \in kept : y.what = "turn"}} \subseteq {NoFirst(x) : x \in Turns(rows)}
    BY <1>6, <2>1
  <2>5. {NoFirst(x) : x \in Turns(rows)} \subseteq {NoFirst(x) : x \in {y \in kept : y.what = "turn"}}
    <3>1. SUFFICES ASSUME NEW r \in Measurable(rows)
                   PROVE  \E x \in kept : x.what = "turn" /\ NoFirst(x) = NoFirst(TrueTurn(rows, r))
      BY <1>6
    <3> QED
      BY <1>4, <2>1, Zenon
  <2> QED
    BY <2>2, <2>3, <2>4, <2>5
<1> QED
  BY <1>3, <1>7, <1>8, <1>9, Zenon DEF SameMeasures

\* A pass that ended with this file's last row, and left it unfinished.
Unfinished(h) == Import(h, FALSE, 0, FALSE)

\* After whatever row a pass ended, what it put out is still so.
Cuts(h) ==
  \A k \in 1..Len(h) : \E m \in 1..(k + 1) : Saved(h, m, Unfinished(SubSeq(h, 1, k)))

LEMMA CutsNothing == Cuts(<<>>)
  BY DEF Cuts

LEMMA CutsGrow ==
  ASSUME NEW h, NEW row, NEW g, NEW n, Grows(h, row, g, n), Cuts(h),
         FedWell(g), End(g) <= MaxReread
  PROVE  Cuts(g)
<1>1. /\ Len(h) \in Nat /\ n \in Nat /\ n - 1 = Len(h) /\ Len(g) = n
      /\ \A i \in 1..Len(h) : g[i] = h[i]
  BY Grown
<1>2. Orderly(h) /\ Orderly(g)
  BY StaysOrderly DEF Grows
<1>3. ASSUME NEW k \in 1..Len(h)
      PROVE  \E m \in 1..(k + 1) : Saved(g, m, Unfinished(SubSeq(g, 1, k)))
  <2>1. SubSeq(g, 1, k) = SubSeq(h, 1, k)
    <3>1. \A i \in 1..k : g[i] = h[i]
      BY <1>1
    <3>2. SubSeq(g, 1, k) = [i \in 1..k |-> g[i]] /\ SubSeq(h, 1, k) = [i \in 1..k |-> h[i]]
      BY <1>1
    <3> QED
      BY <3>1, <3>2
  <2>2. PICK m \in 1..(k + 1) : Saved(h, m, Unfinished(SubSeq(h, 1, k)))
    BY DEF Cuts
  <2>3. m \in 1..n
    BY <1>1
  <2>4. Saved(g, m, Unfinished(SubSeq(h, 1, k)))
    BY <2>2, <2>3, SavedStays
  <2> QED
    BY <2>1, <2>4
<1>4. \E m \in 1..(n + 1) : Saved(g, m, Unfinished(SubSeq(g, 1, n)))
  <2>1. SubSeq(g, 1, n) = g
    <3>1. g \in Seq(Row)
      BY <1>2, Lines
    <3> QED
      BY <1>1, <3>1
  <2>2. \E m \in 1..(Len(g) + 1) : Saved(g, m, Unfinished(g))
    BY <1>2, SavedNow, Zenon DEF Unfinished
  <2> QED
    BY <1>1, <2>1, <2>2
<1>5. 1..Len(g) = (1..Len(h)) \cup {n}
  BY <1>1
<1> QED
  BY <1>3, <1>4, <1>5, Zenon DEF Cuts


-----------------------------------------------------------------------------
(* A pass with next to no room                                             *)

\* What does not depend on the room there is, is the same.
LEMMA TightSame ==
  ASSUME NEW d, NEW row
  PROVE  /\ Tight!NoteVersion(d, row) = NoteVersion(d, row)
         /\ Tight!CloseTurn(d, TRUE) = CloseTurn(d, TRUE)
         /\ Tight!BeginPrompt(d, row) = BeginPrompt(d, row)
         /\ Tight!ExtendPromptChain(d, row) = ExtendPromptChain(d, row)
         /\ Tight!OpenTurn(d, row) = OpenTurn(d, row)
         /\ Tight!ToolResult(d, row) = ToolResult(d, row)
         /\ Tight!Start(row) = Start(row)
         /\ Tight!Fresh = Fresh
<1>1. Tight!NoteVersion(d, row) = NoteVersion(d, row)
  BY Zenon DEF Tight!NoteVersion, NoteVersion, Tight!None, None, Tight!Emit, Emit
<1>2. Tight!CloseTurn(d, TRUE) = CloseTurn(d, TRUE)
  BY Zenon DEF Tight!CloseTurn, CloseTurn, Tight!Emit, Emit, Tight!Plausible, Plausible,
               Tight!Absent, Absent
<1>3. Tight!BeginPrompt(d, row) = BeginPrompt(d, row)
  BY Zenon DEF Tight!BeginPrompt, BeginPrompt, Tight!Start, Start
<1>4. Tight!ExtendPromptChain(d, row) = ExtendPromptChain(d, row)
  BY Zenon DEF Tight!ExtendPromptChain, ExtendPromptChain, Tight!Cardinality, Cardinality
<1>5. Tight!OpenTurn(d, row) = OpenTurn(d, row)
  BY Zenon DEF Tight!OpenTurn, OpenTurn, Tight!FirstResponse, FirstResponse, Tight!None, None,
               Tight!ClaimsPrompt, ClaimsPrompt, Tight!Plausible, Plausible, Tight!Absent, Absent,
               Tight!Start, Start, Tight!Cardinality, Cardinality
<1>6. Tight!ToolResult(d, row) = ToolResult(d, row)
  BY Zenon DEF Tight!ToolResult, ToolResult, Tight!Answer, Answer, Tight!Plausible, Plausible,
               Tight!Emit, Emit
<1>7. Tight!Start(row) = Start(row) /\ Tight!Fresh = Fresh
  BY Zenon DEF Tight!Start, Start, Tight!Fresh, Fresh, Tight!None, None
<1> QED
  BY <1>1, <1>2, <1>3, <1>4, <1>5, <1>6, <1>7

LEMMA TightFedIs ==
  ASSUME NEW h, Folds("tightLines", 0, Fresh, h)
  PROVE  Tight!Fed(h, 0) = Folded("tightLines", 0, Fresh, h)
<1> DEFINE Sol(it) == it = [t \in SUBSET DOMAIN h |->
                     IF t = {} THEN Fresh
                     ELSE IF Tight!Start(h[Max(t)].uuid) >= 0
                          THEN Tight!Push(it[t \ {Max(t)}], h[Max(t)])
                          ELSE it[t \ {Max(t)}]]
<1>1. \A it : Folding(it, "tightLines", 0, Fresh, h) <=> Sol(it)
  BY DEF Folding, FoldStep
<1>2. Tight!Fed(h, 0) = (CHOOSE it : Sol(it))[DOMAIN h]
  BY Zenon DEF Tight!Fed, Tight!FoldLeft, Tight!MapThenFoldSet, Tight!Max, Max,
               Tight!Fresh, Fresh, Tight!None, None
<1> HIDE DEF Sol
<1>3. Sol(CHOOSE it : Sol(it))
  BY <1>1, Zenon DEF Folds
<1> QED
  BY <1>1, <1>2, <1>3, Zenon DEF Folds

TightRemembering(d, s, row) == Tight!FoldLeft(LAMBDA acc, id : Tight!RememberTool(acc, id, row), d, s)

LEMMA TightRememberingIs ==
  ASSUME NEW d, NEW s, NEW row, Folds("tightCalls", row, d, s)
  PROVE  TightRemembering(d, s, row) = Folded("tightCalls", row, d, s)
<1> DEFINE Sol(it) == it = [t \in SUBSET DOMAIN s |->
                     IF t = {} THEN d
                     ELSE Tight!RememberTool(it[t \ {Max(t)}], s[Max(t)], row)]
<1>1. \A it : Folding(it, "tightCalls", row, d, s) <=> Sol(it)
  BY DEF Folding, FoldStep
<1>2. TightRemembering(d, s, row) = (CHOOSE it : Sol(it))[DOMAIN s]
  BY Zenon DEF TightRemembering, Tight!FoldLeft, Tight!MapThenFoldSet, Tight!Max, Max
<1> HIDE DEF Sol
<1>3. Sol(CHOOSE it : Sol(it))
  BY <1>1, Zenon DEF Folds
<1> QED
  BY <1>1, <1>2, <1>3, Zenon DEF Folds

LEMMA TightAssistantIs ==
  ASSUME NEW d, NEW row
  PROVE  LET asked == TightRemembering(d, row.asks, row) IN
         Tight!Assistant(d, row) =
           IF asked.open # <<>> /\ row.req # None /\ asked.open[1].turn.req = row.req
             THEN [asked EXCEPT !.open[1].last = row.ts]
             ELSE OpenTurn(CloseTurn(asked, TRUE), row)
<1>1. LET asked == TightRemembering(d, row.asks, row) IN
         Tight!Assistant(d, row) =
           IF asked.open # <<>> /\ row.req # None /\ asked.open[1].turn.req = row.req
             THEN [asked EXCEPT !.open[1].last = row.ts]
             ELSE Tight!OpenTurn(Tight!CloseTurn(asked, TRUE), row)
  BY Zenon DEF Tight!Assistant, TightRemembering, Tight!None, None
<1> QED
  BY <1>1, TightSame, Zenon

\* Where the first n lines begin.
Begins(n) == {Start(i) : i \in 1..n}

CallsAt(calls, n) == \A p \in calls : p.id \in Nat /\ p.ts \in Int /\ p.offset \in Begins(n)
PromptIn(prompt, n) ==
  prompt = <<>> \/ \E P, ts, offset : /\ prompt = <<P>> /\ offset \in Begins(n)
                                      /\ P = [ts |-> ts, chain |-> P.chain, offset |-> offset]
OpenIn(open, n) == \A o : open = <<o>> => o.offset \in Begins(n)

\* Whatever is remembered began where one of the first n lines did.
Aligned(d, n) ==
  /\ Shaped(d)
  /\ CallsAt(d.tools, n) /\ CallsAt(d.byRow, n)
  /\ PromptIn(d.prompt, n) /\ OpenIn(d.open, n)

LEMMA AlignedFresh == Aligned(Fresh, 0)
<1>1. Fresh = [f \in Fields |-> Fresh[f]]
  BY DEF Fresh, Fields
<1>2. /\ Fresh.tools = {} /\ Fresh.byRow = {} /\ Fresh.prompt = <<>> /\ Fresh.open = <<>>
      /\ Fresh.out = <<>>
  BY DEF Fresh
<1>3. \A o : <<>> # <<o>>
  OBVIOUS
<1>4. <<>> \in Seq(Record)
  OBVIOUS
<1>5. Shaped(Fresh)
  BY <1>1, <1>2, <1>4, Zenon DEF Shaped
<1> QED
  BY <1>2, <1>3, <1>5, Zenon DEF Aligned, CallsAt, PromptIn, OpenIn

LEMMA AlignedLater ==
  ASSUME NEW d, NEW n \in Nat, NEW m \in Nat, n <= m, Aligned(d, n)
  PROVE  Aligned(d, m)
<1>1. Begins(n) \subseteq Begins(m)
  BY DEF Begins
<1>2. Shaped(d)
  BY DEF Aligned
<1>3. CallsAt(d.tools, m) /\ CallsAt(d.byRow, m)
  BY <1>1 DEF Aligned, CallsAt
<1>4. OpenIn(d.open, m)
  BY <1>1 DEF Aligned, OpenIn
<1>5. PromptIn(d.prompt, m)
  BY <1>1, Zenon DEF Aligned, PromptIn
<1> QED
  BY <1>2, <1>3, <1>4, <1>5, Zenon DEF Aligned

LEMMA AlignedNoted ==
  ASSUME NEW d, NEW n, Aligned(d, n), NEW row \in Row
  PROVE  Aligned(NoteVersion(d, row), n)
<1> DEFINE e == NoteVersion(d, row)
<1>1. Shaped(d) /\ CallsAt(d.tools, n) /\ CallsAt(d.byRow, n) /\ PromptIn(d.prompt, n)
      /\ OpenIn(d.open, n)
  BY Zenon DEF Aligned
<1>2. Shaped(e) /\ Changed(d, e, {"out", "version"})
  BY <1>1, Noted, Zenon
<1> HIDE DEF e
<1>3. e.tools = d.tools /\ e.byRow = d.byRow /\ e.prompt = d.prompt /\ e.open = d.open
  BY <1>2 DEF Changed, Fields
<1>4. Aligned(e, n)
  BY <1>1, <1>2, <1>3, Zenon DEF Aligned
<1> QED
  BY <1>4 DEF e

LEMMA AlignedClosed ==
  ASSUME NEW d, NEW n, Aligned(d, n)
  PROVE  Aligned(CloseTurn(d, TRUE), n)
<1> DEFINE e == CloseTurn(d, TRUE)
<1>1. Shaped(d) /\ CallsAt(d.tools, n) /\ CallsAt(d.byRow, n) /\ PromptIn(d.prompt, n)
  BY Zenon DEF Aligned
<1>2. Shaped(e) /\ Changed(d, e, {"out", "open"}) /\ e.open = <<>>
  BY <1>1, Closed, Zenon
<1> HIDE DEF e
<1>3. e.tools = d.tools /\ e.byRow = d.byRow /\ e.prompt = d.prompt
  BY <1>2 DEF Changed, Fields
<1>4. \A o : <<>> # <<o>>
  OBVIOUS
<1>5. OpenIn(e.open, n)
  BY <1>2, <1>4, Zenon DEF OpenIn
<1>6. Aligned(e, n)
  BY <1>1, <1>2, <1>3, <1>5, Zenon DEF Aligned
<1> QED
  BY <1>6 DEF e

LEMMA AlignedBegun ==
  ASSUME NEW d, NEW n \in Nat \ {0}, Aligned(d, n), NEW row \in Row, row.uuid = n
  PROVE  Aligned(BeginPrompt(d, row), n)
<1> DEFINE P == [ts |-> row.ts, chain |-> {row.uuid}, offset |-> Start(row.uuid)]
           e == [d EXCEPT !.prompt = <<P>>]
<1>1. BeginPrompt(d, row) = e
  BY Zenon DEF BeginPrompt
<1>2. Shaped(d) /\ CallsAt(d.tools, n) /\ CallsAt(d.byRow, n) /\ OpenIn(d.open, n)
  BY Zenon DEF Aligned
<1>3. d = [f \in Fields |-> d[f]]
  BY <1>2, Zenon DEF Shaped
<1>4. /\ e = [f \in Fields |-> e[f]] /\ e.prompt = <<P>> /\ e.out = d.out /\ e.open = d.open
      /\ e.tools = d.tools /\ e.byRow = d.byRow
  BY <1>3 DEF Fields
<1>5. P = [ts |-> row.ts, chain |-> P.chain, offset |-> Start(row.uuid)]
  OBVIOUS
<1>6. Start(row.uuid) \in Begins(n)
  BY DEF Begins
<1> HIDE DEF e, P
<1>7. Shaped(e)
  BY <1>2, <1>4, Zenon DEF Shaped
<1>8. PromptIn(e.prompt, n)
  BY <1>4, <1>5, <1>6, Zenon DEF PromptIn
<1>9. Aligned(e, n)
  BY <1>2, <1>4, <1>7, <1>8, Zenon DEF Aligned
<1> QED
  BY <1>1, <1>9

LEMMA AlignedExtended ==
  ASSUME NEW d, NEW n, Aligned(d, n), NEW row \in Row
  PROVE  Aligned(ExtendPromptChain(d, row), n)
<1> DEFINE e == ExtendPromptChain(d, row)
<1>1. Shaped(d) /\ CallsAt(d.tools, n) /\ CallsAt(d.byRow, n) /\ PromptIn(d.prompt, n)
      /\ OpenIn(d.open, n)
  BY Zenon DEF Aligned
<1>2. d.prompt = <<>> \/ \E P, ts, offset :
        d.prompt = <<P>> /\ P = [ts |-> ts, chain |-> P.chain, offset |-> offset]
  BY <1>1, Zenon DEF PromptIn
<1>3. /\ Shaped(e) /\ Changed(d, e, {"prompt"})
      /\ d.prompt = <<>> => e.prompt = <<>>
      /\ \A P : d.prompt = <<P>> =>
           e.prompt = IF row.parent \in P.chain /\ Cardinality(P.chain) < MaxPromptChain
                        THEN <<[ts |-> P.ts, chain |-> P.chain \cup {row.uuid},
                                offset |-> P.offset]>>
                        ELSE <<P>>
  BY <1>1, <1>2, Extended, Zenon
<1> HIDE DEF e
<1>4. e.tools = d.tools /\ e.byRow = d.byRow /\ e.open = d.open
  BY <1>3 DEF Changed, Fields
<1>5. PromptIn(e.prompt, n)
  <2>1. CASE d.prompt = <<>>
    BY <1>3, <2>1, Zenon DEF PromptIn
  <2>2. CASE d.prompt # <<>>
    <3> PICK P, ts, offset : /\ d.prompt = <<P>> /\ offset \in Begins(n)
                             /\ P = [ts |-> ts, chain |-> P.chain, offset |-> offset]
      BY <1>1, <2>2 DEF PromptIn
    <3> DEFINE Q == [ts |-> P.ts, chain |-> P.chain \cup {row.uuid}, offset |-> P.offset]
    <3>1. e.prompt = <<Q>> \/ e.prompt = <<P>>
      BY <1>3, Zenon
    <3>2. Q = [ts |-> ts, chain |-> Q.chain, offset |-> offset]
      <4>1. P.ts = ts /\ P.offset = offset
        OBVIOUS
      <4> QED
        BY <4>1
    <3> HIDE DEF Q
    <3> QED
      BY <3>1, <3>2, Zenon DEF PromptIn
  <2> QED
    BY <2>1, <2>2
<1>6. Aligned(e, n)
  BY <1>1, <1>3, <1>4, <1>5, Zenon DEF Aligned
<1> QED
  BY <1>6 DEF e

LEMMA AlignedResult ==
  ASSUME NEW d, NEW n, Aligned(d, n), NEW row \in Row
  PROVE  Aligned(ToolResult(d, row), n)
<1>1. Shaped(d) /\ CallsAt(d.tools, n) /\ CallsAt(d.byRow, n) /\ PromptIn(d.prompt, n)
      /\ OpenIn(d.open, n)
  BY Zenon DEF Aligned
<1>2. d = [f \in Fields |-> d[f]]
  BY <1>1, Zenon DEF Shaped
<1> DEFINE cited == {p \in d.tools : p.id = row.cites}
           near == {p \in d.byRow : p.row = row.source}
           P == CHOOSE p \in cited : TRUE
           Q == CHOOSE p \in near : TRUE
           b == [d EXCEPT !.tools = d.tools \ cited]
           c == [d EXCEPT !.byRow = d.byRow \ near]
<1>3. \/ ToolResult(d, row) = d
      \/ cited # {} /\ ToolResult(d, row) = Answer(b, P, row)
      \/ near # {} /\ ToolResult(d, row) = Answer(c, Q, row)
  <2>1. b = [d EXCEPT !.tools = @ \ cited] /\ c = [d EXCEPT !.byRow = @ \ near]
    BY <1>2 DEF Fields
  <2>2. ToolResult(d, row) =
          CASE cited # {} -> Answer([d EXCEPT !.tools = @ \ cited], P, row)
            [] cited = {} /\ near # {} -> Answer([d EXCEPT !.byRow = @ \ near], Q, row)
            [] OTHER -> d
    BY Zenon DEF ToolResult
  <2> HIDE DEF b, c, cited, near, P, Q
  <2> QED
    BY <2>1, <2>2
<1>4. /\ b = [f \in Fields |-> b[f]] /\ b.out = d.out /\ b.open = d.open /\ b.prompt = d.prompt
      /\ b.tools = d.tools \ cited /\ b.byRow = d.byRow
  BY <1>2 DEF Fields
<1>5. /\ c = [f \in Fields |-> c[f]] /\ c.out = d.out /\ c.open = d.open /\ c.prompt = d.prompt
      /\ c.tools = d.tools /\ c.byRow = d.byRow \ near
  BY <1>2 DEF Fields
<1>6. cited # {} => P \in d.tools
  OBVIOUS
<1>7. near # {} => Q \in d.byRow
  OBVIOUS
<1> HIDE DEF b, c, cited, near, P, Q
<1>8. Aligned(b, n) /\ Aligned(c, n)
  <2>1. Shaped(b) /\ Shaped(c)
    BY <1>1, <1>4, <1>5, Zenon DEF Shaped
  <2>2. CallsAt(d.tools \ cited, n) /\ CallsAt(d.byRow \ near, n)
    BY <1>1 DEF CallsAt
  <2> QED
    BY <1>1, <1>4, <1>5, <2>1, <2>2, Zenon DEF Aligned
<1>9. ASSUME NEW a, Aligned(a, n), NEW p, p.id \in Nat, p.ts \in Int
      PROVE  Aligned(Answer(a, p, row), n)
  <2> DEFINE e == Answer(a, p, row)
  <2>1. Shaped(a) /\ CallsAt(a.tools, n) /\ CallsAt(a.byRow, n) /\ PromptIn(a.prompt, n)
        /\ OpenIn(a.open, n)
    BY <1>9, Zenon DEF Aligned
  <2>2. Shaped(e) /\ Changed(a, e, {"out"})
    BY <1>9, <2>1, AnswerIs, Zenon
  <2> HIDE DEF e
  <2>3. e.tools = a.tools /\ e.byRow = a.byRow /\ e.prompt = a.prompt /\ e.open = a.open
    BY <2>2 DEF Changed, Fields
  <2>4. Aligned(e, n)
    BY <2>1, <2>2, <2>3, Zenon DEF Aligned
  <2> QED
    BY <2>4 DEF e
<1>10. /\ cited # {} => P.id \in Nat /\ P.ts \in Int
       /\ near # {} => Q.id \in Nat /\ Q.ts \in Int
  BY <1>1, <1>6, <1>7 DEF CallsAt
<1> QED
  BY <1>3, <1>8, <1>9, <1>10, Zenon

LEMMA AlignedOpened ==
  ASSUME NEW d, NEW n \in Nat \ {0}, Aligned(d, n), NEW row \in Row, row.uuid = n
  PROVE  Aligned(OpenTurn(d, row), n)
<1>1. Shaped(d) /\ CallsAt(d.tools, n) /\ CallsAt(d.byRow, n) /\ PromptIn(d.prompt, n)
      /\ OpenIn(d.open, n)
  BY Zenon DEF Aligned
<1>2. d = [f \in Fields |-> d[f]]
  BY <1>1, Zenon DEF Shaped
<1> DEFINE seen == IF Cardinality(d.seen) >= MaxSeenRequests THEN {} ELSE d.seen
           prompt == IF ClaimsPrompt(d, row) THEN <<>> ELSE d.prompt
           open == <<NewOpen(d, row)>>
           b == [d EXCEPT !.seen = seen]
           c == [d EXCEPT !.seen = seen \cup {row.req}, !.prompt = prompt, !.open = open]
<1>3. OpenTurn(d, row) \in {d, b, c}
  BY DEF OpenTurn, NewOpen
<1>4. NewOpen(d, row) \in Opened /\ NewOpen(d, row).offset = Start(n)
  <2>1. FirstResponse(d, row) \in Int
    BY DEF FirstResponse, Plausible, Absent
  <2>2. Start(row.uuid) \in Nat
    BY DEF Start
  <2>3. Absent \in Int /\ row.uuid \in Nat /\ row.req \in Nat /\ row.ts \in Int
    BY DEF Absent, Row
  <2> QED
    BY <2>1, <2>2, <2>3 DEF NewOpen, Opened, TurnRecord
<1>5. Start(n) \in Begins(n)
  BY DEF Begins
<1>6. PromptIn(prompt, n)
  BY <1>1, Zenon DEF PromptIn
<1>7. OpenIn(open, n)
  <2>1. \A o : open = <<o>> => o = NewOpen(d, row)
    OBVIOUS
  <2> QED
    BY <1>4, <1>5, <2>1, Zenon DEF OpenIn
<1>8. \E o \in Opened : open = <<o>>
  BY <1>4, Zenon
<1> HIDE DEF seen, prompt, open
<1>9. /\ b = [f \in Fields |-> b[f]] /\ b.out = d.out /\ b.open = d.open /\ b.prompt = d.prompt
      /\ b.tools = d.tools /\ b.byRow = d.byRow
  BY <1>2 DEF Fields
<1>10. /\ c = [f \in Fields |-> c[f]] /\ c.out = d.out /\ c.open = open /\ c.prompt = prompt
       /\ c.tools = d.tools /\ c.byRow = d.byRow
  BY <1>2 DEF Fields
<1> HIDE DEF b, c
<1>11. Shaped(b) /\ Shaped(c)
  BY <1>1, <1>8, <1>9, <1>10, Zenon DEF Shaped
<1>12. Aligned(b, n) /\ Aligned(c, n)
  BY <1>1, <1>6, <1>7, <1>9, <1>10, <1>11, Zenon DEF Aligned
<1> QED
  BY <1>3, <1>12

LEMMA AlignedRemembered ==
  ASSUME NEW d, NEW n \in Nat \ {0}, Aligned(d, n), NEW row \in Row, row.uuid = n, NEW t \in Nat
  PROVE  Aligned(Tight!RememberTool(d, t, row), n)
<1>1. Shaped(d) /\ CallsAt(d.tools, n) /\ CallsAt(d.byRow, n) /\ PromptIn(d.prompt, n)
      /\ OpenIn(d.open, n)
  BY Zenon DEF Aligned
<1>2. d = [f \in Fields |-> d[f]]
  BY <1>1, Zenon DEF Shaped
<1> DEFINE call == Asked(row, t)
           known == {p \in d.tools : p.id = t}
           first == IF known = {} THEN Append(d.order, t) ELSE d.order
           over == Len(first) > 1
           near == {p \in d.byRow : p.row # row.uuid} \cup {call}
           all == (d.tools \ known) \cup {call}
           order == IF over THEN Tail(first) ELSE first
           tools == IF over THEN {p \in all : p.id # Head(first)} ELSE all
           byRow == IF Cardinality(near) > 1 THEN {} ELSE near
           e == [d EXCEPT !.order = order, !.tools = tools, !.byRow = byRow]
<1>3. Tight!RememberTool(d, t, row) = e
  BY Zenon DEF Tight!RememberTool, Asked, Tight!Start, Start, Tight!Cardinality, Cardinality
<1>4. tools \subseteq d.tools \cup {call}
  OBVIOUS
<1>5. byRow \subseteq d.byRow \cup {call}
  OBVIOUS
<1>6. call.id \in Nat /\ call.ts \in Int /\ call.offset \in Begins(n)
  BY DEF Asked, Row, Begins
<1> HIDE DEF call, order, tools, byRow
<1>7. /\ e = [f \in Fields |-> e[f]] /\ e.out = d.out /\ e.open = d.open /\ e.prompt = d.prompt
      /\ e.tools = tools /\ e.byRow = byRow
  BY <1>2 DEF Fields
<1> HIDE DEF e
<1>8. CallsAt(tools, n) /\ CallsAt(byRow, n)
  BY <1>1, <1>4, <1>5, <1>6 DEF CallsAt
<1>9. Shaped(e)
  BY <1>1, <1>7, Zenon DEF Shaped
<1>10. Aligned(e, n)
  BY <1>1, <1>7, <1>8, <1>9, Zenon DEF Aligned
<1> QED
  BY <1>3, <1>10

LEMMA AlignedAllRemembered ==
  ASSUME NEW d, NEW n \in Nat \ {0}, Aligned(d, n), NEW row \in Row, row.uuid = n
  PROVE  Aligned(TightRemembering(d, row.asks, row), n)
<1> DEFINE m == Len(row.asks)
           first(j) == [k \in 1..j |-> row.asks[k]]
           Done(j) == /\ Folds("tightCalls", row, d, first(j))
                      /\ Aligned(Folded("tightCalls", row, d, first(j)), n)
           undone == {j \in 0..m : ~Done(j)}
<1>1. row.asks \in Seq(Nat) /\ m \in Nat /\ DOMAIN row.asks = 1..m
  BY DEF Row
<1>2. Done(0)
  <2> DEFINE none == first(0)
  <2>1. DOMAIN none = {}
    OBVIOUS
  <2> HIDE DEF none
  <2>2. Folds("tightCalls", row, d, none)
    BY <2>1, FoldsNothing
  <2>3. Folded("tightCalls", row, d, none) = d
    BY <2>1, FoldsNothing
  <2>4. Aligned(Folded("tightCalls", row, d, none), n)
    BY <2>3
  <2> HIDE DEF first
  <2> QED
    BY <2>2, <2>4, Zenon DEF none
<1>3. ASSUME NEW j \in 1..m, Done(j - 1)
      PROVE  Done(j)
  <2> DEFINE i == j - 1
             s == first(i)
             t == row.asks[j]
             b == Folded("tightCalls", row, d, s)
  <2>1. i \in Nat /\ i + 1 = j /\ t \in Nat
    BY <1>1
  <2>2. /\ DOMAIN s = 1..i /\ DOMAIN first(j) = 1..(i + 1) /\ first(j)[i + 1] = t
        /\ \A k \in 1..i : first(j)[k] = s[k]
    BY <2>1
  <2>3. Folds("tightCalls", row, d, s) /\ Aligned(b, n)
    BY <1>3, Zenon
  <2> HIDE DEF first, s, i, t
  <2>4. Longer(s, first(j), i, t)
    BY <2>1, <2>2, Zenon DEF Longer
  <2>5. Folds("tightCalls", row, d, first(j))
    BY <2>3, <2>4, FoldsGrow, Zenon
  <2>6. Folded("tightCalls", row, d, first(j)) =
          FoldStep("tightCalls", row, Folded("tightCalls", row, d, s), t)
    BY <2>3, <2>4, FoldsGrow
  <2> HIDE DEF b
  <2>7. FoldStep("tightCalls", row, b, t) = Tight!RememberTool(b, t, row)
    BY DEF FoldStep
  <2>8. Aligned(Tight!RememberTool(b, t, row), n)
    BY <2>1, <2>3, AlignedRemembered
  <2> QED
    BY <2>6, <2>7, <2>8, <2>5 DEF b
<1> HIDE DEF Done, m
<1>4. undone = {}
  <2> SUFFICES ASSUME undone # {}
               PROVE  FALSE
    OBVIOUS
  <2>1. undone \subseteq Nat
    OBVIOUS
  <2>2. PICK j \in undone : \A y \in undone : j <= y
    BY <2>1, Smallest
  <2>3. j \in 1..m /\ j - 1 \in 0..m /\ ~(j <= j - 1)
    BY <1>1, <1>2, <2>2
  <2>4. Done(j - 1)
    BY <2>2, <2>3
  <2> QED
    BY <1>3, <2>2, <2>3, <2>4
<1>5. Done(m)
  BY <1>1, <1>4
<1>6. row.asks = first(m)
  BY <1>1
<1> HIDE DEF first
<1>7. /\ Folds("tightCalls", row, d, row.asks)
      /\ Aligned(Folded("tightCalls", row, d, row.asks), n)
  BY <1>5, <1>6 DEF Done
<1>8. TightRemembering(d, row.asks, row) = Folded("tightCalls", row, d, row.asks)
  BY <1>7, TightRememberingIs
<1> QED
  BY <1>7, <1>8

LEMMA AlignedContinued ==
  ASSUME NEW d, NEW n, Aligned(d, n), NEW o \in Opened, d.open = <<o>>, NEW ts \in Int
  PROVE  Aligned([d EXCEPT !.open[1].last = ts], n)
<1> DEFINE e == [d EXCEPT !.open[1].last = ts]
           u == [o EXCEPT !.last = ts]
<1>1. Shaped(d) /\ CallsAt(d.tools, n) /\ CallsAt(d.byRow, n) /\ PromptIn(d.prompt, n)
      /\ OpenIn(d.open, n)
  BY Zenon DEF Aligned
<1>2. Shaped(e) /\ Changed(d, e, {"open"}) /\ u \in Opened /\ e.open = <<u>>
  BY <1>1, Continued, Zenon
<1>3. u.offset = o.offset
  BY DEF Opened
<1> HIDE DEF e, u
<1>4. e.tools = d.tools /\ e.byRow = d.byRow /\ e.prompt = d.prompt
  BY <1>2 DEF Changed, Fields
<1>5. o.offset \in Begins(n)
  BY <1>1, Zenon DEF OpenIn
<1>6. \A v : e.open = <<v>> => v = u
  BY <1>2
<1>7. OpenIn(e.open, n)
  BY <1>3, <1>5, <1>6 DEF OpenIn
<1>8. Aligned(e, n)
  BY <1>1, <1>2, <1>4, <1>7, Zenon DEF Aligned
<1> QED
  BY <1>8 DEF e

LEMMA AlignedAssistant ==
  ASSUME NEW d, NEW n \in Nat \ {0}, Aligned(d, n), NEW row \in Row, row.uuid = n
  PROVE  Aligned(Tight!Assistant(d, row), n)
<1> DEFINE asked == TightRemembering(d, row.asks, row)
<1>1. Tight!Assistant(d, row) =
        IF asked.open # <<>> /\ row.req # None /\ asked.open[1].turn.req = row.req
          THEN [asked EXCEPT !.open[1].last = row.ts]
          ELSE OpenTurn(CloseTurn(asked, TRUE), row)
  BY TightAssistantIs, Zenon
<1>2. Aligned(asked, n)
  BY AlignedAllRemembered
<1> HIDE DEF asked
<1>3. Aligned(OpenTurn(CloseTurn(asked, TRUE), row), n)
  <2> DEFINE closed == CloseTurn(asked, TRUE)
  <2>1. Aligned(closed, n)
    BY <1>2, AlignedClosed, Zenon
  <2> HIDE DEF closed
  <2>2. Aligned(OpenTurn(closed, row), n)
    BY <2>1, AlignedOpened
  <2> QED
    BY <2>2 DEF closed
<1>4. ASSUME asked.open # <<>>
      PROVE  Aligned([asked EXCEPT !.open[1].last = row.ts], n)
  <2>1. PICK o \in Opened : asked.open = <<o>>
    BY <1>2, <1>4, Zenon DEF Aligned, Shaped
  <2>2. row.ts \in Int
    BY DEF Row
  <2> QED
    BY <1>2, <2>1, <2>2, AlignedContinued
<1> QED
  BY <1>1, <1>3, <1>4, Zenon

LEMMA AlignedPushed ==
  ASSUME NEW d, NEW n \in Nat \ {0}, Aligned(d, n), NEW row \in Row, row.uuid = n
  PROVE  Aligned(Tight!Push(d, row), n)
<1> DEFINE noted == NoteVersion(d, row)
           closed == CloseTurn(noted, TRUE)
<1>1. Aligned(noted, n)
  BY AlignedNoted, Zenon
<1>2. Aligned(closed, n)
  <2> HIDE DEF noted
  <2> QED
    BY <1>1, AlignedClosed, Zenon
<1>3. Tight!Push(d, row) =
        CASE row.kind = "assistant" -> Tight!Assistant(noted, row)
          [] row.kind = "prompt" -> BeginPrompt(closed, row)
          [] row.kind = "result" -> ToolResult(closed, row)
          [] row.kind = "other" -> ExtendPromptChain(noted, row)
  <2>1. Tight!Push(d, row) =
        CASE row.kind = "assistant" -> Tight!Assistant(Tight!NoteVersion(d, row), row)
          [] row.kind = "prompt" ->
               Tight!BeginPrompt(Tight!CloseTurn(Tight!NoteVersion(d, row), TRUE), row)
          [] row.kind = "result" ->
               Tight!ToolResult(Tight!CloseTurn(Tight!NoteVersion(d, row), TRUE), row)
          [] row.kind = "other" -> Tight!ExtendPromptChain(Tight!NoteVersion(d, row), row)
    BY Zenon DEF Tight!Push
  <2>2. Tight!NoteVersion(d, row) = noted
    BY TightSame, Zenon
  <2> HIDE DEF noted
  <2>3. Tight!CloseTurn(noted, TRUE) = closed
    BY TightSame, Zenon
  <2> HIDE DEF closed
  <2>4. /\ Tight!BeginPrompt(closed, row) = BeginPrompt(closed, row)
        /\ Tight!ToolResult(closed, row) = ToolResult(closed, row)
        /\ Tight!ExtendPromptChain(noted, row) = ExtendPromptChain(noted, row)
    BY TightSame, Zenon
  <2> QED
    BY <2>1, <2>2, <2>3, <2>4, Zenon
<1>4. row.kind \in {"prompt", "assistant", "result", "other"}
  BY DEF Row, RowKinds
<1> HIDE DEF noted, closed
<1>5. Aligned(Tight!Assistant(noted, row), n)
  BY <1>1, AlignedAssistant
<1>6. Aligned(BeginPrompt(closed, row), n) /\ Aligned(ToolResult(closed, row), n)
  BY <1>2, AlignedBegun, AlignedResult
<1>7. Aligned(ExtendPromptChain(noted, row), n)
  BY <1>1, AlignedExtended
<1> QED
  BY <1>3, <1>4, <1>5, <1>6, <1>7

\* Every pass over a beginning of the file that has next to no room.
TightWell(h) ==
  Folds("tightLines", 0, Fresh, h) /\ Aligned(Folded("tightLines", 0, Fresh, h), Len(h))
TightCuts(h) == \A k \in 1..Len(h) : TightWell(SubSeq(h, 1, k))

LEMMA TightNothing == TightWell(<<>>)
<1> DEFINE none == <<>>
<1>1. DOMAIN none = {} /\ Len(none) = 0
  OBVIOUS
<1> HIDE DEF none
<1>2. Folds("tightLines", 0, Fresh, none) /\ Folded("tightLines", 0, Fresh, none) = Fresh
  BY <1>1, FoldsNothing
<1>3. TightWell(none)
  BY <1>1, <1>2, AlignedFresh DEF TightWell
<1> QED
  BY <1>3 DEF none

LEMMA TightGrows ==
  ASSUME NEW h, NEW row, NEW g, NEW n, Grows(h, row, g, n), TightWell(h)
  PROVE  TightWell(g)
<1>1. /\ Len(h) \in Nat /\ n \in Nat \ {0} /\ n - 1 = Len(h) /\ Len(g) = n
      /\ DOMAIN h = 1..Len(h) /\ DOMAIN g = 1..n /\ g[n] = row /\ row.uuid = n /\ row \in Row
      /\ \A i \in 1..Len(h) : g[i] = h[i]
  BY Grown
<1> DEFINE m == Len(h)
           b == Folded("tightLines", 0, Fresh, h)
<1>2. Longer(h, g, m, row)
  BY <1>1 DEF Longer
<1>3. Folds("tightLines", 0, Fresh, h) /\ Aligned(b, m)
  BY DEF TightWell
<1> HIDE DEF m
<1>4. Folds("tightLines", 0, Fresh, g)
  BY <1>2, <1>3, FoldsGrow
<1>5. Folded("tightLines", 0, Fresh, g) = FoldStep("tightLines", 0, b, row)
  BY <1>2, <1>3, FoldsGrow
<1> HIDE DEF b
<1>6. FoldStep("tightLines", 0, b, row) = Tight!Push(b, row)
  <2>1. Tight!Start(row.uuid) >= 0
    BY <1>1 DEF Tight!Start
  <2> QED
    BY <2>1 DEF FoldStep
<1>7. Aligned(b, n)
  <2>1. m \in Nat /\ n \in Nat /\ m <= n
    BY <1>1 DEF m
  <2> QED
    BY <1>3, <2>1, AlignedLater
<1>8. Aligned(Tight!Push(b, row), n)
  BY <1>1, <1>7, AlignedPushed
<1> QED
  BY <1>1, <1>4, <1>5, <1>6, <1>8 DEF TightWell

LEMMA TightCutsGrow ==
  ASSUME NEW h, NEW row, NEW g, NEW n, Grows(h, row, g, n), TightCuts(h)
  PROVE  TightCuts(g)
<1>1. /\ Len(h) \in Nat /\ n \in Nat /\ n - 1 = Len(h) /\ Len(g) = n
      /\ \A i \in 1..Len(h) : g[i] = h[i]
  BY Grown
<1>2. h \in Seq(Row) /\ g \in Seq(Row)
  BY Grown, Lines DEF Grows
<1>3. ASSUME NEW k \in 1..Len(h)
      PROVE  TightWell(SubSeq(g, 1, k))
  <2>1. SubSeq(g, 1, k) = SubSeq(h, 1, k)
    <3>1. \A i \in 1..k : g[i] = h[i]
      BY <1>1
    <3>2. SubSeq(g, 1, k) = [i \in 1..k |-> g[i]] /\ SubSeq(h, 1, k) = [i \in 1..k |-> h[i]]
      BY <1>1
    <3> QED
      BY <3>1, <3>2
  <2> QED
    BY <2>1 DEF TightCuts
<1>4. TightWell(g)
  <2>1. TightWell(h)
    <3>1. CASE h = <<>>
      BY <3>1, TightNothing
    <3>2. CASE h # <<>>
      <4>1. Len(h) \in 1..Len(h) /\ SubSeq(h, 1, Len(h)) = h
        BY <1>2, <3>2
      <4> QED
        BY <4>1 DEF TightCuts
    <3> QED
      BY <3>1, <3>2
  <2> QED
    BY <2>1, TightGrows
<1>5. SubSeq(g, 1, n) = g
  BY <1>1, <1>2
<1>6. 1..Len(g) = (1..Len(h)) \cup {n}
  BY <1>1
<1> QED
  BY <1>3, <1>4, <1>5, <1>6, Zenon DEF TightCuts

\* The earliest of some lines that began near enough, or the end.
LEMMA TightOffset ==
  ASSUME NEW h, NEW k \in Nat, Len(h) = k, TightWell(h),
         NEW offset, offset = Tight!Import(h, FALSE, 0, FALSE).offset
  PROVE  offset \in {Start(i) : i \in 1..(k + 1)} /\ offset >= 2 * k - TightReread
<1> DEFINE d == Tight!Fed(h, 0)
<1>1. Aligned(d, k)
  BY TightFedIs, Zenon DEF TightWell
<1>2. offset = Tight!ResumeOffset(d, 2 * k)
  <2>1. Tight!StartOffset(0, Tight!End(h) + 0) = 0
    BY DEF Tight!StartOffset
  <2> DEFINE pass == Tight!Import(h, FALSE, 0, FALSE)
  <2>2. pass = [records |-> d.out, offset |-> Tight!ResumeOffset(d, Tight!End(h))]
    BY <2>1, Zenon DEF Tight!Import
  <2>3. offset = pass.offset
    BY Zenon
  <2> HIDE DEF pass, d
  <2>4. pass.offset = Tight!ResumeOffset(d, Tight!End(h))
    BY ONLY <2>2
  <2>5. Tight!End(h) = 2 * k
    BY DEF Tight!End
  <2> QED
    BY <2>3, <2>4, <2>5
<1> HIDE DEF d
<1> DEFINE near == {o \in Tight!Awaited(d) : o >= 2 * k - TightReread}
<1>3. offset = IF near = {} THEN 2 * k ELSE Min(near)
  BY <1>2, Zenon DEF Tight!ResumeOffset, Tight!Min, Min
<1>4. Tight!Awaited(d) \subseteq Begins(k)
  <2>1. Tight!Awaited(d) = {p.offset : p \in d.tools} \cup {d.prompt[i].offset : i \in DOMAIN d.prompt}
                             \cup {d.open[i].offset : i \in DOMAIN d.open}
    BY Zenon DEF Tight!Awaited
  <2>2. \A p \in d.tools : p.offset \in Begins(k)
    BY <1>1 DEF Aligned, CallsAt
  <2>3. \A i \in DOMAIN d.prompt : d.prompt[i].offset \in Begins(k)
    <3>1. CASE d.prompt = <<>>
      BY <3>1
    <3>2. CASE d.prompt # <<>>
      <4>1. PICK P, ts, at : /\ d.prompt = <<P>> /\ at \in Begins(k)
                             /\ P = [ts |-> ts, chain |-> P.chain, offset |-> at]
        BY <1>1, <3>2 DEF Aligned, PromptIn
      <4>2. P.offset = at
        BY <4>1
      <4>3. DOMAIN d.prompt = {1} /\ d.prompt[1] = P
        BY <4>1
      <4> QED
        BY <4>1, <4>2, <4>3
    <3> QED
      BY <3>1, <3>2
  <2>4. \A i \in DOMAIN d.open : d.open[i].offset \in Begins(k)
    <3>1. CASE d.open = <<>>
      BY <3>1
    <3>2. ASSUME NEW o \in Opened, d.open = <<o>>
          PROVE  \A i \in DOMAIN d.open : d.open[i].offset \in Begins(k)
      <4>1. o.offset \in Begins(k)
        BY <1>1, <3>2, Zenon DEF Aligned, OpenIn
      <4>2. DOMAIN d.open = {1} /\ d.open[1] = o
        BY <3>2
      <4> QED
        BY <4>1, <4>2
    <3> QED
      BY <1>1, <3>1, <3>2 DEF Aligned, Shaped
  <2> QED
    BY <2>1, <2>2, <2>3, <2>4
<1>5. Begins(k) \subseteq {Start(i) : i \in 1..(k + 1)} /\ Begins(k) \subseteq Nat
  BY DEF Begins, Start
<1>6. CASE near = {}
  <2>1. 2 * k = Start(k + 1) /\ k + 1 \in 1..(k + 1)
    BY DEF Start
  <2>2. 2 * k >= 2 * k - TightReread
    BY DEF TightReread
  <2> QED
    BY <1>3, <1>6, <2>1, <2>2
<1>7. CASE near # {}
  <2>1. near \subseteq Nat
    BY <1>4, <1>5
  <2>2. Min(near) \in near
    BY <1>7, <2>1, MinIs
  <2>3. Min(near) \in Begins(k) /\ Min(near) >= 2 * k - TightReread
    BY <1>4, <2>2
  <2> QED
    BY <1>3, <1>5, <1>7, <2>3
<1> QED
  BY <1>6, <1>7


-----------------------------------------------------------------------------
(* Wherever a pass stopped, the next one goes on                           *)

Resuming == Growth /\ (Roomy(rows) => Cuts(rows)) /\ TightCuts(rows)

LEMMA ResumingBegins == Empty => Resuming
<1>1. TightCuts(<<>>)
  BY DEF TightCuts
<1> QED
  BY <1>1, GrowthBegins, CutsNothing DEF Empty, Resuming

LEMMA ResumingGoesOn == Resuming /\ [Grow]_rows => Resuming'
<1> SUFFICES ASSUME Resuming, [Grow]_rows
             PROVE  Resuming'
  OBVIOUS
<1>1. Growth /\ Growth'
  BY GrowthGoesOn DEF Resuming
<1>2. CASE Write
  <2>1. PICK row \in NextRows(rows) : rows' = Append(rows, row)
    BY <1>2 DEF Write
  <2>2. Orderly(rows) /\ Len(rows) < MaxRows /\ NewRow(rows, row)
    BY <1>1, <1>2, NextRow DEF Growth, Write
  <2>3. row \in Row
    BY <2>2, NewTyped
  <2>4. Grows(rows, row, rows', Len(rows) + 1)
    BY <2>1, <2>2, <2>3, Zenon DEF Grows
  <2>5. ASSUME Roomy(rows')
        PROVE  Cuts(rows')
    <3>1. Calm(rows') /\ End(rows') <= MaxReread
      BY <2>5 DEF Roomy
    <3>2. FedWell(rows')
      BY <1>1, <3>1 DEF Growth
    <3>3. Calm(rows)
      BY <2>4, <3>1, CalmBefore
    <3>4. Roomy(rows)
      <4>1. Len(rows) \in Nat /\ Len(rows') = Len(rows) + 1
        BY <2>4, Grown
      <4> QED
        BY <3>1, <3>3, <4>1, DeriverAssumption DEF Roomy, End
    <3>5. Cuts(rows)
      BY <3>4 DEF Resuming
    <3> QED
      BY <2>4, <3>1, <3>2, <3>5, CutsGrow, Zenon
  <2>6. TightCuts(rows')
    BY <2>4, TightCutsGrow DEF Resuming
  <2> QED
    BY <1>1, <2>5, <2>6 DEF Resuming
<1>3. CASE UNCHANGED rows
  BY <1>1, <1>3, Zenon DEF Resuming
<1> QED
  BY <1>2, <1>3 DEF Grow, Full

LEMMA ResumingIsExact == Resuming => ResumesExactly
<1> SUFFICES ASSUME Resuming, Roomy(rows), NEW k \in 1..(Len(rows) - 1)
             PROVE  SameMeasures(Cut(k), Whole)
  BY Zenon DEF ResumesExactly
<1>1. Growth /\ Cuts(rows)
  BY DEF Resuming
<1>2. Orderly(rows) /\ Calm(rows) /\ FedWell(rows)
  BY <1>1 DEF Growth, Roomy
<1>3. MeasuresTruth
  BY <1>1, GrowthMeasures
<1>4. k \in 1..Len(rows) /\ Len(rows) \in Nat
  BY <1>2, Lines
<1>5. PICK m \in 1..(k + 1) : Saved(rows, m, Unfinished(SubSeq(rows, 1, k)))
  BY <1>1, <1>4 DEF Cuts
<1>6. m \in 1..(Len(rows) + 1)
  BY <1>4
<1>7. Cut(k) = Resumed(Unfinished(SubSeq(rows, 1, k)))
  BY Zenon DEF Cut, Before, Unfinished
<1>8. SameMeasures(Resumed(Unfinished(SubSeq(rows, 1, k))), Whole)
  BY <1>2, <1>3, <1>5, <1>6, SameIs
<1> QED
  BY <1>7, <1>8

LEMMA ResumingIsOnALine == Resuming => ResumesOnALine
<1> SUFFICES ASSUME Resuming
             PROVE  ResumesOnALine
  OBVIOUS
<1>1. ASSUME NEW k \in 1..Len(rows)
      PROVE  LET offset == Tight!Import(SubSeq(rows, 1, k), FALSE, 0, FALSE).offset
             IN  offset \in {Start(i) : i \in 1..(k + 1)} /\ offset >= 2 * k - TightReread
  <2> DEFINE h == SubSeq(rows, 1, k)
             offset == Tight!Import(h, FALSE, 0, FALSE).offset
  <2>1. Len(rows) \in Nat /\ rows \in Seq(Row)
    BY Lines DEF Resuming, Growth
  <2>2. k \in Nat /\ Len(h) = k
    BY <2>1
  <2>3. TightWell(h)
    BY DEF Resuming, TightCuts
  <2> HIDE DEF h
  <2>4. offset \in {Start(i) : i \in 1..(k + 1)} /\ offset >= 2 * k - TightReread
    BY <2>2, <2>3, TightOffset
  <2> QED
    BY <2>4, Zenon DEF h
<1> QED
  BY <1>1, Zenon DEF ResumesOnALine

-----------------------------------------------------------------------------
(* What is recorded behind a mark                                          *)

\* A request, a result row: in the tables, refused there, or sent before record j.
Measured(tables, sent, j, r) ==
  \/ \E t \in tables.turns : t.req = r
  \/ TurnRefused(tables, r)
  \/ \E i \in 1..(j - 1) : sent[i].what = "turn" /\ sent[i].req = r
Answered(tables, sent, j, u) ==
  \/ \E c \in tables.tools : c.uuid = u
  \/ CallRefused(tables, u)
  \/ \E i \in 1..(j - 1) : sent[i].what = "tool" /\ sent[i].uuid = u

\* Before row k nothing is pending, and what began there is recorded, refused or sent.
Behind(h, k, tables, sent, j) ==
  /\ k \in 1..(Len(h) + 1)
  /\ NothingPending(h, k)
  /\ \A r \in Measurable(h) : Opening(h, r) < k => Measured(tables, sent, j, r)
  /\ \A c \in TimedCalls(h) : AskedBy(h, c.tool) < k => Answered(tables, sent, j, c.uuid)

Marked(h, offset, tables, sent, j) ==
  \E k \in Nat : offset = Start(k) /\ Behind(h, k, tables, sent, j)

\* What record j says is so: a turn, unless its request is recorded already; a call; a mark.
Measuring(h, tables, sent, j) ==
  sent[j].what = "turn" =>
    /\ sent[j].req \in Measurable(h) /\ sent[j].uuid \in RowsOf(h, sent[j].req)
    /\ Right(h, sent[j]) \/ Measured(tables, sent, j, sent[j].req)
Sends(h, tables, sent, j) ==
  /\ sent[j].what \in {"turn", "tool", "version", "mark", "forget"}
  /\ Measuring(h, tables, sent, j)
  /\ sent[j].what = "tool" => sent[j] \in TimedCalls(h)
  /\ sent[j].what = "mark" => Marked(h, sent[j].offset, tables, sent, j)

Tabular(tables) ==
  tables = [turns |-> tables.turns, tools |-> tables.tools, versions |-> tables.versions,
            mark |-> tables.mark, refused |-> tables.refused]

Holds(h, tables) ==
  /\ Tabular(tables)
  /\ \A t \in tables.turns :
       /\ t.req \in Measurable(h) /\ t.uuid \in RowsOf(h, t.req)
       /\ Right(h, t) \/ TurnRefused(tables, t.req)
  /\ tables.tools \subseteq TimedCalls(h)
  /\ \/ tables.mark = <<>>
     \/ \E m : tables.mark = <<m>> /\ Marked(h, m.offset, tables, <<>>, 1)

Placed(h, p, tables, sent) ==
  p = <<>> \/ Marked(h, p[1].offset, tables, sent, Len(sent) + 1)

Queue(h, sent, tables) ==
  /\ \E S : sent \in Seq(S)
  /\ \A j \in 1..Len(sent) : Sends(h, tables, sent, j)

Sound(h, p, sent, tables) ==
  Orderly(h) /\ FedWell(h) /\ Holds(h, tables) /\ Queue(h, sent, tables) /\ Placed(h, p, tables, sent)

\* Whatever is recorded the one way is recorded the other.
Covers(tables, sent, i, later, left, j) ==
  /\ \A r : Measured(tables, sent, i, r) => Measured(later, left, j, r)
  /\ \A u : Answered(tables, sent, i, u) => Answered(later, left, j, u)

LEMMA Carried ==
  ASSUME NEW h, NEW offset, NEW tables, NEW sent, NEW i, NEW later, NEW left, NEW j,
         Marked(h, offset, tables, sent, i), Covers(tables, sent, i, later, left, j)
  PROVE  Marked(h, offset, later, left, j)
<1>1. PICK k \in Nat : offset = Start(k) /\ Behind(h, k, tables, sent, i)
  BY DEF Marked
<1>2. Behind(h, k, later, left, j)
  BY <1>1, Zenon DEF Behind, Covers
<1> QED
  BY <1>1, <1>2, Zenon DEF Marked

LEMMA SendsOn ==
  ASSUME NEW h, NEW tables, NEW sent, NEW i, NEW later, NEW left, NEW j,
         Sends(h, tables, sent, i), left[j] = sent[i], Covers(tables, sent, i, later, left, j)
  PROVE  Sends(h, later, left, j)
<1>1. Measuring(h, later, left, j)
  BY Zenon DEF Sends, Measuring, Covers
<1>2. sent[i].what = "mark" => Marked(h, sent[i].offset, later, left, j)
  BY Carried DEF Sends
<1> QED
  BY <1>1, <1>2 DEF Sends

\* The same tables, and a queue that begins the same.
LEMMA SameStart ==
  ASSUME NEW tables, NEW sent, NEW left, NEW i \in Nat, NEW j \in Nat, i <= j,
         \A x \in 1..(i - 1) : left[x] = sent[x]
  PROVE  Covers(tables, sent, i, tables, left, j)
<1>1. \A x \in 1..(i - 1) : x \in 1..(j - 1) /\ left[x] = sent[x]
  OBVIOUS
<1> QED
  BY <1>1 DEF Covers, Measured, Answered

-----------------------------------------------------------------------------
(* Every step keeps it so                                                  *)

\* The file grows.
LEMMA StaysBehind ==
  ASSUME NEW h, NEW row, NEW g, NEW n, Grows(h, row, g, n),
         NEW offset, NEW tables, NEW sent, NEW j, Marked(h, offset, tables, sent, j)
  PROVE  Marked(g, offset, tables, sent, j)
<1>1. PICK k \in Nat : offset = Start(k) /\ Behind(h, k, tables, sent, j)
  BY DEF Marked
<1>2. Len(h) \in Nat /\ n = Len(h) + 1 /\ Len(g) = n /\ Orderly(h) /\ Orderly(g)
  <2>1. Len(h) \in Nat /\ n = Len(h) + 1 /\ Len(g) = n
    BY Grown DEF Grows
  <2>2. Orderly(h)
    BY DEF Grows
  <2> QED
    BY <2>1, <2>2, StaysOrderly
<1>3. k \in 1..n /\ k \in 1..(Len(g) + 1) /\ NothingPending(h, k)
  BY <1>1, <1>2 DEF Behind
<1>4. NothingPending(g, k)
  BY <1>3, StaysAnswered
<1>5. ASSUME NEW r \in Measurable(g), Opening(g, r) < k
      PROVE  Measured(tables, sent, j, r)
  <2>1. r \in RequestsIn(g)
    BY <1>2, Real
  <2>2. CASE r \in RequestsIn(h)
    <3>1. r \in Measurable(h)
      BY <2>2, GrownRequests
    <3>2. Opening(g, r) = Opening(h, r)
      BY <2>2, GrownOpening
    <3> QED
      BY <1>1, <1>5, <3>1, <3>2 DEF Behind
  <2>3. CASE r \notin RequestsIn(h)
    <3>1. row.kind = "assistant" /\ row.req = r
      BY <2>1, <2>3, GrownSets
    <3>2. Opening(g, r) = n
      BY <2>3, <3>1, GrownOpening
    <3> QED
      BY <1>2, <1>3, <1>5, <3>2
  <2> QED
    BY <2>2, <2>3
<1>6. ASSUME NEW c \in TimedCalls(g), AskedBy(g, c.tool) < k
      PROVE  Answered(tables, sent, j, c.uuid)
  <2>1. /\ c.uuid \in 1..Len(g) /\ c.tool \in ToolsIn(g) /\ Answers(g, c.uuid, c.tool)
        /\ AskedBy(g, c.tool) \in 1..(c.uuid - 1)
    BY <1>2, TimedFields
  <2>2. CASE c \in TimedCalls(h)
    <3>1. c.tool \in ToolsIn(h)
      BY <1>2, <2>2, TimedFields
    <3>2. AskedBy(g, c.tool) = AskedBy(h, c.tool)
      BY <3>1, GrownAsker
    <3> QED
      BY <1>1, <1>6, <2>2, <3>2 DEF Behind
  <2>3. CASE c \notin TimedCalls(h)
    <3>1. c.uuid = n
      BY <2>3, GrownTimed
    <3>2. row.kind = "result"
      BY <2>1, <3>1, GrownAnswers
    <3>3. c.tool \in Unanswered(h) /\ c.tool \in ToolsIn(h)
      BY <2>1, <3>1, <3>2, GrownAnswers
    <3>4. AskedBy(h, c.tool) < k
      <4>1. AskedBy(g, c.tool) = AskedBy(h, c.tool)
        BY <3>3, GrownAsker
      <4> QED
        BY <1>6, <4>1
    <3>5. \E i \in 1..Len(h) : Answers(h, i, c.tool)
      BY <1>3, <3>3, <3>4 DEF NothingPending
    <3>6. DOMAIN h = 1..Len(h)
      BY <1>2, Lines
    <3> QED
      BY <3>3, <3>5, <3>6 DEF Unanswered
  <2> QED
    BY <2>2, <2>3
<1>7. Behind(g, k, tables, sent, j)
  BY <1>3, <1>4, <1>5, <1>6, Zenon DEF Behind
<1> QED
  BY <1>1, <1>7, Zenon DEF Marked

LEMMA TurnStays ==
  ASSUME NEW h, NEW row, NEW g, NEW n, Grows(h, row, g, n),
         NEW t, t.req \in Measurable(h), t.uuid \in RowsOf(h, t.req)
  PROVE  /\ t.req \in Measurable(g) /\ t.uuid \in RowsOf(g, t.req)
         /\ Right(h, t) => Right(g, t)
<1>1. t.req \in RequestsIn(h)
  <2>1. Orderly(h)
    BY DEF Grows
  <2> QED
    BY <2>1, Real
<1>2. t.req \in Measurable(g) /\ t.uuid \in RowsOf(g, t.req)
  BY <1>1, GrownRequests
<1> QED
  BY <1>1, <1>2, StaysRight

LEMMA SoundGrows ==
  ASSUME NEW h, NEW row, NEW g, NEW n, Grows(h, row, g, n), Calm(g),
         NEW p, NEW sent, NEW tables, Sound(h, p, sent, tables)
  PROVE  Sound(g, p, sent, tables)
<1>1. FedWell(h) /\ Holds(h, tables) /\ Queue(h, sent, tables) /\ Placed(h, p, tables, sent)
  BY DEF Sound
<1>2. Orderly(g) /\ FedWell(g)
  BY <1>1, StaysOrderly, FedGrows
<1>3. TimedCalls(h) \subseteq TimedCalls(g)
  BY GrownTimed
<1>4. Holds(g, tables)
  <2>1. \A t \in tables.turns :
          /\ t.req \in Measurable(g) /\ t.uuid \in RowsOf(g, t.req)
          /\ Right(g, t) \/ TurnRefused(tables, t.req)
    BY <1>1, TurnStays DEF Holds
  <2>2. ASSUME NEW m, tables.mark = <<m>>, Marked(h, m.offset, tables, <<>>, 1)
        PROVE  Marked(g, m.offset, tables, <<>>, 1)
    BY <2>2, StaysBehind
  <2>3. tables.tools \subseteq TimedCalls(g)
    BY <1>1, <1>3 DEF Holds
  <2>4. tables.mark = <<>> \/ \E m : tables.mark = <<m>> /\ Marked(g, m.offset, tables, <<>>, 1)
    BY <1>1, <2>2, Zenon DEF Holds
  <2> QED
    BY <1>1, <2>1, <2>3, <2>4, Zenon DEF Holds
<1>5. Queue(g, sent, tables)
  <2>1. SUFFICES ASSUME NEW j \in 1..Len(sent), Sends(h, tables, sent, j)
                 PROVE  Sends(g, tables, sent, j)
    BY <1>1, Zenon DEF Queue
  <2>2. Measuring(g, tables, sent, j)
    BY <2>1, TurnStays, Zenon DEF Sends, Measuring
  <2>3. sent[j].what = "mark" => Marked(g, sent[j].offset, tables, sent, j)
    BY <2>1, StaysBehind DEF Sends
  <2>4. sent[j].what = "tool" => sent[j] \in TimedCalls(g)
    BY <1>3, <2>1 DEF Sends
  <2> QED
    BY <2>1, <2>2, <2>3, <2>4, Zenon DEF Sends
<1>6. Placed(g, p, tables, sent)
  BY <1>1, StaysBehind DEF Placed
<1> QED
  BY <1>2, <1>4, <1>5, <1>6, Zenon DEF Sound


\* The start of a process, and of the importer.
LEMMA SoundNothing == Sound(<<>>, <<>>, <<>>, EmptyTables)
<1>1. Orderly(<<>>) /\ FedWell(<<>>)
  BY OrderlyNothing, FedNothing
<1>2. Holds(<<>>, EmptyTables)
  <2>1. /\ EmptyTables.turns = {} /\ EmptyTables.tools = {} /\ EmptyTables.mark = <<>>
        /\ Tabular(EmptyTables)
    BY DEF EmptyTables, Tabular
  <2> HIDE DEF EmptyTables
  <2> QED
    BY <2>1, Zenon DEF Holds
<1>3. Queue(<<>>, <<>>, EmptyTables)
  <2>1. <<>> \in Seq({}) /\ 1..Len(<<>>) = {}
    OBVIOUS
  <2> QED
    BY <2>1, Zenon DEF Queue
<1>4. Placed(<<>>, <<>>, EmptyTables, <<>>)
  BY Zenon DEF Placed
<1> QED
  BY <1>1, <1>2, <1>3, <1>4, Zenon DEF Sound

LEMMA SoundRestart ==
  ASSUME NEW h, NEW p, NEW sent, NEW tables, Sound(h, p, sent, tables)
  PROVE  Sound(h, <<>>, sent, tables) /\ Sound(h, <<>>, <<>>, tables)
<1>1. Queue(h, <<>>, tables)
  <2>1. <<>> \in Seq({}) /\ 1..Len(<<>>) = {}
    OBVIOUS
  <2> QED
    BY <2>1, Zenon DEF Queue
<1>2. Placed(h, <<>>, tables, sent) /\ Placed(h, <<>>, tables, <<>>)
  BY Zenon DEF Placed
<1> QED
  BY <1>1, <1>2, Zenon DEF Sound

\* What is committed is sent as well.
LEMMA SoundLoaded ==
  ASSUME NEW h, NEW p, NEW sent, NEW tables, Sound(h, p, sent, tables), NEW loaded,
         tables.mark = <<>> => loaded = <<>>,
         \A m : tables.mark = <<m>> => loaded[1].offset = m.offset
  PROVE  Sound(h, loaded, sent, tables)
<1>1. Holds(h, tables) /\ Queue(h, sent, tables)
  BY DEF Sound
<1>2. Len(sent) \in Nat
  BY <1>1 DEF Queue
<1>3. Covers(tables, <<>>, 1, tables, sent, Len(sent) + 1)
  BY <1>2, SameStart
<1>4. Placed(h, loaded, tables, sent)
  <2>1. ASSUME NEW m, tables.mark = <<m>>, Marked(h, m.offset, tables, <<>>, 1)
        PROVE  Placed(h, loaded, tables, sent)
    <3>1. Marked(h, m.offset, tables, sent, Len(sent) + 1)
      BY <1>3, <2>1, Carried
    <3> QED
      BY <2>1, <3>1 DEF Placed
  <2>2. CASE tables.mark = <<>>
    BY <2>2, Zenon DEF Placed
  <2> QED
    BY <1>1, <2>1, <2>2, Zenon DEF Holds
<1> QED
  BY <1>1, <1>4, Zenon DEF Sound

\* More is sent after what was sent before.
LEMMA SoundSends ==
  ASSUME NEW h, NEW p, NEW sent, NEW tables, Sound(h, p, sent, tables),
         NEW left, NEW S, left \in Seq(S), Len(sent) <= Len(left),
         \A j \in 1..Len(sent) : left[j] = sent[j],
         \A j \in (Len(sent) + 1)..Len(left) : Sends(h, tables, left, j),
         NEW moved, Placed(h, moved, tables, left)
  PROVE  Sound(h, moved, left, tables)
<1>1. Queue(h, sent, tables) /\ Len(sent) \in Nat /\ Len(left) \in Nat
  <2>1. Queue(h, sent, tables)
    BY DEF Sound
  <2> QED
    BY <2>1 DEF Queue
<1>2. ASSUME NEW j \in 1..Len(left)
      PROVE  Sends(h, tables, left, j)
  <2>1. CASE j \in 1..Len(sent)
    <3>1. Sends(h, tables, sent, j) /\ left[j] = sent[j]
      BY <1>1, <2>1 DEF Queue
    <3>2. Covers(tables, sent, j, tables, left, j)
      <4>1. \A x \in 1..(j - 1) : left[x] = sent[x]
        BY <1>1, <2>1
      <4> QED
        BY <2>1, <4>1, SameStart
    <3> QED
      BY <3>1, <3>2, SendsOn
  <2>2. CASE j \notin 1..Len(sent)
    <3>1. j \in (Len(sent) + 1)..Len(left)
      BY <1>1, <2>2
    <3> QED
      BY <3>1
  <2> QED
    BY <2>1, <2>2
<1>3. Queue(h, left, tables)
  BY <1>2, Zenon DEF Queue
<1> QED
  BY <1>3, Zenon DEF Sound

\* A file that departed is forgotten.
LEMMA SoundForgets ==
  ASSUME NEW h, NEW p, NEW sent, NEW tables, Sound(h, p, sent, tables)
  PROVE  Sound(h, <<>>, Append(sent, [what |-> "forget"]), tables)
<1>1. Queue(h, sent, tables)
  BY DEF Sound
<1>2. PICK S : sent \in Seq(S)
  BY <1>1 DEF Queue
<1> DEFINE forget == [what |-> "forget"]
           left == Append(sent, forget)
<1>3. /\ left \in Seq(S \cup {forget}) /\ Len(left) = Len(sent) + 1 /\ Len(sent) \in Nat
      /\ \A j \in 1..Len(sent) : left[j] = sent[j]
      /\ left[Len(sent) + 1] = forget /\ forget.what = "forget"
  BY <1>2
<1>4. \A j \in (Len(sent) + 1)..Len(left) : Sends(h, tables, left, j)
  <2>1. \A j \in (Len(sent) + 1)..Len(left) : left[j].what = "forget"
    BY <1>3
  <2> QED
    BY <2>1 DEF Sends, Measuring
<1>5. Placed(h, <<>>, tables, left)
  BY Zenon DEF Placed
<1> HIDE DEF left, forget
<1>6. Sound(h, <<>>, left, tables)
  BY <1>3, <1>4, <1>5, SoundSends
<1> QED
  BY <1>6 DEF left, forget


\* A file no position is kept of is read from its first row.
LEMMA NothingBehind ==
  ASSUME NEW h, Orderly(h), NEW tables, NEW sent, NEW j
  PROVE  Behind(h, 1, tables, sent, j)
<1>1. Len(h) \in Nat
  BY Lines
<1>2. NothingPending(h, 1)
  <2>1. \A t \in ToolsIn(h) : AskedBy(h, t) \in 1..Len(h)
    BY Asker, Lines
  <2> QED
    BY <1>1, <2>1 DEF NothingPending
<1>3. \A r \in Measurable(h) : ~ (Opening(h, r) < 1)
  <2>1. SUFFICES ASSUME NEW r \in Measurable(h)
                 PROVE  ~ (Opening(h, r) < 1)
    OBVIOUS
  <2>2. Opening(h, r) \in RowsOf(h, r) /\ RowsOf(h, r) \subseteq 1..Len(h)
    BY Real, RowsOfIs
  <2> QED
    BY <1>1, <2>2
<1>4. \A c \in TimedCalls(h) : ~ (AskedBy(h, c.tool) < 1)
  <2>1. SUFFICES ASSUME NEW c \in TimedCalls(h)
                 PROVE  ~ (AskedBy(h, c.tool) < 1)
    OBVIOUS
  <2>2. AskedBy(h, c.tool) \in 1..(c.uuid - 1) /\ c.uuid \in 1..Len(h)
    BY TimedFields
  <2> QED
    BY <1>1, <2>2
<1>5. 1 \in 1..(Len(h) + 1)
  BY <1>1
<1> QED
  BY <1>2, <1>3, <1>4, <1>5, Zenon DEF Behind

LEMMA ResumesBehind ==
  ASSUME NEW h, NEW p, NEW sent, NEW tables, Sound(h, p, sent, tables)
  PROVE  \E k \in 1..(Len(h) + 1) : /\ (IF p = <<>> THEN 0 ELSE p[1].offset) = Start(k)
                                    /\ Behind(h, k, tables, sent, Len(sent) + 1)
<1>1. Orderly(h) /\ Placed(h, p, tables, sent)
  BY DEF Sound
<1>2. CASE p = <<>>
  <2>1. Behind(h, 1, tables, sent, Len(sent) + 1)
    BY <1>1, NothingBehind
  <2>2. 1 \in 1..(Len(h) + 1) /\ Start(1) = 0
    BY <2>1 DEF Behind, Start
  <2> QED
    BY <1>2, <2>1, <2>2
<1>3. CASE p # <<>>
  <2>1. Marked(h, p[1].offset, tables, sent, Len(sent) + 1)
    BY <1>1, <1>3 DEF Placed
  <2>2. PICK k \in Nat : p[1].offset = Start(k) /\ Behind(h, k, tables, sent, Len(sent) + 1)
    BY <2>1, Zenon DEF Marked
  <2>3. k \in 1..(Len(h) + 1)
    BY <2>2 DEF Behind
  <2> QED
    BY <1>3, <2>2, <2>3
<1> QED
  BY <1>2, <1>3

\* A queue that holds what was sent before, and then these records.
Follows(left, sent, n, records) ==
  /\ \A j \in 1..n : left[j] = sent[j]
  /\ \A i \in 1..Len(records) : left[n + i] = records[i]

\* The records of a pass, after what was sent before.
LEMMA ReportsSent ==
  ASSUME NEW h, Orderly(h), NEW k, NEW m, NEW records, Reports(h, k, m, records),
         NEW tables, NEW sent, NEW n \in Nat, Behind(h, k, tables, sent, n + 1),
         NEW left, Follows(left, sent, n, records),
         NEW i \in 1..Len(records)
  PROVE  Sends(h, tables, left, n + i)
<1>1. /\ records \in Seq(Record) /\ Len(records) \in Nat /\ records[i] \in Record
      /\ records[i] \in Range(records)
  <2>1. records \in Seq(Record)
    BY DEF Reports
  <2> QED
    BY <2>1 DEF Range
<1>2. left[n + i] = records[i]
  BY DEF Follows
<1>3. records[i].what \in {"turn", "tool", "version"}
  BY <1>1 DEF Record, TurnRecord, ToolRecord, VersionRecord
<1>4. records[i].what = "tool" => records[i] \in TimedCalls(h)
  BY <1>1 DEF Reports
<1>5. Measuring(h, tables, left, n + i)
  <2>1. SUFFICES ASSUME records[i].what = "turn"
                 PROVE  /\ records[i].req \in Measurable(h)
                        /\ records[i].uuid \in RowsOf(h, records[i].req)
                        /\ Right(h, records[i]) \/ Measured(tables, left, n + i, records[i].req)
    BY <1>2, Zenon DEF Measuring
  <2> DEFINE r == records[i].req
  <2>2. /\ r \in Measurable(h) /\ records[i].uuid \in RowsOf(h, r)
        /\ Opening(h, r) >= k => Right(h, records[i])
    BY <1>1, <2>1 DEF Reports
  <2>3. CASE Opening(h, r) < k
    <3>1. Measured(tables, sent, n + 1, r)
      BY <2>2, <2>3 DEF Behind
    <3>2. Covers(tables, sent, n + 1, tables, left, n + i)
      <4>1. n + 1 \in Nat /\ n + i \in Nat /\ n + 1 <= n + i
        BY <1>1
      <4>2. \A x \in 1..(n + 1 - 1) : left[x] = sent[x]
        BY DEF Follows
      <4> QED
        BY <4>1, <4>2, SameStart
    <3> QED
      BY <2>2, <3>1, <3>2, Zenon DEF Covers
  <2>4. CASE ~ (Opening(h, r) < k)
    <3>1. Opening(h, r) \in Nat /\ k \in Nat
      <4>1. Opening(h, r) \in RowsOf(h, r) /\ RowsOf(h, r) \subseteq 1..Len(h) /\ Len(h) \in Nat
        BY <2>2, Real, RowsOfIs, Lines
      <4>2. k \in 1..(Len(h) + 1)
        BY DEF Behind
      <4> QED
        BY <4>1, <4>2
    <3> QED
      BY <2>2, <2>4, <3>1
  <2> QED
    BY <2>3, <2>4
<1> QED
  BY <1>2, <1>3, <1>4, <1>5 DEF Sends

\* ... and the mark after them.
LEMMA MarkSent ==
  ASSUME NEW h, Orderly(h), NEW k, NEW m \in 1..(Len(h) + 1), NothingPending(h, m),
         NEW records, Reports(h, k, m, records),
         NEW tables, NEW sent, NEW n \in Nat, Behind(h, k, tables, sent, n + 1),
         NEW left, Follows(left, sent, n, records),
         NEW end \in Nat, end >= n + Len(records) + 1
  PROVE  Marked(h, Start(m), tables, left, end)
<1>1. /\ records \in Seq(Record) /\ Len(records) \in Nat /\ Len(h) \in Nat /\ k \in 1..(Len(h) + 1)
  BY Lines DEF Reports, Behind
<1>2. Covers(tables, sent, n + 1, tables, left, end)
  <2>1. n + 1 \in Nat /\ n + 1 <= end
    BY <1>1
  <2>2. \A x \in 1..(n + 1 - 1) : left[x] = sent[x]
    BY DEF Follows
  <2> QED
    BY <2>1, <2>2, SameStart
<1>3. \A t \in Range(records) : \E x \in 1..(end - 1) : left[x] = t
  <2>1. SUFFICES ASSUME NEW i \in 1..Len(records)
                 PROVE  \E x \in 1..(end - 1) : left[x] = records[i]
    BY <1>1 DEF Range
  <2>2. n + i \in 1..(end - 1)
    BY <1>1
  <2> QED
    BY <2>2 DEF Follows
<1>4. ASSUME NEW r \in Measurable(h), Opening(h, r) < m
      PROVE  Measured(tables, left, end, r)
  <2>1. CASE Opening(h, r) < k
    <3>1. Measured(tables, sent, n + 1, r)
      BY <2>1 DEF Behind
    <3> QED
      BY <1>2, <3>1, Zenon DEF Covers
  <2>2. CASE ~ (Opening(h, r) < k)
    <3>1. Opening(h, r) \in Nat
      <4>1. Opening(h, r) \in RowsOf(h, r) /\ RowsOf(h, r) \subseteq 1..Len(h)
        BY Real, RowsOfIs
      <4> QED
        BY <1>1, <4>1
    <3>2. \E t \in Range(records) : t.what = "turn" /\ t.req = r
      BY <1>1, <1>4, <2>2, <3>1 DEF Reports
    <3> QED
      BY <1>3, <3>2 DEF Measured
  <2> QED
    BY <2>1, <2>2
<1>5. ASSUME NEW c \in TimedCalls(h), AskedBy(h, c.tool) < m
      PROVE  Answered(tables, left, end, c.uuid)
  <2>1. CASE AskedBy(h, c.tool) < k
    <3>1. Answered(tables, sent, n + 1, c.uuid)
      BY <2>1 DEF Behind
    <3> QED
      BY <1>2, <3>1, Zenon DEF Covers
  <2>2. CASE ~ (AskedBy(h, c.tool) < k)
    <3>1. AskedBy(h, c.tool) \in Nat /\ c.what = "tool"
      <4>1. AskedBy(h, c.tool) \in 1..(c.uuid - 1) /\ c.what = "tool"
        BY TimedFields
      <4> QED
        BY <4>1
    <3>2. c \in Range(records)
      BY <1>1, <2>2, <3>1 DEF Reports
    <3> QED
      BY <1>3, <3>1, <3>2 DEF Answered
  <2> QED
    BY <2>1, <2>2
<1>6. Behind(h, m, tables, left, end)
  BY <1>4, <1>5, Zenon DEF Behind
<1>7. m \in Nat
  BY <1>1
<1> QED
  BY <1>6, <1>7, Zenon DEF Marked

LEMMA SoundReads ==
  ASSUME NEW h, NEW p, NEW sent, NEW tables, Sound(h, p, sent, tables), End(h) <= MaxReread,
         NEW fragment, NEW settled,
         NEW imported, imported = Import(h, fragment, IF p = <<>> THEN 0 ELSE p[1].offset, settled),
         NEW mark, mark.what = "mark", mark.offset = imported.offset,
         NEW moved, moved[1].offset = imported.offset
  PROVE  Sound(h, moved, sent \o Append(imported.records, mark), tables)
<1>1. Orderly(h) /\ FedWell(h) /\ Queue(h, sent, tables)
  BY DEF Sound
<1>2. PICK k \in 1..(Len(h) + 1) :
        /\ (IF p = <<>> THEN 0 ELSE p[1].offset) = Start(k)
        /\ Behind(h, k, tables, sent, Len(sent) + 1)
  BY ResumesBehind
<1>3. imported = Import(h, fragment, Start(k), settled)
  BY <1>2
<1>4. NothingPending(h, k)
  BY <1>2 DEF Behind
<1> DEFINE records == imported.records
<1>5. PICK m \in k..(Len(h) + 1) :
        imported.offset = Start(m) /\ NothingPending(h, m) /\ Reports(h, k, m, records)
  <2>1. \E m \in k..(Len(h) + 1) :
           /\ Import(h, fragment, Start(k), settled).offset = Start(m)
           /\ NothingPending(h, m)
           /\ Reports(h, k, m, Import(h, fragment, Start(k), settled).records)
    BY <1>1, <1>4, ImportReports
  <2> QED
    BY <1>3, <2>1
<1> DEFINE n == Len(sent)
           left == sent \o Append(records, mark)
<1>6. records \in Seq(Record)
  BY <1>5 DEF Reports
<1> HIDE DEF records
<1>7. PICK S : sent \in Seq(S)
  BY <1>1 DEF Queue
<1> DEFINE all == S \cup Record \cup {mark}
<1>8. /\ Append(records, mark) \in Seq(all) /\ Len(Append(records, mark)) = Len(records) + 1
      /\ \A i \in 1..Len(records) : Append(records, mark)[i] = records[i]
      /\ Append(records, mark)[Len(records) + 1] = mark /\ Len(records) \in Nat
  BY <1>6
<1>9. sent \in Seq(all) /\ n \in Nat
  BY <1>7
<1>10. /\ left \in Seq(all) /\ Len(left) = n + Len(records) + 1
       /\ \A j \in 1..n : left[j] = sent[j]
       /\ \A i \in 1..(Len(records) + 1) : left[n + i] = Append(records, mark)[i]
  <2> DEFINE tail == Append(records, mark)
  <2>1. tail \in Seq(all) /\ Len(tail) = Len(records) + 1
    BY <1>8
  <2> HIDE DEF tail, all
  <2>2. /\ sent \o tail \in Seq(all) /\ Len(sent \o tail) = n + Len(tail)
        /\ \A j \in 1..n : (sent \o tail)[j] = sent[j]
        /\ \A i \in 1..Len(tail) : (sent \o tail)[n + i] = tail[i]
    BY <1>9, <2>1
  <2> QED
    BY <1>8, <2>1, <2>2 DEF tail
<1> HIDE DEF left, n, all
<1>11. /\ \A i \in 1..Len(records) : left[n + i] = records[i]
       /\ left[n + Len(records) + 1] = mark
  <2>1. n + Len(records) + 1 = n + (Len(records) + 1)
    BY <1>8, <1>9
  <2>2. Len(records) + 1 \in 1..(Len(records) + 1)
    BY <1>8
  <2>3. 1..Len(records) \subseteq 1..(Len(records) + 1)
    BY <1>8
  <2> QED
    BY <1>8, <1>10, <2>1, <2>2, <2>3
<1>12. Behind(h, k, tables, sent, n + 1)
  BY <1>2 DEF n
<1>13. Follows(left, sent, n, records)
  BY <1>10, <1>11, Zenon DEF Follows
<1>14. m \in 1..(Len(h) + 1)
  BY <1>1, Lines
<1>15. \A i \in 1..Len(records) : Sends(h, tables, left, n + i)
  <2>1. SUFFICES ASSUME NEW i \in 1..Len(records)
                 PROVE  Sends(h, tables, left, n + i)
    OBVIOUS
  <2> QED
    BY <1>1, <1>5, <1>9, <1>12, <1>13, <2>1, ReportsSent, Zenon
<1>16. \A end \in Nat : end >= n + Len(records) + 1 => Marked(h, Start(m), tables, left, end)
  <2>1. SUFFICES ASSUME NEW end \in Nat, end >= n + Len(records) + 1
                 PROVE  Marked(h, Start(m), tables, left, end)
    OBVIOUS
  <2> QED
    BY <1>1, <1>5, <1>9, <1>12, <1>14, <1>13, <2>1, MarkSent, Zenon
<1>17. Sends(h, tables, left, n + Len(records) + 1)
  <2>1. Marked(h, Start(m), tables, left, n + Len(records) + 1)
    BY <1>8, <1>9, <1>16
  <2> QED
    BY <1>5, <1>11, <2>1 DEF Sends, Measuring
<1>18. \A j \in (n + 1)..Len(left) : Sends(h, tables, left, j)
  <2>1. SUFFICES ASSUME NEW j \in (n + 1)..Len(left), j # n + Len(records) + 1
                 PROVE  Sends(h, tables, left, j)
    BY <1>17
  <2>2. j - n \in 1..Len(records) /\ n + (j - n) = j
    <3>1. Len(records) \in Nat /\ n \in Nat /\ Len(left) = n + Len(records) + 1
      BY <1>8, <1>9, <1>10
    <3> QED
      BY ONLY <2>1, <3>1
  <2> QED
    BY <1>15, <2>2
<1>19. Placed(h, moved, tables, left)
  <2>1. Marked(h, Start(m), tables, left, Len(left) + 1)
    BY <1>8, <1>9, <1>10, <1>16
  <2> QED
    BY <1>5, <2>1 DEF Placed
<1>20. Sound(h, moved, left, tables)
  <2>1. n <= Len(left)
    BY <1>8, <1>9, <1>10
  <2> QED
    BY <1>10, <1>18, <1>19, <2>1, SoundSends DEF n
<1> QED
  BY <1>20 DEF left, records


\* What one committed record does to the tables.
LEMMA ApplyIs ==
  ASSUME NEW tables, NEW r, r.what \in {"turn", "tool", "version", "mark", "forget"},
         Tabular(tables)
  PROVE  LET later == Apply(tables, r) IN
         /\ Tabular(later)
         /\ r.what # "turn" => later.turns = tables.turns
         /\ r.what = "turn" =>
              IF \E x \in tables.turns : x.req = r.req \/ x.uuid = r.uuid
                THEN later.turns = tables.turns ELSE later.turns = tables.turns \cup {r}
         /\ r.what # "tool" => later.tools = tables.tools
         /\ r.what = "tool" =>
              IF \E x \in tables.tools : x.uuid = r.uuid
                THEN later.tools = tables.tools ELSE later.tools = tables.tools \cup {r}
         /\ later.mark = CASE r.what = "mark" -> <<r>>
                           [] r.what = "forget" -> <<>>
                           [] OTHER -> tables.mark
         /\ later.refused = tables.refused
<1> USE DEF Tabular
<1> DEFINE later == Apply(tables, r)
<1>1. CASE r.what = "turn"
  <2>1. later = IF \E x \in tables.turns : x.req = r.req \/ x.uuid = r.uuid
                  THEN tables ELSE [tables EXCEPT !.turns = @ \cup {r}]
    BY <1>1 DEF Apply
  <2>2. [tables EXCEPT !.turns = @ \cup {r}] =
          [turns |-> tables.turns \cup {r}, tools |-> tables.tools,
           versions |-> tables.versions, mark |-> tables.mark, refused |-> tables.refused]
    OBVIOUS
  <2> HIDE DEF later
  <2>3. later = tables \/ later = [tables EXCEPT !.turns = @ \cup {r}]
    BY <2>1
  <2>4. /\ Tabular(later)
        /\ later.tools = tables.tools /\ later.mark = tables.mark
        /\ later.refused = tables.refused
    BY <2>2, <2>3
  <2>5. IF \E x \in tables.turns : x.req = r.req \/ x.uuid = r.uuid
          THEN later.turns = tables.turns ELSE later.turns = tables.turns \cup {r}
    BY <2>1, <2>2
  <2> QED
    BY <1>1, <2>4, <2>5 DEF later
<1>2. CASE r.what = "tool"
  <2>1. later = IF \E x \in tables.tools : x.uuid = r.uuid
                  THEN tables ELSE [tables EXCEPT !.tools = @ \cup {r}]
    BY <1>2 DEF Apply
  <2>2. [tables EXCEPT !.tools = @ \cup {r}] =
          [turns |-> tables.turns, tools |-> tables.tools \cup {r},
           versions |-> tables.versions, mark |-> tables.mark, refused |-> tables.refused]
    OBVIOUS
  <2> HIDE DEF later
  <2>3. later = tables \/ later = [tables EXCEPT !.tools = @ \cup {r}]
    BY <2>1
  <2>4. /\ Tabular(later)
        /\ later.turns = tables.turns /\ later.mark = tables.mark
        /\ later.refused = tables.refused
    BY <2>2, <2>3
  <2>5. IF \E x \in tables.tools : x.uuid = r.uuid
          THEN later.tools = tables.tools ELSE later.tools = tables.tools \cup {r}
    BY <2>1, <2>2
  <2> QED
    BY <1>2, <2>4, <2>5 DEF later
<1>3. CASE r.what = "version"
  <2>1. PICK versions : later = [tables EXCEPT !.versions = versions]
    BY <1>3 DEF Apply
  <2>2. later = [turns |-> tables.turns, tools |-> tables.tools,
                 versions |-> versions, mark |-> tables.mark, refused |-> tables.refused]
    BY <2>1
  <2> HIDE DEF later
  <2>3. /\ Tabular(later)
        /\ later.turns = tables.turns /\ later.tools = tables.tools /\ later.mark = tables.mark
        /\ later.refused = tables.refused
    BY <2>2
  <2> QED
    BY <1>3, <2>3 DEF later
<1>4. CASE r.what = "mark"
  <2>1. later = [tables EXCEPT !.mark = <<r>>]
    BY <1>4 DEF Apply
  <2>2. later = [turns |-> tables.turns, tools |-> tables.tools,
                 versions |-> tables.versions, mark |-> <<r>>, refused |-> tables.refused]
    BY <2>1
  <2> HIDE DEF later
  <2>3. /\ Tabular(later)
        /\ later.turns = tables.turns /\ later.tools = tables.tools /\ later.mark = <<r>>
        /\ later.refused = tables.refused
    BY <2>2
  <2> QED
    BY <1>4, <2>3 DEF later
<1>5. CASE r.what = "forget"
  <2>1. later = [tables EXCEPT !.mark = <<>>]
    BY <1>5 DEF Apply
  <2>2. later = [turns |-> tables.turns, tools |-> tables.tools,
                 versions |-> tables.versions, mark |-> <<>>, refused |-> tables.refused]
    BY <2>1
  <2> HIDE DEF later
  <2>3. /\ Tabular(later)
        /\ later.turns = tables.turns /\ later.tools = tables.tools /\ later.mark = <<>>
        /\ later.refused = tables.refused
    BY <2>2
  <2> QED
    BY <1>5, <2>3 DEF later
<1> QED
  BY <1>1, <1>2, <1>3, <1>4, <1>5

\* A record committed is one that was sent: nothing that was recorded is lost by it.
LEMMA CommitCovers ==
  ASSUME NEW h, Orderly(h), NEW tables, Holds(h, tables),
         NEW sent, NEW S, sent \in Seq(S), sent # <<>>, Sends(h, tables, sent, 1)
  PROVE  LET later == Apply(tables, sent[1]) IN
         /\ tables.turns \subseteq later.turns /\ tables.tools \subseteq later.tools
         /\ \A left, j : j \in Nat /\ (\A i \in 1..(j - 1) : left[i] = sent[i + 1]) =>
              Covers(tables, sent, j + 1, later, left, j)
         /\ \A left : Covers(tables, sent, 1, later, left, 1)
<1> DEFINE r == sent[1]
           later == Apply(tables, r)
<1>1. /\ r.what # "turn" => later.turns = tables.turns
      /\ r.what = "turn" =>
           IF \E x \in tables.turns : x.req = r.req \/ x.uuid = r.uuid
             THEN later.turns = tables.turns ELSE later.turns = tables.turns \cup {r}
      /\ r.what # "tool" => later.tools = tables.tools
      /\ r.what = "tool" =>
           IF \E x \in tables.tools : x.uuid = r.uuid
             THEN later.tools = tables.tools ELSE later.tools = tables.tools \cup {r}
      /\ later.refused = tables.refused
  <2>1. /\ r.what \in {"turn", "tool", "version", "mark", "forget"}
        /\ Tabular(tables)
    BY DEF Sends, Holds
  <2> HIDE DEF r
  <2>2. /\ Tabular(later)
        /\ r.what # "turn" => later.turns = tables.turns
        /\ r.what = "turn" =>
             IF \E x \in tables.turns : x.req = r.req \/ x.uuid = r.uuid
               THEN later.turns = tables.turns ELSE later.turns = tables.turns \cup {r}
        /\ r.what # "tool" => later.tools = tables.tools
        /\ r.what = "tool" =>
             IF \E x \in tables.tools : x.uuid = r.uuid
               THEN later.tools = tables.tools ELSE later.tools = tables.tools \cup {r}
        /\ later.mark = CASE r.what = "mark" -> <<r>>
                          [] r.what = "forget" -> <<>>
                          [] OTHER -> tables.mark
        /\ later.refused = tables.refused
    BY <2>1, ApplyIs
  <2> HIDE DEF later
  <2> QED
    BY <2>2
<1> HIDE DEF later, r
<1>2. tables.turns \subseteq later.turns /\ tables.tools \subseteq later.tools
  BY <1>1
<1>3. r.what = "turn" => \E t \in later.turns : t.req = r.req
  <2>1. SUFFICES ASSUME r.what = "turn", NEW x \in tables.turns, x.uuid = r.uuid
                 PROVE  x.req = r.req
    BY <1>1
  <2>2. x.uuid \in RowsOf(h, x.req) /\ r.uuid \in RowsOf(h, r.req)
    BY <2>1 DEF Holds, Sends, Measuring, r
  <2> QED
    BY <2>1, <2>2 DEF RowsOf
<1>4. r.what = "tool" => \E c \in later.tools : c.uuid = r.uuid
  BY <1>1
<1>5. ASSUME NEW left, NEW j \in Nat, \A i \in 1..(j - 1) : left[i] = sent[i + 1]
      PROVE  Covers(tables, sent, j + 1, later, left, j)
  <2>1. \A i \in 1..j : i = 1 \/ (i - 1 \in 1..(j - 1) /\ left[i - 1] = sent[i])
    <3>1. SUFFICES ASSUME NEW i \in 1..j, i # 1
                   PROVE  i - 1 \in 1..(j - 1) /\ left[i - 1] = sent[i]
      OBVIOUS
    <3>2. i - 1 \in 1..(j - 1) /\ (i - 1) + 1 = i
      BY <3>1
    <3> QED
      BY <1>5, <3>2
  <2>2. (j + 1) - 1 = j
    OBVIOUS
  <2>3. ASSUME NEW q, Measured(tables, sent, j + 1, q)
        PROVE  Measured(later, left, j, q)
    <3>1. CASE (\E t \in tables.turns : t.req = q) \/ TurnRefused(tables, q)
      BY <1>1, <1>2, <3>1 DEF Measured, TurnRefused
    <3>2. ASSUME NEW i \in 1..j, sent[i].what = "turn", sent[i].req = q
          PROVE  Measured(later, left, j, q)
      <4>1. CASE i = 1
        BY <1>3, <3>2, <4>1 DEF Measured, r
      <4>2. CASE i # 1
        BY <2>1, <3>2, <4>2 DEF Measured
      <4> QED
        BY <4>1, <4>2
    <3> QED
      BY <2>2, <2>3, <3>1, <3>2, Zenon DEF Measured
  <2>4. ASSUME NEW u, Answered(tables, sent, j + 1, u)
        PROVE  Answered(later, left, j, u)
    <3>1. CASE (\E c \in tables.tools : c.uuid = u) \/ CallRefused(tables, u)
      BY <1>1, <1>2, <3>1 DEF Answered, CallRefused
    <3>2. ASSUME NEW i \in 1..j, sent[i].what = "tool", sent[i].uuid = u
          PROVE  Answered(later, left, j, u)
      <4>1. CASE i = 1
        BY <1>4, <3>2, <4>1 DEF Answered, r
      <4>2. CASE i # 1
        BY <2>1, <3>2, <4>2 DEF Answered
      <4> QED
        BY <4>1, <4>2
    <3> QED
      BY <2>2, <2>4, <3>1, <3>2, Zenon DEF Answered
  <2> QED
    BY <2>3, <2>4, Zenon DEF Covers
<1>6. ASSUME NEW left
      PROVE  Covers(tables, sent, 1, later, left, 1)
  <2>1. 1..(1 - 1) = {}
    OBVIOUS
  <2> QED
    BY <1>1, <1>2, <2>1 DEF Covers, Measured, Answered, TurnRefused, CallRefused
<1> QED
  BY <1>2, <1>5, <1>6, Zenon DEF later, r


LEMMA SoundCommits ==
  ASSUME NEW h, NEW p, NEW sent, NEW tables, Sound(h, p, sent, tables), sent # <<>>
  PROVE  Sound(h, p, Tail(sent), Apply(tables, Head(sent)))
<1>1. /\ Orderly(h) /\ FedWell(h) /\ Holds(h, tables) /\ Queue(h, sent, tables)
      /\ Placed(h, p, tables, sent)
  BY DEF Sound
<1>2. PICK S : sent \in Seq(S)
  BY <1>1 DEF Queue
<1> DEFINE n == Len(sent) - 1
           left == Tail(sent)
           r == sent[1]
           later == Apply(tables, r)
<1>3. /\ left \in Seq(S) /\ Len(left) = n /\ n \in Nat /\ Len(sent) = n + 1 /\ Head(sent) = r
      /\ \A j \in 1..n : left[j] = sent[j + 1]
  BY <1>2
<1>4. \A j \in 1..(n + 1) : Sends(h, tables, sent, j)
  BY <1>1, <1>3 DEF Queue
<1>5. Sends(h, tables, sent, 1)
  BY <1>3, <1>4
<1>6. /\ tables.turns \subseteq later.turns /\ tables.tools \subseteq later.tools
      /\ \A j \in 1..(n + 1) : Covers(tables, sent, j + 1, later, left, j)
      /\ \A any : Covers(tables, sent, 1, later, any, 1)
  <2>1. \A any, j : j \in Nat /\ (\A i \in 1..(j - 1) : any[i] = sent[i + 1]) =>
          Covers(tables, sent, j + 1, later, any, j)
    BY <1>1, <1>2, <1>5, CommitCovers
  <2>2. ASSUME NEW j \in 1..(n + 1)
        PROVE  Covers(tables, sent, j + 1, later, left, j)
    <3>1. j \in Nat /\ \A i \in 1..(j - 1) : i \in 1..n
      BY <1>3
    <3>2. \A i \in 1..(j - 1) : left[i] = sent[i + 1]
      BY <1>3, <3>1
    <3> HIDE DEF left, later
    <3> QED
      BY <2>1, <3>1, <3>2
  <2>3. /\ tables.turns \subseteq later.turns /\ tables.tools \subseteq later.tools
        /\ \A any : Covers(tables, sent, 1, later, any, 1)
    BY <1>1, <1>2, <1>5, CommitCovers
  <2> QED
    BY <2>2, <2>3
<1>7. /\ Tabular(later)
      /\ r.what # "turn" => later.turns = tables.turns
      /\ r.what = "turn" =>
           IF \E x \in tables.turns : x.req = r.req \/ x.uuid = r.uuid
             THEN later.turns = tables.turns ELSE later.turns = tables.turns \cup {r}
      /\ r.what # "tool" => later.tools = tables.tools
      /\ r.what = "tool" =>
           IF \E x \in tables.tools : x.uuid = r.uuid
             THEN later.tools = tables.tools ELSE later.tools = tables.tools \cup {r}
      /\ later.mark = CASE r.what = "mark" -> <<r>>
                        [] r.what = "forget" -> <<>>
                        [] OTHER -> tables.mark
      /\ later.refused = tables.refused
  <2>1. /\ r.what \in {"turn", "tool", "version", "mark", "forget"}
        /\ Tabular(tables)
    BY <1>1, <1>5 DEF Sends, Holds
  <2> HIDE DEF r
  <2> QED
    BY <2>1, ApplyIs
<1> HIDE DEF n, left, r, later
<1>8. Holds(h, later)
  <2>1. \A t \in later.turns :
          /\ t.req \in Measurable(h) /\ t.uuid \in RowsOf(h, t.req)
          /\ Right(h, t) \/ TurnRefused(later, t.req)
    <3>1. \A t \in tables.turns :
            /\ t.req \in Measurable(h) /\ t.uuid \in RowsOf(h, t.req)
            /\ Right(h, t) \/ TurnRefused(later, t.req)
      BY <1>1, <1>7 DEF Holds, TurnRefused
    <3>2. CASE later.turns = tables.turns
      BY <3>1, <3>2
    <3>3. CASE r.what = "turn" /\ ~ (\E x \in tables.turns : x.req = r.req)
      <4>1. /\ r.req \in Measurable(h) /\ r.uuid \in RowsOf(h, r.req)
            /\ Right(h, r) \/ Measured(tables, sent, 1, r.req)
        BY <1>5, <3>3 DEF Sends, Measuring, r
      <4>2. Measured(tables, sent, 1, r.req) => TurnRefused(later, r.req)
        BY <1>7, <3>3 DEF Measured, TurnRefused
      <4>3. later.turns \subseteq tables.turns \cup {r}
        BY <1>7
      <4> QED
        BY <3>1, <4>1, <4>2, <4>3
    <3> QED
      BY <1>7, <3>2, <3>3
  <2>2. later.tools \subseteq TimedCalls(h)
    <3>1. tables.tools \subseteq TimedCalls(h)
      BY <1>1 DEF Holds
    <3>2. r.what = "tool" => r \in TimedCalls(h)
      BY <1>5 DEF Sends, r
    <3> QED
      BY <1>7, <3>1, <3>2
  <2>3. later.mark = <<>> \/ \E m : later.mark = <<m>> /\ Marked(h, m.offset, later, <<>>, 1)
    <3>1. CASE r.what = "mark"
      <4>1. Marked(h, r.offset, tables, sent, 1)
        BY <1>5, <3>1 DEF Sends, r
      <4>2. Marked(h, r.offset, later, <<>>, 1)
        BY <1>6, <4>1, Carried
      <4> QED
        BY <1>7, <3>1, <4>2
    <3>2. CASE r.what = "forget"
      BY <1>7, <3>2
    <3>3. CASE r.what # "mark" /\ r.what # "forget"
      <4>1. later.mark = tables.mark
        BY <1>7, <3>3
      <4>2. ASSUME NEW m, tables.mark = <<m>>, Marked(h, m.offset, tables, <<>>, 1)
            PROVE  Marked(h, m.offset, later, <<>>, 1)
        <5>1. Covers(tables, <<>>, 1, tables, sent, 1)
          <6>1. 1..(1 - 1) = {}
            OBVIOUS
          <6> QED
            BY <6>1, SameStart
        <5>2. Marked(h, m.offset, tables, sent, 1)
          BY <4>2, <5>1, Carried
        <5> QED
          BY <1>6, <5>2, Carried
      <4>3. tables.mark = <<>> \/ \E m : tables.mark = <<m>> /\ Marked(h, m.offset, tables, <<>>, 1)
        BY <1>1, Zenon DEF Holds
      <4> QED
        BY <4>1, <4>2, <4>3
    <3> QED
      BY <3>1, <3>2, <3>3
  <2> QED
    BY <1>7, <2>1, <2>2, <2>3, Zenon DEF Holds
<1>9. Queue(h, left, later)
  <2>1. ASSUME NEW j \in 1..n
        PROVE  Sends(h, later, left, j)
    <3>1. j \in 1..(n + 1) /\ j + 1 \in 1..(n + 1)
      BY <1>3
    <3>2. Sends(h, tables, sent, j + 1) /\ left[j] = sent[j + 1]
      BY <1>3, <1>4, <3>1
    <3>3. Covers(tables, sent, j + 1, later, left, j)
      BY <1>6, <3>1
    <3> QED
      BY <3>2, <3>3, SendsOn, Zenon
  <2> QED
    BY <1>3, <2>1, Zenon DEF Queue
<1>10. Placed(h, p, later, left)
  <2>1. SUFFICES ASSUME p # <<>>
                 PROVE  Marked(h, p[1].offset, later, left, Len(left) + 1)
    BY Zenon DEF Placed
  <2>2. Marked(h, p[1].offset, tables, sent, Len(sent) + 1)
    BY <1>1, <2>1 DEF Placed
  <2>3. Marked(h, p[1].offset, tables, sent, (n + 1) + 1)
    BY <1>3, <2>2
  <2>4. n + 1 \in 1..(n + 1)
    BY <1>3
  <2>5. Covers(tables, sent, (n + 1) + 1, later, left, n + 1)
    BY <1>6, <2>4
  <2>6. Marked(h, p[1].offset, later, left, n + 1)
    BY <2>3, <2>5, Carried, Zenon
  <2> QED
    BY <1>3, <2>6
<1>11. Sound(h, p, left, later)
  BY <1>1, <1>8, <1>9, <1>10, Zenon DEF Sound
<1> QED
  BY <1>3, <1>11 DEF left, later


\* What the tables hold once a record is known as refused.
LEMMA RefusedIs ==
  ASSUME NEW tables, NEW r, Tabular(tables)
  PROVE  LET later == [tables EXCEPT !.refused = @ \cup {r}]
         IN  /\ Tabular(later) /\ later.turns = tables.turns /\ later.tools = tables.tools
             /\ later.mark = tables.mark /\ later.refused = tables.refused \cup {r}
<1> DEFINE later == [tables EXCEPT !.refused = @ \cup {r}]
<1>1. later = [turns |-> tables.turns, tools |-> tables.tools, versions |-> tables.versions,
               mark |-> tables.mark, refused |-> tables.refused \cup {r}]
  BY DEF Tabular
<1> HIDE DEF later
<1>2. Tabular(later)
  BY <1>1 DEF Tabular
<1>3. /\ later.turns = tables.turns /\ later.tools = tables.tools
      /\ later.mark = tables.mark /\ later.refused = tables.refused \cup {r}
  BY <1>1
<1> QED
  BY <1>2, <1>3 DEF later

\* A record the database refuses is one that was sent: it is known as refused, and what
\* follows it on the wire is as it was.
LEMMA SoundRefuses ==
  ASSUME NEW h, NEW p, NEW sent, NEW tables, Sound(h, p, sent, tables), sent # <<>>
  PROVE  Sound(h, p, Tail(sent), [tables EXCEPT !.refused = @ \cup {Head(sent)}])
<1>1. /\ Orderly(h) /\ FedWell(h) /\ Holds(h, tables) /\ Queue(h, sent, tables)
      /\ Placed(h, p, tables, sent)
  BY DEF Sound
<1>2. PICK S : sent \in Seq(S)
  BY <1>1 DEF Queue
<1> DEFINE n == Len(sent) - 1
           left == Tail(sent)
           r == sent[1]
           later == [tables EXCEPT !.refused = @ \cup {r}]
<1>3. /\ left \in Seq(S) /\ Len(left) = n /\ n \in Nat /\ Len(sent) = n + 1 /\ Head(sent) = r
      /\ \A j \in 1..n : left[j] = sent[j + 1]
  BY <1>2
<1>4. /\ Tabular(later) /\ later.turns = tables.turns /\ later.tools = tables.tools
      /\ later.mark = tables.mark /\ later.refused = tables.refused \cup {r}
  <2>1. Tabular(tables)
    BY <1>1 DEF Holds
  <2> HIDE DEF r
  <2> QED
    BY <2>1, RefusedIs
<1> HIDE DEF later
<1>5. ASSUME NEW any, NEW j \in Nat, \A i \in 1..(j - 1) : any[i] = sent[i + 1]
      PROVE  Covers(tables, sent, j + 1, later, any, j)
  <2>1. \A i \in 1..j : i = 1 \/ (i - 1 \in 1..(j - 1) /\ any[i - 1] = sent[i])
    <3>1. SUFFICES ASSUME NEW i \in 1..j, i # 1
                   PROVE  i - 1 \in 1..(j - 1) /\ any[i - 1] = sent[i]
      OBVIOUS
    <3>2. i - 1 \in 1..(j - 1) /\ (i - 1) + 1 = i
      BY <3>1
    <3> QED
      BY <1>5, <3>2
  <2>2. (j + 1) - 1 = j /\ r \in later.refused
    BY <1>4
  <2>3. ASSUME NEW q, Measured(tables, sent, j + 1, q)
        PROVE  Measured(later, any, j, q)
    <3>1. CASE (\E t \in tables.turns : t.req = q) \/ TurnRefused(tables, q)
      BY <1>4, <3>1 DEF Measured, TurnRefused
    <3>2. ASSUME NEW i \in 1..j, sent[i].what = "turn", sent[i].req = q
          PROVE  Measured(later, any, j, q)
      BY <2>1, <2>2, <3>2 DEF Measured, TurnRefused
    <3> QED
      BY <2>2, <2>3, <3>1, <3>2, Zenon DEF Measured
  <2>4. ASSUME NEW u, Answered(tables, sent, j + 1, u)
        PROVE  Answered(later, any, j, u)
    <3>1. CASE (\E c \in tables.tools : c.uuid = u) \/ CallRefused(tables, u)
      BY <1>4, <3>1 DEF Answered, CallRefused
    <3>2. ASSUME NEW i \in 1..j, sent[i].what = "tool", sent[i].uuid = u
          PROVE  Answered(later, any, j, u)
      BY <2>1, <2>2, <3>2 DEF Answered, CallRefused
    <3> QED
      BY <2>2, <2>4, <3>1, <3>2, Zenon DEF Answered
  <2> QED
    BY <2>3, <2>4, Zenon DEF Covers
<1>6. Covers(tables, <<>>, 1, later, <<>>, 1)
  <2>1. 1..(1 - 1) = {}
    OBVIOUS
  <2> QED
    BY <1>4, <2>1 DEF Covers, Measured, Answered, TurnRefused, CallRefused
<1>7. Holds(h, later)
  <2>1. \A t \in later.turns :
          /\ t.req \in Measurable(h) /\ t.uuid \in RowsOf(h, t.req)
          /\ Right(h, t) \/ TurnRefused(later, t.req)
    BY <1>1, <1>4 DEF Holds, TurnRefused
  <2>2. ASSUME NEW m, tables.mark = <<m>>, Marked(h, m.offset, tables, <<>>, 1)
        PROVE  Marked(h, m.offset, later, <<>>, 1)
    BY <1>6, <2>2, Carried
  <2>3. later.mark = <<>> \/ \E m : later.mark = <<m>> /\ Marked(h, m.offset, later, <<>>, 1)
    BY <1>1, <1>4, <2>2, Zenon DEF Holds
  <2>4. later.tools \subseteq TimedCalls(h)
    BY <1>1, <1>4 DEF Holds
  <2> QED
    BY <1>4, <2>1, <2>3, <2>4, Zenon DEF Holds
<1>8. \A j \in 1..(n + 1) : Covers(tables, sent, j + 1, later, left, j)
  <2>1. SUFFICES ASSUME NEW j \in 1..(n + 1)
                 PROVE  Covers(tables, sent, j + 1, later, left, j)
    OBVIOUS
  <2>2. j \in Nat /\ \A i \in 1..(j - 1) : i \in 1..n
    BY <1>3
  <2>3. \A i \in 1..(j - 1) : left[i] = sent[i + 1]
    BY <1>3, <2>2
  <2> HIDE DEF left
  <2> QED
    BY <1>5, <2>2, <2>3
<1> HIDE DEF n, left, r
<1>9. Queue(h, left, later)
  <2>1. ASSUME NEW j \in 1..n
        PROVE  Sends(h, later, left, j)
    <3>1. j \in 1..(n + 1) /\ j + 1 \in 1..(n + 1)
      BY <1>3
    <3>2. Sends(h, tables, sent, j + 1) /\ left[j] = sent[j + 1]
      BY <1>1, <1>3, <3>1 DEF Queue
    <3>3. Covers(tables, sent, j + 1, later, left, j)
      BY <1>8, <3>1
    <3> QED
      BY <3>2, <3>3, SendsOn, Zenon
  <2> QED
    BY <1>3, <2>1, Zenon DEF Queue
<1>10. Placed(h, p, later, left)
  <2>1. SUFFICES ASSUME p # <<>>
                 PROVE  Marked(h, p[1].offset, later, left, Len(left) + 1)
    BY Zenon DEF Placed
  <2>2. Marked(h, p[1].offset, tables, sent, (n + 1) + 1)
    BY <1>1, <1>3, <2>1 DEF Placed
  <2>3. n + 1 \in 1..(n + 1)
    BY <1>3
  <2>4. Covers(tables, sent, (n + 1) + 1, later, left, n + 1)
    BY <1>8, <2>3
  <2>5. Marked(h, p[1].offset, later, left, n + 1)
    BY <2>2, <2>4, Carried, Zenon
  <2> QED
    BY <1>3, <2>5
<1>11. Sound(h, p, left, later)
  BY <1>1, <1>7, <1>9, <1>10, Zenon DEF Sound
<1> QED
  BY <1>3, <1>11 DEF left, later


-----------------------------------------------------------------------------
(* The importer, its file and its writer                                   *)

IInv ==
  /\ Sound(rows, position, wire, db)
  /\ Len(rows) <= MaxRows
  /\ torn => Len(rows) < MaxRows

LEMMA IInvInit == Init => IInv
<1>1. Len(<<>>) = 0 /\ MaxRows \in Nat
  BY TranscriptAssumption
<1> QED
  BY <1>1, SoundNothing DEF Init, Empty, IInv

LEMMA IInvFinishLine == IInv /\ Roomy(rows)' /\ FinishLine => IInv'
<1> SUFFICES ASSUME IInv, Roomy(rows)', FinishLine
             PROVE  IInv'
  OBVIOUS
<1>1. PICK row \in NextRows(rows) : rows' = Append(rows, row)
  BY DEF FinishLine, Write
<1>2. Orderly(rows) /\ Len(rows) < MaxRows /\ NewRow(rows, row)
  BY NextRow DEF IInv, Sound, FinishLine
<1>3. row \in Row
  BY <1>2, NewTyped
<1>4. Grows(rows, row, rows', Len(rows) + 1)
  BY <1>1, <1>2, <1>3, Zenon DEF Grows
<1>5. Calm(rows')
  BY DEF Roomy, Calm
<1>6. Sound(rows', position, wire, db)
  <2>1. Sound(rows, position, wire, db)
    BY DEF IInv
  <2> QED
    BY <1>4, <1>5, <2>1, SoundGrows, Zenon
<1>7. position' = position /\ wire' = wire /\ db' = db /\ torn' = FALSE
  BY DEF FinishLine, importer
<1>8. Len(rows') <= MaxRows
  <2>1. Len(rows') = Len(rows) + 1 /\ Len(rows) \in Nat
    BY <1>4, Grown
  <2> QED
    BY <1>2, <2>1, TranscriptAssumption
<1> QED
  BY <1>6, <1>7, <1>8 DEF IInv

LEMMA IInvLoad == IInv /\ Load => IInv'
<1> SUFFICES ASSUME IInv, Load
             PROVE  IInv'
  OBVIOUS
<1>1. position' = [i \in DOMAIN db.mark |->
        [offset |-> db.mark[i].offset, size |-> db.mark[i].offset,
         mtime |-> db.mark[i].mtime, complete |-> TRUE]]
  BY DEF Load
<1>2. db.mark = <<>> => position' = <<>>
  BY <1>1
<1>3. \A m : db.mark = <<m>> => position'[1].offset = m.offset
  BY <1>1
<1>4. Sound(rows, position', wire, db)
  <2>1. Sound(rows, position, wire, db)
    BY DEF IInv
  <2> QED
    BY <1>2, <1>3, <2>1, SoundLoaded
<1>5. rows' = rows /\ wire' = wire /\ db' = db /\ torn' = torn
  BY DEF Load, file
<1> QED
  BY <1>4, <1>5 DEF IInv

LEMMA IInvScan == IInv /\ Scan => IInv'
<1> SUFFICES ASSUME IInv, Scan
             PROVE  IInv'
  OBVIOUS
<1>1. Sound(rows, position, wire, db)
  BY DEF IInv
<1>2. rows' = rows /\ db' = db /\ torn' = torn
  BY DEF Scan, file
<1>3. CASE Departed
  <2>1. position' = <<>> /\ wire' = Append(wire, [what |-> "forget"])
    BY <1>3, Zenon DEF Scan, Forgetting
  <2>2. Sound(rows, <<>>, Append(wire, [what |-> "forget"]), db)
    BY <1>1, SoundForgets
  <2> QED
    BY <1>2, <2>1, <2>2, Zenon DEF IInv
<1>4. CASE ~Departed
  <2>1. position' = position /\ wire' = wire
    BY <1>4, Zenon DEF Scan
  <2> QED
    BY <1>1, <1>2, <2>1, Zenon DEF IInv
<1> QED
  BY <1>3, <1>4

LEMMA IInvRead == IInv /\ Roomy(rows) /\ Read => IInv'
<1> SUFFICES ASSUME IInv, Roomy(rows), Read
             PROVE  IInv'
  OBVIOUS
<1>1. Sound(rows, position, wire, db) /\ End(rows) <= MaxReread
  BY DEF IInv, Roomy
<1>2. PICK settled \in Settled :
        LET imported == Import(rows, torn, ResumeAt, settled)
            mark == [what |-> "mark", offset |-> imported.offset, mtime |-> scanned[1].mtime]
        IN  /\ wire' = wire \o Sent(imported, mark)
            /\ position' = <<[offset |-> imported.offset, size |-> scanned[1].size,
                              mtime |-> scanned[1].mtime,
                              complete |-> Completed(settled, imported.offset)]>>
  BY Zenon DEF Read
<1> DEFINE imported == Import(rows, torn, IF position = <<>> THEN 0 ELSE position[1].offset, settled)
           mark == [what |-> "mark", offset |-> imported.offset, mtime |-> scanned[1].mtime]
<1>3. /\ wire' = wire \o Append(imported.records, mark)
      /\ position' = <<[offset |-> imported.offset, size |-> scanned[1].size,
                        mtime |-> scanned[1].mtime,
                        complete |-> Completed(settled, imported.offset)]>>
  BY <1>2, Zenon DEF Sent, ResumeAt
<1>4. mark.what = "mark" /\ mark.offset = imported.offset
  <2> HIDE DEF imported
  <2> QED
    OBVIOUS
<1>5. position'[1].offset = imported.offset
  <2> DEFINE complete == Completed(settled, imported.offset)
  <2>1. position' = <<[offset |-> imported.offset, size |-> scanned[1].size,
                       mtime |-> scanned[1].mtime, complete |-> complete]>>
    BY <1>3
  <2> HIDE DEF imported, complete
  <2> QED
    BY <2>1
<1>6. Sound(rows, position', wire', db)
  <2>1. imported = Import(rows, torn, IF position = <<>> THEN 0 ELSE position[1].offset, settled)
    BY Zenon
  <2> HIDE DEF imported, mark
  <2> QED
    BY <1>1, <1>3, <1>4, <1>5, <2>1, SoundReads, Zenon
<1>7. rows' = rows /\ db' = db /\ torn' = torn
  BY DEF Read, file
<1> QED
  BY <1>6, <1>7, Zenon DEF IInv

LEMMA IInvNext == IInv /\ Roomy(rows) /\ Roomy(rows)' /\ [Next]_vars => IInv'
<1> SUFFICES ASSUME IInv, Roomy(rows), Roomy(rows)', [Next]_vars
             PROVE  IInv'
  OBVIOUS
<1>1. Sound(rows, position, wire, db) /\ Len(rows) <= MaxRows /\ (torn => Len(rows) < MaxRows)
  BY DEF IInv
<1>2. CASE BeginLine
  BY <1>1, <1>2 DEF BeginLine, IInv, importer
<1>3. CASE FinishLine
  BY <1>3, IInvFinishLine
<1>4. CASE Age \/ Leave \/ Return \/ ReadFails \/ LoadFails \/ StartAgain \/ UNCHANGED vars
  BY <1>1, <1>4 DEF Age, Leave, Return, ReadFails, LoadFails, StartAgain, vars, file, importer, IInv
<1>5. CASE Load
  BY <1>5, IInvLoad
<1>6. CASE Scan
  BY <1>6, IInvScan
<1>7. CASE Read
  BY <1>7, IInvRead
<1>8. CASE Panic
  <2>1. Sound(rows, <<>>, wire, db)
    BY <1>1, SoundRestart
  <2>2. rows' = rows /\ torn' = torn /\ position' = <<>> /\ wire' = wire /\ db' = db
    BY <1>8 DEF Panic, file
  <2> QED
    BY <1>1, <2>1, <2>2, Zenon DEF IInv
<1>9. CASE Crash
  <2>1. Sound(rows, <<>>, <<>>, db)
    BY <1>1, SoundRestart
  <2>2. rows' = rows /\ torn' = torn /\ position' = <<>> /\ wire' = <<>> /\ db' = db
    BY <1>9 DEF Crash, file
  <2> QED
    BY <1>1, <2>1, <2>2, Zenon DEF IInv
<1>10. CASE Commit
  <2>1. wire # <<>> /\ db' = Apply(db, Head(wire)) /\ wire' = Tail(wire)
    BY <1>10 DEF Commit
  <2>2. Sound(rows, position, Tail(wire), Apply(db, Head(wire)))
    BY <1>1, <2>1, SoundCommits
  <2>3. rows' = rows /\ torn' = torn /\ position' = position
    BY <1>10 DEF Commit, file, importer
  <2> QED
    BY <1>1, <2>1, <2>2, <2>3, Zenon DEF IInv
<1>11. CASE Refuse
  <2>1. wire # <<>> /\ db' = [db EXCEPT !.refused = @ \cup {Head(wire)}] /\ wire' = Tail(wire)
    BY <1>11, Zenon DEF Refuse
  <2>2. Sound(rows, position, Tail(wire), [db EXCEPT !.refused = @ \cup {Head(wire)}])
    BY <1>1, <2>1, SoundRefuses, Zenon
  <2>3. rows' = rows /\ torn' = torn /\ position' = position
    BY <1>11 DEF Refuse, file
  <2> QED
    BY <1>1, <2>1, <2>2, <2>3, Zenon DEF IInv
<1> QED
  BY <1>2, <1>3, <1>4, <1>5, <1>6, <1>7, <1>8, <1>9, <1>10, <1>11, Zenon DEF Next

LEMMA IInvNoHole == IInv => NoHole
<1> SUFFICES ASSUME IInv
             PROVE  NoHole
  OBVIOUS
<1>1. Orderly(rows) /\ Holds(rows, db) /\ Len(rows) \in Nat
  BY Lines DEF IInv, Sound
<1>2. Marked(rows, MarkOffset, db, <<>>, 1)
  <2>1. CASE db.mark = <<>>
    <3>1. MarkOffset = Start(1) /\ 1 \in Nat
      BY <2>1 DEF MarkOffset, Start
    <3>2. Behind(rows, 1, db, <<>>, 1)
      BY <1>1, NothingBehind
    <3> QED
      BY <3>1, <3>2, Zenon DEF Marked
  <2>2. ASSUME NEW m, db.mark = <<m>>, Marked(rows, m.offset, db, <<>>, 1)
        PROVE  Marked(rows, MarkOffset, db, <<>>, 1)
    <3>1. MarkOffset = m.offset
      BY <2>2 DEF MarkOffset
    <3> QED
      BY <2>2, <3>1
  <2>3. db.mark = <<>> \/ \E m : db.mark = <<m>> /\ Marked(rows, m.offset, db, <<>>, 1)
    BY <1>1, Zenon DEF Holds
  <2> QED
    BY <2>1, <2>2, <2>3
<1>3. PICK k \in Nat : MarkOffset = Start(k) /\ Behind(rows, k, db, <<>>, 1)
  BY <1>2, Zenon DEF Marked
<1>4. 1..(1 - 1) = {}
  OBVIOUS
<1>5. ASSUME NEW r \in Measurable(rows), Start(Opening(rows, r)) < MarkOffset
      PROVE  TurnRefused(db, r) \/ \E t \in db.turns : t.req = r
  <2>1. Opening(rows, r) \in Nat
    <3>1. Opening(rows, r) \in RowsOf(rows, r) /\ RowsOf(rows, r) \subseteq 1..Len(rows)
      BY <1>1, Real, RowsOfIs
    <3> QED
      BY <1>1, <3>1
  <2>2. Opening(rows, r) < k
    BY <1>3, <1>5, <2>1 DEF Start
  <2>3. Measured(db, <<>>, 1, r)
    BY <1>3, <2>2 DEF Behind
  <2> QED
    BY <1>4, <2>3 DEF Measured
<1>6. ASSUME NEW c \in TimedCalls(rows), Start(c.uuid) < MarkOffset
      PROVE  CallRefused(db, c.uuid) \/ \E t \in db.tools : t.uuid = c.uuid
  <2>1. c.uuid \in 1..Len(rows) /\ AskedBy(rows, c.tool) \in 1..(c.uuid - 1)
    BY <1>1, TimedFields
  <2>2. AskedBy(rows, c.tool) < k
    BY <1>1, <1>3, <1>6, <2>1 DEF Start
  <2>3. Answered(db, <<>>, 1, c.uuid)
    BY <1>3, <2>2 DEF Behind
  <2> QED
    BY <1>4, <2>3 DEF Answered
<1> QED
  BY <1>5, <1>6 DEF NoHole

LEMMA IInvNothingTruncated == IInv => NothingTruncated
  BY DEF IInv, Sound, Holds, Right, NothingTruncated

LEMMA Inductive == Spec /\ []Roomy(rows) => []IInv
<1>1. Init => IInv
  BY IInvInit
<1>2. IInv /\ Roomy(rows) /\ Roomy(rows)' /\ [Next]_vars => IInv'
  BY IInvNext
<1> QED
  BY <1>1, <1>2, PTL DEF Spec

\* What else the variables range over; time moves twice a line at most.
Typed ==
  /\ torn \in BOOLEAN /\ quiet \in BOOLEAN /\ place \in Places
  /\ pc \in {"load", "scan", "read", "ended"}
  /\ Len(scanned) = IF pc = "read" THEN 1 ELSE 0
  /\ DOMAIN position \subseteq {1}
  /\ mtime \in Nat
  /\ torn => mtime <= 2 * Len(rows) + 1
  /\ ~torn => mtime <= 2 * Len(rows)

LEMMA TypedInit == Init => Typed
<1> SUFFICES ASSUME Init
             PROVE  Typed
  OBVIOUS
<1>1. /\ rows = <<>> /\ mtime = 0 /\ quiet = FALSE /\ place = "listed" /\ pc = "load"
      /\ scanned = <<>> /\ position = <<>> /\ torn = FALSE
  BY DEF Init, Empty
<1>2. /\ place \in Places /\ pc \in {"load", "scan", "read", "ended"}
      /\ Len(scanned) = IF pc = "read" THEN 1 ELSE 0
      /\ DOMAIN position \subseteq {1} /\ mtime \in Nat /\ mtime <= 2 * Len(rows)
  BY <1>1 DEF Places
<1> QED
  BY <1>1, <1>2, Zenon DEF Typed

LEMMA TypedNext == IInv /\ Typed /\ [Next]_vars => Typed'
<1> SUFFICES ASSUME IInv, Typed, [Next]_vars
             PROVE  Typed'
  OBVIOUS
<1>1. Len(rows) \in Nat /\ rows \in Seq(Row)
  BY Lines DEF IInv, Sound
<1>2. ASSUME (mtime' = mtime + 1 /\ quiet' = FALSE) \/ UNCHANGED <<mtime, quiet>>
      PROVE  mtime' \in Nat /\ mtime' <= mtime + 1 /\ quiet' \in BOOLEAN
  <2>1. mtime' = mtime + 1 \/ mtime' = mtime
    BY <1>2
  <2>2. mtime' \in Nat /\ mtime' <= mtime + 1
    BY <2>1 DEF Typed
  <2>3. quiet' \in BOOLEAN
    BY <1>2, Zenon DEF Typed
  <2> QED
    BY <2>2, <2>3
<1>3. Touched => mtime' \in Nat /\ mtime' <= mtime + 1 /\ quiet' \in BOOLEAN
  BY <1>2, Zenon DEF Touched
<1>4. CASE BeginLine
  <2>1. /\ ~torn /\ torn' = TRUE /\ rows' = rows /\ place' = place /\ pc' = pc /\ scanned' = scanned
        /\ position' = position /\ Touched
    BY <1>4, Zenon DEF BeginLine, importer
  <2>2. mtime' <= 2 * Len(rows) + 1
    BY <1>1, <1>3, <2>1 DEF Typed
  <2>3. torn' \in BOOLEAN /\ (torn' => mtime' <= 2 * Len(rows') + 1) /\ torn'
    BY <2>1, <2>2, Zenon
  <2> QED
    BY <1>3, <2>1, <2>3, Zenon DEF Typed
<1>5. CASE FinishLine
  <2>1. /\ torn /\ torn' = FALSE /\ Write /\ place' = place /\ pc' = pc /\ scanned' = scanned
        /\ position' = position /\ Touched
    BY <1>5, Zenon DEF FinishLine, importer
  <2>2. Len(rows') = Len(rows) + 1
    BY <1>1, <2>1 DEF Write
  <2>3. mtime' <= 2 * Len(rows')
    BY <1>1, <1>3, <2>1, <2>2 DEF Typed
  <2> QED
    BY <1>3, <2>1, <2>3, Zenon DEF Typed
<1>6. ASSUME torn' = torn, rows' = rows, mtime' = mtime, quiet' \in BOOLEAN, place' \in Places,
             pc' \in {"load", "scan", "read", "ended"}, Len(scanned') = IF pc' = "read" THEN 1 ELSE 0,
             DOMAIN position' \subseteq {1}
      PROVE  Typed'
  BY <1>6, Zenon DEF Typed
<1>7. CASE Age \/ Leave \/ Return
  <2>1. /\ torn' = torn /\ rows' = rows /\ mtime' = mtime /\ pc' = pc /\ scanned' = scanned
        /\ quiet' \in BOOLEAN /\ place' \in Places /\ position' = position
    BY <1>7 DEF Age, Leave, Return, importer, Typed, Places
  <2> QED
    BY <1>6, <2>1, Zenon DEF Typed
<1>8. CASE Load \/ LoadFails \/ StartAgain \/ ReadFails \/ Panic \/ Crash \/ Read
  <2>1. torn' = torn /\ rows' = rows /\ mtime' = mtime /\ quiet' = quiet /\ place' = place
    BY <1>8, Zenon DEF Load, LoadFails, StartAgain, ReadFails, Panic, Crash, Read, file
  <2>2. pc' \in {"load", "scan", "ended"} /\ (scanned' = <<>> \/ (scanned' = scanned /\ pc \in {"load", "ended"}))
    BY <1>8 DEF Load, LoadFails, StartAgain, ReadFails, Panic, Crash, Read
  <2>3. Len(scanned') = 0
    BY <2>2 DEF Typed
  <2>4. Len(scanned') = IF pc' = "read" THEN 1 ELSE 0
    BY <2>2, <2>3
  <2>5. DOMAIN position' \subseteq {1}
    <3>1. CASE Load
      <4>1. DOMAIN position' = DOMAIN db.mark
        BY <3>1 DEF Load
      <4>2. db.mark = <<>> \/ \E m : db.mark = <<m>>
        BY DEF IInv, Sound, Holds
      <4> QED
        BY <4>1, <4>2
    <3>2. CASE ReadFails \/ LoadFails \/ StartAgain
      BY <3>2 DEF ReadFails, LoadFails, StartAgain, Typed
    <3>3. CASE Panic \/ Crash
      BY <3>3 DEF Panic, Crash
    <3>4. CASE Read
      <4>1. \E p : position' = <<p>>
        BY <3>4, Zenon DEF Read
      <4> QED
        BY <4>1
    <3> QED
      BY <1>8, <3>1, <3>2, <3>3, <3>4
  <2> QED
    BY <1>6, <2>1, <2>2, <2>4, <2>5 DEF Typed
<1>9. CASE Scan
  <2>1. torn' = torn /\ rows' = rows /\ mtime' = mtime /\ quiet' = quiet /\ place' = place
    BY <1>9, Zenon DEF Scan, file
  <2>2. \/ pc' = "read" /\ \E seen : scanned' = <<seen>>
        \/ pc' = pc /\ scanned' = scanned
    BY <1>9, Zenon DEF Scan
  <2>3. pc' \in {"load", "scan", "read", "ended"} /\ Len(scanned') = IF pc' = "read" THEN 1 ELSE 0
    BY <2>2 DEF Typed
  <2>4. position' = <<>> \/ position' = position
    BY <1>9, Zenon DEF Scan
  <2>5. DOMAIN position' \subseteq {1}
    BY <2>4 DEF Typed
  <2> QED
    BY <1>6, <2>1, <2>3, <2>5, Zenon DEF Typed
<1>10. CASE Commit \/ Refuse \/ UNCHANGED vars
  <2>1. /\ torn' = torn /\ rows' = rows /\ mtime' = mtime /\ quiet' = quiet /\ place' = place
        /\ pc' = pc /\ scanned' = scanned /\ position' = position
    BY <1>10, Zenon DEF Commit, Refuse, vars, file, importer
  <2> QED
    BY <1>6, <2>1, Zenon DEF Typed
<1> QED
  BY <1>4, <1>5, <1>7, <1>8, <1>9, <1>10, Zenon DEF Next

LEMMA TypeIs == IInv /\ Typed => TypeOK
<1> SUFFICES ASSUME IInv, Typed
             PROVE  TypeOK
  OBVIOUS
<1>1. /\ Orderly(rows) /\ Holds(rows, db) /\ Queue(rows, wire, db)
      /\ Placed(rows, position, db, wire)
  BY DEF IInv, Sound
<1>2. Len(rows) \in Nat /\ DOMAIN rows = 1..Len(rows) /\ \A i \in 1..Len(rows) : rows[i] \in Row
  BY <1>1, Lines
<1>3. DOMAIN wire = 1..Len(wire)
  BY <1>1 DEF Queue
<1>4. ASSUME NEW offset, NEW sent, NEW j, Marked(rows, offset, db, sent, j)
      PROVE  \E k \in 1..(Len(rows) + 1) : offset = Start(k)
  BY <1>4, Zenon DEF Marked, Behind
<1>5. ASSUME NEW i \in DOMAIN position
      PROVE  \E k \in 1..(Len(rows) + 1) : position[i].offset = Start(k)
  <2>1. i = 1 /\ position # <<>>
    BY DEF Typed
  <2>2. Marked(rows, position[1].offset, db, wire, Len(wire) + 1)
    BY <1>1, <2>1 DEF Placed
  <2> QED
    BY <1>4, <2>1, <2>2
<1>6. ASSUME NEW i \in DOMAIN wire, wire[i].what = "mark"
      PROVE  \E k \in 1..(Len(rows) + 1) : wire[i].offset = Start(k)
  <2>1. Marked(rows, wire[i].offset, db, wire, i)
    BY <1>1, <1>3, <1>6 DEF Queue, Sends
  <2> QED
    BY <1>4, <2>1
<1>7. ASSUME NEW i \in DOMAIN db.mark
      PROVE  \E k \in 1..(Len(rows) + 1) : db.mark[i].offset = Start(k)
  <2>1. PICK m : db.mark = <<m>> /\ Marked(rows, m.offset, db, <<>>, 1)
    BY <1>1, <1>7 DEF Holds
  <2>2. db.mark[i] = m
    BY <2>1
  <2> QED
    BY <1>4, <2>1, <2>2
<1>8. \A offset \in Marks : \E k \in 1..(Len(rows) + 1) : offset = Start(k)
  BY <1>5, <1>6, <1>7, ZenonT(40) DEF Marks
<1>9. mtime \in 0..(2 * MaxRows)
  <2>1. MaxRows \in Nat /\ Len(rows) <= MaxRows
    BY TranscriptAssumption DEF IInv
  <2>2. CASE torn
    BY <1>2, <2>1, <2>2 DEF Typed, IInv
  <2>3. CASE ~torn
    BY <1>2, <2>1, <2>3 DEF Typed
  <2> QED
    BY <2>2, <2>3
<1>10. Len(rows) <= MaxRows
  BY DEF IInv
<1>11. \A offset \in Marks : offset \in {Start(k) : k \in 1..(Len(rows) + 1)}
  BY <1>8
<1>12. \A i \in DOMAIN rows : rows[i] \in Row
  BY <1>2
<1> QED
  BY <1>9, <1>10, <1>11, <1>12, Zenon DEF TypeOK, Typed

\* Reading a finished transcript of any length, with parallel calls, answers that cite
\* nothing, attachments and errors, yields every request once with its true span and wait,
\* and every answered call with the time it took, as long as no more calls wait than the
\* deriver has room for (derive.rs, push and finish).
THEOREM MeasuresTheTruth == Growing => []MeasuresTruth
<1>1. Empty => Growth
  BY GrowthBegins
<1>2. Growth /\ [Grow]_rows => Growth'
  BY GrowthGoesOn
<1>3. Growth => MeasuresTruth
  BY GrowthMeasures
<1> QED
  BY <1>1, <1>2, <1>3, PTL DEF Growing

\* A pass over a growing transcript may end after any row, and the next one begins at a line,
\* within the re-read budget; where there is room for the calls and the lines, the two
\* together measure what one pass over the finished file measures.
THEOREM ResumesAnywhereHolds == Growing => []ResumesAnywhere
<1>1. Resuming => ResumesAnywhere
  BY ResumingIsExact, ResumingIsOnALine DEF ResumesAnywhere
<1> QED
  BY <1>1, ResumingBegins, ResumingGoesOn, PTL DEF Growing

\* The file under the importer is such a transcript, so what is read there is true as well.
THEOREM ReadsTheTruth == Spec => Growing /\ []MeasuresTruth
<1>1. Init => Empty
  BY DEF Init
<1>2. [Next]_vars => [Grow]_rows
  <2> SUFFICES ASSUME [Next]_vars, rows' # rows
               PROVE  Grow
    BY Zenon
  <2>1. FinishLine
    BY Zenon DEF Next, vars, BeginLine, Age, Leave, Return, Load, LoadFails, StartAgain, Scan, Read,
                 ReadFails, Panic, Crash, Commit, Refuse, file
  <2> QED
    BY <2>1 DEF FinishLine, Grow
<1>3. Spec => Growing
  BY <1>1, <1>2, PTL DEF Spec, Growing
<1> QED
  BY <1>3, MeasuresTheTruth, PTL

\* While the file stays within the importer's limits, no committed mark has anything
\* unrecorded behind it but a row the database refused, whatever panicked, died or departed
\* on the way.
THEOREM NoHoleHolds == Spec /\ []Roomy(rows) => []NoHole
<1>1. IInv => NoHole
  BY IInvNoHole
<1> QED
  BY <1>1, Inductive, PTL

\* ... and every turn and call in the database is a whole one, unless that of its request was
\* refused before.
THEOREM NothingTruncatedHolds == Spec /\ []Roomy(rows) => []NothingTruncated
<1>1. IInv => NothingTruncated
  BY IInvNothingTruncated
<1> QED
  BY <1>1, Inductive, PTL

\* Every variable stays in its type, and every mark - in memory, on its way, committed - is
\* where a line of the file begins: no pass starts inside one.
THEOREM TypeCorrect == Spec /\ []Roomy(rows) => []TypeOK
<1>1. Init => Typed
  BY TypedInit
<1>2. IInv /\ Typed /\ [Next]_vars => Typed'
  BY TypedNext
<1>3. IInv /\ Typed => TypeOK
  BY TypeIs
<1> QED
  BY <1>1, <1>2, <1>3, Inductive, PTL DEF Spec

=============================================================================
