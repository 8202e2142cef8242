--------------------------- MODULE ProgramProofs ---------------------------
(***************************************************************************)
(* What the page and a benchmark promise whatever the scene: any store,    *)
(* any zone, any requests a client may make, any limits.                   *)
(***************************************************************************)
EXTENDS Program, FiniteSetTheorems, SequenceTheorems, WellFoundedInduction, TLAPS

-----------------------------------------------------------------------------
(* Handlers, by what they leave alone                                      *)

Handler == Refuse \/ NoDatabase \/ Asset \/ Unrouted \/ Read \/ Annotate \/ Start \/ Poll \/ Cancel

Served == /\ main = "serving" /\ hand # {} /\ ~stalled
          /\ \E code, body : Answers(code, body)
          /\ UNCHANGED main

\* Every handler answers the request in hand, on the thread that serves.
LEMMA Handled == Handler => Served
<1> USE DEF Served, Panics, Ready
<1>1. CASE Refuse BY <1>1 DEF Refuse
<1>2. CASE NoDatabase BY <1>2 DEF NoDatabase
<1>3. CASE Asset BY <1>3 DEF Asset
<1>4. CASE Unrouted BY <1>4 DEF Unrouted
<1>5. CASE Read BY <1>5 DEF Read
<1>6. CASE Annotate BY <1>6 DEF Annotate
<1>7. CASE Start
  <2>1. \/ Closed503 \/ StartRefused \/ Locked \/ StartBusy \/ StartFails \/ StartPanics
        \/ \E asked \in R.body.content : Started(asked)
    BY <1>7 DEF Start
  <2>2. \E code, body : Answers(code, body) /\ UNCHANGED main
    <3>1. CASE Closed503 \/ StartRefused BY <3>1 DEF Closed503, StartRefused
    <3>2. CASE Locked \/ StartBusy BY <3>2 DEF Locked, StartBusy
    <3>3. CASE StartFails \/ StartPanics BY <3>3 DEF StartFails, StartPanics
    <3>4. CASE \E asked \in R.body.content : Started(asked) BY <3>4 DEF Started
    <3> QED BY <2>1, <3>1, <3>2, <3>3, <3>4
  <2> QED BY <1>7, <2>2 DEF Start
<1>8. CASE Poll BY <1>8 DEF Poll, Locked
<1>9. CASE Cancel BY <1>9 DEF Cancel, Closed503, Locked
<1> QED BY <1>1, <1>2, <1>3, <1>4, <1>5, <1>6, <1>7, <1>8, <1>9 DEF Handler

LEMMA Replied ==
  ASSUME Served
  PROVE  /\ hand' = {} /\ answer'.to = hand
         /\ UNCHANGED <<scene, main, failures, shutdown, stalled, age, sampled, writer, build>>
  BY DEF Served, Answers, worldVars

\* What is not a handler belongs to the server's loop, the child, or the world.
Beside == \/ Accept \/ WaitPasses \/ AcceptFails \/ SeesShutdown \/ BodyEnds
          \/ RunsShutdown \/ Stops \/ Signal \/ Upgrade
          \/ Tick \/ Sample \/ WriterStops
Childs == Say \/ Ends(0) \/ Ends(1) \/ Ends(2) \/ Keep

LEMMA Steps == Next <=> Handler \/ Beside \/ Childs
  BY DEF Next, Serve, Handler, Beside, Childs

LEMMA ChildsKeep ==
  ASSUME Childs
  PROVE  UNCHANGED <<scene, main, failures, shutdown, hand, stalled, answer, poisoned, age, sampled,
                     writer, build, copies>>
  BY DEF Childs, Say, Ends, Keep, ChildVars, serverVars, requestVars, worldVars

-----------------------------------------------------------------------------
\* The daemon goes on collecting when its page does not: the main thread stops only because it
\* was told to, and is lost only to a registry that a panic has poisoned.
THEOREM PageIsNotTheDaemon == Spec => []OutlivesThePage
<1>1. Init => OutlivesThePage BY DEF Init, OutlivesThePage
<1>2. OutlivesThePage /\ [Next]_vars => OutlivesThePage'
  <2> SUFFICES ASSUME OutlivesThePage, [Next]_vars PROVE OutlivesThePage' OBVIOUS
  <2>1. CASE Handler
    <3>1. main = "serving" /\ main' = main BY <2>1, Handled DEF Served
    <3> QED BY <3>1 DEF OutlivesThePage
  <2>2. CASE Beside
    BY <2>2 DEF OutlivesThePage, Beside, Accept, WaitPasses, AcceptFails, SeesShutdown, BodyEnds,
       RunsShutdown, Stops, Signal, Upgrade, Tick, Sample, WriterStops, Aside, serverVars, requestVars
  <2>3. CASE Childs BY <2>3, ChildsKeep DEF OutlivesThePage
  <2>4. CASE UNCHANGED vars BY <2>4 DEF OutlivesThePage, vars
  <2> QED BY <2>1, <2>2, <2>3, <2>4, Steps
<1> QED BY <1>1, <1>2, PTL DEF Spec

-----------------------------------------------------------------------------
(* Who answers what                                                        *)

\* What was asked is what was in hand.
LEMMA Question ==
  ASSUME Served
  PROVE  Asked' = R /\ S' = S
<1>1. answer'.to = hand /\ scene' = scene BY Replied
<1> QED BY <1>1 DEF Asked, R, S

LEMMA Paths ==
  ASSUME NEW r
  PROVE  /\ Route(r) = "asset" => r.path \in Documents \cup Scripts
         /\ r.path \in Documents \cup Scripts => Route(r) \in {"asset", "405"}
         /\ Route(r) \in ReadPaths \cup WritePaths => r.path = Route(r)
  BY DEF Route, Documents, Scripts, ReadPaths, WritePaths

LEMMA Refusals == \A code \in Refusal(R, Port) : code \in {421, 403, 413, 400}
  BY DEF Refusal, BodyRefusal

\* A request that is refused, finds no database or has no route is not answered with success.
LEMMA TurnedAway ==
  ASSUME Refuse \/ NoDatabase \/ Unrouted
  PROVE  answer'.code \notin {200, 304}
<1>1. CASE Refuse
  <2>1. PICK code \in Refusal(R, Port) : Answers(code, {}) BY <1>1 DEF Refuse
  <2>2. answer'.code = code BY <2>1 DEF Answers
  <2>3. code \in {421, 403, 413, 400} BY Refusals
  <2> QED BY ONLY <2>2, <2>3
<1>2. CASE NoDatabase
  <2>1. answer'.code = 503 BY <1>2 DEF NoDatabase, Answers
  <2> QED BY ONLY <2>1
<1>3. CASE Unrouted
  <2>1. answer'.code \in {404, 405} BY <1>3 DEF Unrouted, Answers
  <2> QED BY ONLY <2>1
<1> QED BY <1>1, <1>2, <1>3

\* Between a handler and the next an answer is forgotten or as it was, under the same binary.
LEMMA AroundAnswers ==
  ASSUME Beside
  PROVE  answer'.to = {} \/ (answer' = answer /\ build' = build)
<1>1. CASE Accept \/ Upgrade
  <2>1. answer' = NoAnswer BY <1>1 DEF Accept, Upgrade
  <2>2. NoAnswer.to = {} BY DEF NoAnswer
  <2> QED BY <2>1, <2>2
<1>2. CASE WaitPasses \/ AcceptFails \/ SeesShutdown \/ BodyEnds
  BY <1>2 DEF WaitPasses, AcceptFails, SeesShutdown, BodyEnds, requestVars, worldVars
<1>3. CASE RunsShutdown \/ Stops \/ Signal
  BY <1>3 DEF RunsShutdown, Stops, Signal, requestVars, worldVars
<1>4. CASE Tick \/ Sample \/ WriterStops
  BY <1>4 DEF Tick, Sample, WriterStops, Aside, requestVars
<1> QED BY <1>1, <1>2, <1>3, <1>4 DEF Beside

-----------------------------------------------------------------------------
\* The copies a client keeps are tagged by what is in them.
Tagged == /\ copies = [p \in Scripts |-> copies[p]]
          /\ \A p \in Scripts : \A c \in copies[p] : c.content = c.tag

\* A handler that is not Asset's gives a script neither 200 nor 304.
LEMMA OnlyAssets ==
  ASSUME Handler, ~Asset
  PROVE  /\ copies' = copies
         /\ Asked'.path \notin Scripts \/ answer'.code \notin {200, 304}
<1>1. Asked' = R BY Handled, Question
<1>2. CASE Refuse \/ NoDatabase \/ Unrouted
  <2>1. copies' = copies BY <1>2 DEF Refuse, NoDatabase, Unrouted
  <2> QED BY <1>2, <2>1, TurnedAway
<1>5. CASE Read
  <2>1. Route(R) \in ReadPaths \cup WritePaths BY <1>5 DEF Read, Reads, ReadPaths, WritePaths
  <2>2. Route(R) \notin {"asset", "405"} BY <1>5 DEF Read, Reads
  <2> QED BY <1>1, <1>5, <2>2, Paths DEF Read
<1>6. CASE Annotate BY <1>1, <1>6, Paths DEF Annotate
<1>7. CASE Start BY <1>1, <1>7, Paths DEF Start
<1>8. CASE Poll BY <1>1, <1>8, Paths DEF Poll
<1>9. CASE Cancel BY <1>1, <1>9, Paths DEF Cancel
<1> QED BY <1>2, <1>5, <1>6, <1>7, <1>8, <1>9 DEF Handler

\* A page never keeps a script of another build: what it is told to keep, or is sent, is what
\* this binary serves.
THEOREM ScriptsAreOfThisBuild == Spec => []CacheNeverStale
<1> DEFINE I == Tagged /\ CacheNeverStale
<1>1. Init => I
  <2> SUFFICES ASSUME Init PROVE I OBVIOUS
  <2>1. Tagged BY DEF Init, Tagged
  <2>2. CacheNeverStale BY DEF Init, NoAnswer, CacheNeverStale
  <2> QED BY <2>1, <2>2
<1>2. I /\ [Next]_vars => I'
  <2> SUFFICES ASSUME Tagged, CacheNeverStale, [Next]_vars PROVE Tagged' /\ CacheNeverStale' OBVIOUS
  <2>1. CASE Asset
    <3>1. Asked' = R /\ build' = build /\ answer'.to = hand
      BY <2>1, Handled, Question, Replied DEF Handler
    <3>2. CASE R.path \in Documents
      BY <2>1, <3>1, <3>2 DEF Asset, Tagged, CacheNeverStale, Documents, Scripts
    <3>3. CASE R.path \in Scripts
      <4> DEFINE fresh == [tag |-> Etag(R.path, build), content |-> Content(R.path, build)]
      <4>1. /\ answer'.code = AssetCode(R.path, Held(R.path), Etag(R.path, build))
            /\ copies' = IF answer'.code = 304 THEN copies ELSE [copies EXCEPT ![R.path] = {fresh}]
        BY <2>1, <3>3 DEF Asset, Documents, Scripts, Answers
      <4>2. CASE answer'.code = 304
        <5>1. Etag(R.path, build) \in Held(R.path).tags BY <4>1, <4>2 DEF AssetCode, Matches, Held
        <5>2. PICK c \in copies[R.path] : c.tag = Etag(R.path, build) BY <5>1 DEF Held
        <5>3. c.content = Content(R.path, build) BY <5>2, <3>3 DEF Tagged, Etag
        <5> QED BY <3>1, <4>1, <4>2, <5>3 DEF Tagged, CacheNeverStale, Content
      <4>3. CASE answer'.code # 304
        <5>1. copies' = [copies EXCEPT ![R.path] = {fresh}] BY <4>1, <4>3
        <5>2. copies'[R.path] = {fresh} BY <5>1, <3>3 DEF Tagged
        <5>3. Tagged'
          <6>1. fresh.content = fresh.tag BY DEF Etag
          <6> QED BY <5>1, <6>1 DEF Tagged
        <5> QED BY <3>1, <5>2, <5>3 DEF CacheNeverStale, Content
      <4> QED BY <4>2, <4>3
    <3>4. R.path \in Documents \cup Scripts BY <2>1, Paths DEF Asset
    <3> QED BY <3>2, <3>3, <3>4
  <2>2. CASE Handler /\ ~Asset BY <2>2, OnlyAssets DEF Tagged, CacheNeverStale
  <2>3. CASE Beside
    <3>1. copies' = copies /\ scene' = scene
      BY <2>3 DEF Beside, Accept, WaitPasses, AcceptFails, SeesShutdown, BodyEnds, RunsShutdown,
         Stops, Signal, Upgrade, Tick, Sample, WriterStops, Aside
    <3>2. answer'.to = {} \/ (answer' = answer /\ build' = build) BY <2>3, AroundAnswers
    <3>3. ASSUME answer' = answer PROVE Asked' = Asked BY <3>1, <3>3 DEF Asked, S
    <3> QED BY <3>1, <3>2, <3>3 DEF Tagged, CacheNeverStale, Content
  <2>4. CASE Childs \/ UNCHANGED vars
    <3>1. UNCHANGED <<scene, answer, build, copies>> BY <2>4, ChildsKeep DEF vars
    <3>2. Asked' = Asked BY <3>1 DEF Asked, S
    <3> QED BY <3>1, <3>2 DEF Tagged, CacheNeverStale, Content
  <2> QED BY <2>1, <2>2, <2>3, <2>4, Steps DEF Handler
<1> QED BY <1>1, <1>2, PTL DEF Spec

-----------------------------------------------------------------------------
(* The slot: at most one run, and what is true of it                       *)

RunFields == {"asked", "summary", "options", "alive", "code", "cancelled", "said", "unread", "tail",
              "settled"}

\* A run is what became of a request.
Genuine(c) == \E v \in Validated(c.asked) : /\ c.summary = Summary(v)
                                            /\ c.options = Parsed(ToArgs(v, DataDir))

\* The reader is behind by what is in the pipe, and has kept the end of the rest.
Heard(c) == /\ c.said \in Seq(Nat) /\ c.unread \in Seq(Nat)
            /\ \E read \in Seq(Nat) : /\ c.said = read \o c.unread
                                       /\ c.tail = LastOf(read, TailLines)

\* A run is settled only when it is over and its pipe is empty.
Over(c) == c.settled => ~c.alive /\ c.unread = <<>>

IsRun(c) == DOMAIN c = RunFields /\ Genuine(c) /\ Heard(c) /\ Over(c)

SlotInv == /\ \A c, d \in run : c = d
           /\ \A c \in run : IsRun(c)

LEMMA OnlyChild ==
  ASSUME SlotInv, run # {}
  PROVE  run = {Child} /\ IsRun(Child)
  BY DEF SlotInv, Child

LEMMA Settles ==
  ASSUME NEW c, IsRun(c), c.settled \/ (~c.alive /\ c.unread = <<>>)
  PROVE  IsRun([c EXCEPT !.settled = TRUE])
  BY DEF IsRun, RunFields, Genuine, Heard, Over

LEMMA IsEnded ==
  ASSUME NEW c, IsRun(c)
  PROVE  /\ IsRun([c EXCEPT !.alive = FALSE, !.cancelled = TRUE])
         /\ \A code : IsRun([c EXCEPT !.alive = FALSE, !.code = {code}])
  BY DEF IsRun, RunFields, Genuine, Heard, Over

LEMMA Longer ==
  ASSUME NEW r \in Seq(Nat), NEW u \in Seq(Nat), NEW x \in Nat
  PROVE  Append(u, x) \in Seq(Nat) /\ Append(r \o u, x) = r \o Append(u, x)
<1>1. r \o u \in Seq(Nat) BY ConcatProperties
<1>2. <<x>> \in Seq(Nat) OBVIOUS
<1>3. Append(u, x) = u \o <<x>> /\ Append(r \o u, x) = (r \o u) \o <<x>>
  BY <1>1, AppendIsConcat
<1>4. (r \o u) \o <<x>> = r \o (u \o <<x>>) BY ONLY <1>2, r \in Seq(Nat), u \in Seq(Nat), ConcatAssociative
<1>5. Append(u, x) \in Seq(Nat) BY AppendProperties
<1> QED BY <1>3, <1>4, <1>5

LEMMA Moved ==
  ASSUME NEW r \in Seq(Nat), NEW u \in Seq(Nat), u # <<>>
  PROVE  /\ Append(r, Head(u)) \in Seq(Nat) /\ Tail(u) \in Seq(Nat) /\ Head(u) \in Nat
         /\ r \o u = Append(r, Head(u)) \o Tail(u)
<1>1. Head(u) \in Nat /\ Tail(u) \in Seq(Nat) BY HeadTailProperties
<1>2. Len(u) \in Nat \ {0} BY EmptySeq
<1>3. u = <<Head(u)>> \o Tail(u)
  <2>1. 1 \in 1..Len(u) /\ Len(u) \in 1..Len(u) BY <1>2
  <2>2. SubSeq(u, 1, Len(u)) = <<u[1]>> \o SubSeq(u, 1 + 1, Len(u))
    BY <2>1, SubSeqRecursiveFirst
  <2>3. SubSeq(u, 1, Len(u)) = u BY SubSeqFull
  <2>4. Tail(u) = SubSeq(u, 2, Len(u)) BY TailIsSubSeq
  <2>5. Head(u) = u[1] OBVIOUS
  <2> QED BY <2>2, <2>3, <2>4, <2>5
<1>4. <<Head(u)>> \in Seq(Nat) BY <1>1
<1>5. Append(r, Head(u)) = r \o <<Head(u)>> BY <1>1, AppendIsConcat
<1>6. (r \o <<Head(u)>>) \o Tail(u) = r \o (<<Head(u)>> \o Tail(u))
  BY ONLY <1>1, <1>4, r \in Seq(Nat), ConcatAssociative
<1>7. Append(r, Head(u)) \in Seq(Nat) BY <1>1, AppendProperties
<1> QED BY <1>1, <1>3, <1>5, <1>6, <1>7

\* What is kept of a sequence, element by element.
LEMMA LastElements ==
  ASSUME NEW s \in Seq(Nat), NEW n \in Nat
  PROVE  /\ LastOf(s, n) \in Seq(Nat)
         /\ Len(LastOf(s, n)) = Smaller(n, Len(s))
         /\ \A i \in 1..Smaller(n, Len(s)) :
                LastOf(s, n)[i] = s[Len(s) - Smaller(n, Len(s)) + i]
<1>1. Len(s) \in Nat /\ \A i \in 1..Len(s) : s[i] \in Nat BY LenProperties
<1> DEFINE from == IF n < Len(s) THEN Len(s) - n + 1 ELSE 1
<1>2. from \in Int /\ \A i \in from..Len(s) : s[i] \in Nat BY <1>1
<1>3. LastOf(s, n) = SubSeq(s, from, Len(s)) BY DEF LastOf
<1> HIDE DEF from
<1>4. /\ SubSeq(s, from, Len(s)) \in Seq(Nat)
      /\ Len(SubSeq(s, from, Len(s))) = IF from <= Len(s) THEN Len(s) - from + 1 ELSE 0
      /\ \A i \in 1..Len(s) - from + 1 : SubSeq(s, from, Len(s))[i] = s[from + i - 1]
  BY <1>1, <1>2, SubSeqProperties
<1> USE DEF from
<1> DEFINE kept == Smaller(n, Len(s))
<1>5. kept = Len(s) - from + 1 /\ kept \in Nat BY <1>1 DEF Smaller
<1>6. \A i \in 1..kept : from + i - 1 = Len(s) - kept + i BY <1>1 DEF Smaller
<1> HIDE DEF from, kept
<1>7. Len(LastOf(s, n)) = kept BY <1>1, <1>2, <1>3, <1>4, <1>5
<1>8. \A i \in 1..kept : LastOf(s, n)[i] = s[Len(s) - kept + i] BY <1>3, <1>4, <1>5, <1>6
<1> QED BY <1>3, <1>4, <1>7, <1>8 DEF kept

LEMMA Kept ==
  ASSUME NEW r \in Seq(Nat), NEW x \in Nat, NEW n \in Nat
  PROVE  LastOf(Append(LastOf(r, n), x), n) = LastOf(Append(r, x), n)
<1> DEFINE k == LastOf(r, n)
           short == Append(k, x)
           long == Append(r, x)
           l == Len(r)
           j == Smaller(n, l)
           m == Smaller(n, l + 1)
<1>1. l \in Nat BY LenProperties
<1>2. /\ k \in Seq(Nat) /\ Len(k) = j
      /\ \A i \in 1..j : k[i] = r[l - j + i]
  BY LastElements
<1>3. /\ short \in Seq(Nat) /\ Len(short) = j + 1 /\ short[j + 1] = x
      /\ \A i \in 1..j : short[i] = k[i]
  <2> HIDE DEF k, j
  <2> QED BY <1>2, AppendProperties
<1>4. /\ long \in Seq(Nat) /\ Len(long) = l + 1 /\ long[l + 1] = x
      /\ \A i \in 1..l : long[i] = r[i]
  BY AppendProperties
<1>5. /\ j \in Nat /\ m \in Nat /\ m <= j + 1 /\ j <= l /\ m <= l + 1 /\ Smaller(n, j + 1) = m
  BY <1>1 DEF Smaller
<1> DEFINE a == LastOf(short, n)
           b == LastOf(long, n)
<1> HIDE DEF k, short, long, l, j, m
<1>6. a \in Seq(Nat) /\ Len(a) = m /\ \A i \in 1..m : a[i] = short[j + 1 - m + i]
  <2>1. /\ LastOf(short, n) \in Seq(Nat)
        /\ Len(LastOf(short, n)) = Smaller(n, Len(short))
        /\ \A i \in 1..Smaller(n, Len(short)) :
               LastOf(short, n)[i] = short[Len(short) - Smaller(n, Len(short)) + i]
    BY <1>3, LastElements
  <2>2. Len(short) = j + 1 /\ Smaller(n, Len(short)) = m BY <1>3, <1>5
  <2>3. a \in Seq(Nat) /\ Len(a) = m BY <2>1, <2>2
  <2>4. ASSUME NEW i \in 1..m PROVE a[i] = short[j + 1 - m + i]
    <3>1. LastOf(short, n)[i] = short[Len(short) - Smaller(n, Len(short)) + i] BY <2>1, <2>2
    <3> QED BY <3>1, <2>2, <1>5
  <2> QED BY <2>3, <2>4
<1>7. b \in Seq(Nat) /\ Len(b) = m /\ \A i \in 1..m : b[i] = long[l + 1 - m + i]
  <2>1. /\ LastOf(long, n) \in Seq(Nat)
        /\ Len(LastOf(long, n)) = Smaller(n, Len(long))
        /\ \A i \in 1..Smaller(n, Len(long)) :
               LastOf(long, n)[i] = long[Len(long) - Smaller(n, Len(long)) + i]
    BY <1>4, LastElements
  <2>2. Smaller(n, Len(long)) = m BY <1>4 DEF m
  <2>3. Len(long) = l + 1 BY <1>4
  <2>4. b \in Seq(Nat) /\ Len(b) = m BY <2>1, <2>2
  <2>5. ASSUME NEW i \in 1..m PROVE b[i] = long[l + 1 - m + i]
    <3>1. LastOf(long, n)[i] = long[Len(long) - Smaller(n, Len(long)) + i] BY <2>1, <2>2
    <3> QED BY <3>1, <2>2, <2>3, <1>1, <1>5
  <2> QED BY <2>4, <2>5
<1> HIDE DEF a, b
<1>8. ASSUME NEW i \in 1..m PROVE short[j + 1 - m + i] = long[l + 1 - m + i]
  <2>1. CASE i = m
    <3>1. j + 1 - m + i = j + 1 /\ l + 1 - m + i = l + 1 BY <2>1, <1>1, <1>5
    <3> QED BY <3>1, <1>3, <1>4
  <2>2. CASE i # m
    <3> DEFINE p == j + 1 - m + i
               q == l + 1 - m + i
    <3>1. p \in 1..j /\ q \in 1..l /\ l - j + p = q BY <2>2, <1>1, <1>5
    <3> HIDE DEF p, q
    <3>2. short[p] = r[l - j + p] /\ long[q] = r[q] BY <3>1, <1>2, <1>3, <1>4
    <3>3. short[p] = long[q] BY <3>1, <3>2
    <3> QED BY <3>3 DEF p, q
  <2> QED BY <2>1, <2>2
<1>9. \A i \in 1..m : a[i] = b[i] BY <1>6, <1>7, <1>8
<1>10. a = b BY <1>6, <1>7, <1>9, SeqEqual
<1> QED BY <1>10 DEF a, b, k, short, long

LEMMA Born ==
  ASSUME NEW asked, NEW v \in Validated(asked)
  PROVE  IsRun(Spawned(asked, v))
<1> DEFINE c == Spawned(asked, v)
<1>1. DOMAIN c = RunFields /\ Over(c) BY DEF Spawned, RunFields, Over
<1>2. Genuine(c) BY DEF Spawned, Genuine
<1>3. Heard(c)
  <2>1. <<>> \in Seq(Nat) /\ <<>> \o <<>> = <<>> OBVIOUS
  <2>2. LastOf(<<>>, TailLines) = <<>>
    <3>1. Len(<<>>) = 0 /\ TailLines \in Nat BY EmptySeq, DashboardAssumption
    <3>2. LastOf(<<>>, TailLines) = SubSeq(<<>>, 1, 0) BY <3>1 DEF LastOf
    <3> QED BY <3>2, SubSeqEmpty
  <2>3. c.said = <<>> /\ c.unread = <<>> /\ c.tail = <<>> BY DEF Spawned
  <2> QED BY <2>1, <2>2, <2>3 DEF Heard
<1> QED BY <1>1, <1>2, <1>3 DEF IsRun

\* A handler leaves the slot alone, settles what is over, kills what is not, or starts a run.
LEMMA HandledSlot ==
  ASSUME Handler
  PROVE  \/ run' = run
         \/ run # {} /\ (Child.settled \/ Joined) /\ run' = {[Child EXCEPT !.settled = TRUE]}
         \/ run # {} /\ run' = {[Child EXCEPT !.alive = FALSE, !.cancelled = TRUE]}
         \/ \E asked \in R.body.content : run' = {Spawned(asked, v) : v \in Validated(asked)}
<1>1. CASE Refuse \/ NoDatabase \/ Asset \/ Unrouted \/ Read \/ Annotate
  BY <1>1 DEF Refuse, NoDatabase, Asset, Unrouted, Read, Annotate
<1>2. CASE Start
  <2>1. \/ Closed503 \/ StartRefused \/ Locked \/ StartBusy
        \/ (run # {} => Child.settled \/ Joined) /\ (StartFails \/ StartPanics)
        \/ \E asked \in R.body.content : Started(asked)
    BY <1>2 DEF Start
  <2>2. CASE Closed503 \/ StartRefused \/ Locked \/ StartBusy
    BY <2>2 DEF Closed503, StartRefused, Locked, StartBusy
  <2>3. CASE (run # {} => Child.settled \/ Joined) /\ (StartFails \/ StartPanics)
    BY <2>3 DEF StartFails, StartPanics, Slot
  <2>4. CASE \E asked \in R.body.content : Started(asked) BY <2>4 DEF Started
  <2> QED BY <2>1, <2>2, <2>3, <2>4
<1>3. CASE Poll BY <1>3 DEF Poll, Locked
<1>4. CASE Cancel BY <1>4 DEF Cancel, Closed503, Locked, InFlight
<1> QED BY <1>1, <1>2, <1>3, <1>4 DEF Handler

LEMMA AroundSlot ==
  ASSUME Beside
  PROVE  \/ run' = run
         \/ run' = {} /\ answer' = NoAnswer
         \/ InFlight /\ run' = {[Child EXCEPT !.alive = FALSE, !.cancelled = TRUE]}
  BY DEF Beside, Accept, WaitPasses, AcceptFails, SeesShutdown, BodyEnds, RunsShutdown,
     Stops, Signal, Upgrade, Tick, Sample, WriterStops, Aside

LEMMA Says ==
  ASSUME NEW c, IsRun(c), c.alive
  PROVE  IsRun([c EXCEPT !.said = Append(c.said, Len(c.said) + 1),
                         !.unread = Append(c.unread, Len(c.said) + 1)])
<1> DEFINE x == Len(c.said) + 1
           d == [c EXCEPT !.said = Append(c.said, x), !.unread = Append(c.unread, x)]
<1>1. DOMAIN c = RunFields /\ Genuine(c) /\ Heard(c) /\ Over(c) BY DEF IsRun
<1>2. x \in Nat BY <1>1, LenProperties DEF Heard
<1> HIDE DEF x
<1>3. /\ DOMAIN d = RunFields /\ d.asked = c.asked /\ d.summary = c.summary
      /\ d.options = c.options /\ d.settled = c.settled /\ d.alive = c.alive /\ d.tail = c.tail
      /\ d.said = Append(c.said, x) /\ d.unread = Append(c.unread, x)
  BY <1>1 DEF RunFields
<1> HIDE DEF d
<1>4. Genuine(d) /\ Over(d) BY <1>1, <1>3 DEF Genuine, Over
<1>5. Heard(d)
  <2>1. PICK read \in Seq(Nat) : c.said = read \o c.unread /\ c.tail = LastOf(read, TailLines)
    BY <1>1 DEF Heard
  <2>2. Append(c.unread, x) \in Seq(Nat) /\ Append(c.said, x) = read \o Append(c.unread, x)
    <3>1. c.unread \in Seq(Nat) BY <1>1 DEF Heard
    <3>2. /\ Append(c.unread, x) \in Seq(Nat)
          /\ Append(read \o c.unread, x) = read \o Append(c.unread, x)
      BY <1>2, <3>1, Longer
    <3> QED BY <2>1, <3>2
  <2>3. Append(c.said, x) \in Seq(Nat) BY <1>1, <1>2, AppendProperties DEF Heard
  <2> QED BY <1>3, <2>1, <2>2, <2>3 DEF Heard
<1>6. IsRun(d) BY <1>3, <1>4, <1>5 DEF IsRun
<1> QED BY <1>6 DEF d, x

LEMMA Keeps ==
  ASSUME NEW c, IsRun(c), c.unread # <<>>
  PROVE  IsRun([c EXCEPT !.unread = Tail(c.unread),
                         !.tail = LastOf(Append(c.tail, Head(c.unread)), TailLines)])
<1> DEFINE d == [c EXCEPT !.unread = Tail(c.unread),
                          !.tail = LastOf(Append(c.tail, Head(c.unread)), TailLines)]
<1>1. DOMAIN c = RunFields /\ Genuine(c) /\ Heard(c) /\ Over(c) BY DEF IsRun
<1>3. /\ DOMAIN d = RunFields /\ d.asked = c.asked /\ d.summary = c.summary
      /\ d.options = c.options /\ d.settled = c.settled /\ d.alive = c.alive /\ d.said = c.said
      /\ d.unread = Tail(c.unread)
      /\ d.tail = LastOf(Append(c.tail, Head(c.unread)), TailLines)
  BY <1>1 DEF RunFields
<1> HIDE DEF d
<1>4. Genuine(d) /\ Over(d) BY <1>1, <1>3 DEF Genuine, Over
<1>5. Heard(d)
  <2>1. PICK read \in Seq(Nat) : c.said = read \o c.unread /\ c.tail = LastOf(read, TailLines)
    BY <1>1 DEF Heard
  <2>2. c.said \in Seq(Nat) /\ c.unread \in Seq(Nat) BY <1>1 DEF Heard
  <2> DEFINE more == Append(read, Head(c.unread))
  <2>3. /\ more \in Seq(Nat) /\ Tail(c.unread) \in Seq(Nat) /\ Head(c.unread) \in Nat
        /\ read \o c.unread = more \o Tail(c.unread)
    BY <2>2, Moved
  <2>4. d.tail = LastOf(more, TailLines) BY <1>3, <2>1, <2>3, Kept, DashboardAssumption
  <2> HIDE DEF more
  <2> QED BY <1>3, <2>1, <2>2, <2>3, <2>4 DEF Heard
<1>6. IsRun(d) BY <1>3, <1>4, <1>5 DEF IsRun
<1> QED BY <1>6 DEF d

\* The one run of the slot becomes another, or there is none.
LEMMA SlotBecomes ==
  ASSUME NEW c, run' = {c}, IsRun(c)
  PROVE  SlotInv'
<1>1. \A a, b \in run' : a = b /\ IsRun(a) OBVIOUS
<1>2. \A a : IsRun(a)' <=> IsRun(a) BY DEF IsRun, Genuine, Heard, Over
<1> QED BY <1>1, <1>2 DEF SlotInv

LEMMA ChildSlot ==
  ASSUME SlotInv, Childs
  PROVE  SlotInv'
<1>1. run # {} BY DEF Childs, Say, Ends, Keep, InFlight
<1>2. IsRun(Child) BY <1>1, OnlyChild
<1>3. CASE Say
  <2>1. run' = {[Child EXCEPT !.said = Append(Child.said, Len(Child.said) + 1),
                              !.unread = Append(Child.unread, Len(Child.said) + 1)]}
    BY <1>3 DEF Say
  <2>2. Child.alive BY <1>3 DEF Say, InFlight
  <2> QED BY <1>2, <2>1, <2>2, Says, SlotBecomes
<1>4. ASSUME NEW code, Ends(code) PROVE SlotInv'
  <2>1. run' = {[Child EXCEPT !.alive = FALSE, !.code = {code}]} BY <1>4 DEF Ends
  <2>2. IsRun([Child EXCEPT !.alive = FALSE, !.code = {code}]) BY <1>2, IsEnded
  <2> QED BY <2>1, <2>2, SlotBecomes
<1>5. CASE Keep
  <2>1. run' = {[Child EXCEPT !.unread = Tail(Child.unread),
                              !.tail = LastOf(Append(Child.tail, Head(Child.unread)), TailLines)]}
    BY <1>5 DEF Keep
  <2>2. Child.unread # <<>> BY <1>5 DEF Keep
  <2> QED BY <1>2, <2>1, <2>2, Keeps, SlotBecomes
<1> QED BY <1>3, <1>4, <1>5 DEF Childs

LEMMA SlotSteps == SlotInv /\ [Next]_vars => SlotInv'
<1> SUFFICES ASSUME SlotInv, [Next]_vars PROVE SlotInv' OBVIOUS
<1>0. \A a : IsRun(a)' <=> IsRun(a) BY DEF IsRun, Genuine, Heard, Over
<1>1. run' = run \/ run' = {} => SlotInv' BY <1>0 DEF SlotInv
<1>2. ASSUME run # {}, Child.settled \/ Joined, run' = {[Child EXCEPT !.settled = TRUE]}
      PROVE  SlotInv'
  <2>1. IsRun([Child EXCEPT !.settled = TRUE]) BY <1>2, OnlyChild, Settles DEF Joined
  <2> QED BY <1>2, <2>1, SlotBecomes
<1>3. ASSUME run # {}, run' = {[Child EXCEPT !.alive = FALSE, !.cancelled = TRUE]} PROVE SlotInv'
  <2>1. IsRun([Child EXCEPT !.alive = FALSE, !.cancelled = TRUE]) BY <1>3, OnlyChild, IsEnded
  <2> QED BY <1>3, <2>1, SlotBecomes
<1>4. ASSUME NEW asked, run' = {Spawned(asked, v) : v \in Validated(asked)} PROVE SlotInv'
  <2>1. CASE Validated(asked) = {} BY <1>1, <1>4, <2>1
  <2>2. CASE Validated(asked) # {}
    <3>1. PICK v : Validated(asked) = {v} BY <2>2 DEF Validated
    <3>2. run' = {Spawned(asked, v)} BY <1>4, <3>1
    <3>3. IsRun(Spawned(asked, v)) BY <3>1, Born
    <3> QED BY <3>2, <3>3, SlotBecomes
  <2> QED BY <2>1, <2>2
<1>5. CASE Handler BY <1>1, <1>2, <1>3, <1>4, <1>5, HandledSlot
<1>6. CASE Beside BY <1>1, <1>3, <1>6, AroundSlot DEF InFlight
<1>7. CASE Childs BY <1>7, ChildSlot
<1>8. CASE UNCHANGED vars BY <1>1, <1>8 DEF vars
<1> QED BY <1>5, <1>6, <1>7, <1>8, Steps

LEMMA SlotIsRight == Spec => []SlotInv
<1>1. Init => SlotInv BY DEF Init, SlotInv
<1> QED BY <1>1, SlotSteps, PTL DEF Spec

-----------------------------------------------------------------------------
\* What the command line says, read back, is the request.
LEMMA Carried ==
  ASSUME NEW v, NEW o \in Parsed(ToArgs(v, DataDir)), v.live \in BOOLEAN, v.offline \in BOOLEAN
  PROVE  /\ o.preset = v.preset /\ o.target = v.target /\ o.scratch = v.scratch
         /\ o.offline = v.offline /\ o.live = v.live /\ o.route = v.route /\ o.model = v.model
         /\ o.cap = v.cap /\ ~o.tui /\ o.marks = {DataDir}
<1> DEFINE args == ToArgs(v, DataDir)
           said(flag) == flag \in args.flags
<1>1. args.options = Template(v, DataDir) BY DEF ToArgs
<1>2. args.flags = {"no-tui"} \cup (IF v.offline THEN {"offline"} ELSE {})
                   \cup {IF v.live THEN "live-llm" ELSE "no-live-llm"}
  BY DEF ToArgs
<1>3. /\ said("no-tui") /\ (said("offline") <=> v.offline)
      /\ (said("live-llm") <=> v.live) /\ (said("no-live-llm") <=> ~v.live)
  BY <1>2
<1> HIDE DEF args
<1>4. o = [preset |-> args.options.preset, target |-> args.options.target,
           scratch |-> args.options.scratch, offline |-> said("offline"),
           live |-> CASE said("no-live-llm") -> FALSE
                      [] said("live-llm") -> TRUE
                      [] OTHER -> LiveByPreset(args.options.preset),
           route |-> args.options.route, model |-> args.options.model, cap |-> args.options.cap,
           port |-> args.options.port, tui |-> ~said("no-tui"), marks |-> args.options.dataDir]
  BY DEF Parsed, args
<1>5. /\ o.offline = said("offline") /\ o.tui = ~said("no-tui")
      /\ o.live = CASE said("no-live-llm") -> FALSE
                     [] said("live-llm") -> TRUE
                     [] OTHER -> LiveByPreset(args.options.preset)
  BY <1>4
<1>6. /\ o.preset = v.preset /\ o.target = v.target /\ o.scratch = v.scratch /\ o.route = v.route
      /\ o.model = v.model /\ o.cap = v.cap /\ o.marks = {DataDir}
  BY <1>1, <1>4 DEF Template
<1> HIDE DEF said
<1>7. o.offline = v.offline
  <2>1. CASE v.offline = TRUE
    <3>1. said("offline") = TRUE BY <1>3, <2>1 DEF said
    <3> QED BY <1>5, <2>1, <3>1
  <2>2. CASE v.offline = FALSE
    <3>1. said("offline") = FALSE BY <1>3, <2>2 DEF said
    <3> QED BY <1>5, <2>2, <3>1
  <2> QED BY <2>1, <2>2
<1>8. o.live = v.live
  <2>1. CASE v.live = TRUE BY <1>3, <1>5, <2>1
  <2>2. CASE v.live = FALSE BY <1>3, <1>5, <2>2
  <2> QED BY <2>1, <2>2
<1>9. ~o.tui BY <1>3, <1>5
<1> QED BY <1>6, <1>7, <1>8, <1>9

\* The child runs what the page was told it would run, in this daemon's database, and spends
\* money only within what was asked for, whatever is asked and whoever the client is.
THEOREM AskedForIsRun == Spec => []AskedIsRun
<1>1. SlotInv => AskedIsRun
  <2> SUFFICES ASSUME SlotInv, NEW c \in run, NEW o \in c.options
               PROVE  /\ <<o.preset, o.target, o.scratch, o.offline, o.live>>
                         = <<c.summary.preset, c.summary.target, c.summary.scratch,
                             c.summary.offline, c.summary.live>>
                      /\ o.live => /\ Field(c.asked, "live_llm", FALSE)
                                   /\ <<o.route, o.model, o.cap>> \in c.summary.llm
                                   /\ o.cap <= MAX_COST_CAP
                      /\ ~o.tui /\ o.marks = {DataDir}
    BY DEF AskedIsRun
  <2>1. PICK v \in Validated(c.asked) : c.summary = Summary(v) /\ c.options = Parsed(ToArgs(v, DataDir))
    BY DEF SlotInv, IsRun, Genuine
  <2>2. v = Filled(c.asked) /\ v.cap <= MAX_COST_CAP /\ v.live \in BOOLEAN /\ v.offline \in BOOLEAN
    BY DEF Validated
  <2>3. v.live = Field(c.asked, "live_llm", FALSE) BY <2>2 DEF Filled
  <2>4. /\ o.preset = v.preset /\ o.target = v.target /\ o.scratch = v.scratch
        /\ o.offline = v.offline /\ o.live = v.live /\ o.route = v.route /\ o.model = v.model
        /\ o.cap = v.cap /\ ~o.tui /\ o.marks = {DataDir}
    BY <2>1, <2>2, Carried
  <2>5. /\ c.summary.preset = v.preset /\ c.summary.target = v.target
        /\ c.summary.scratch = v.scratch /\ c.summary.offline = v.offline
        /\ c.summary.live = v.live
        /\ c.summary.llm = IF v.live THEN {<<v.route, v.model, v.cap>>} ELSE {}
    BY <2>1 DEF Summary
  <2>6. o.live => <<o.route, o.model, o.cap>> \in c.summary.llm BY <2>4, <2>5
  <2>7. o.cap <= MAX_COST_CAP BY <2>2, <2>4
  <2>8. o.live => Field(c.asked, "live_llm", FALSE) BY <2>3, <2>4
  <2> QED BY <2>4, <2>5, <2>6, <2>7, <2>8
<1> QED BY <1>1, SlotIsRight, PTL

-----------------------------------------------------------------------------
\* Once a page has been told how a run ended the run is settled, and what it was told of it stands.
Explained == Answered("run") /\ Told.state = "finished"
             => run # {} /\ Child.settled /\ Told.stderr = LastOf(Child.said, TailLines)

\* Nobody but Poll answers a question about the run with 200.
LEMMA OnlyPoll ==
  ASSUME Handler, Answered("run")'
  PROVE  Poll
<1>1. R.path = "run" /\ answer'.code = 200 BY Handled, Question DEF Answered
<1>2. Route(R) \in {"run", "405"} BY <1>1 DEF Route, Documents, Scripts, ReadPaths, WritePaths
<1>3. ~(Refuse \/ NoDatabase \/ Unrouted) BY <1>1, TurnedAway
<1>4. ~Asset /\ ~Read /\ ~Annotate /\ ~Start /\ ~Cancel
  BY <1>2 DEF Asset, Read, Reads, Annotate, Start, Cancel
<1> QED BY <1>3, <1>4 DEF Handler

\* A settled run has been read to its end.
LEMMA ReadToTheEnd ==
  ASSUME NEW c, IsRun(c), c.unread = <<>>
  PROVE  c.tail = LastOf(c.said, TailLines)
<1>1. PICK read \in Seq(Nat) : c.said = read \o c.unread /\ c.tail = LastOf(read, TailLines)
  BY DEF IsRun, Heard
<1>2. read \o <<>> = read BY ConcatEmptySeq
<1> QED BY <1>1, <1>2

LEMMA PollExplains ==
  ASSUME SlotInv, Poll, Answered("run")', Told'.state = "finished"
  PROVE  run' # {} /\ Child'.settled /\ Told'.stderr = LastOf(Child'.said, TailLines)
<1>1. ~Locked
  <2>1. Locked => answer'.code = 500 BY DEF Locked, Panics, Answers
  <2>2. answer'.code = 200 BY DEF Answered
  <2> QED BY ONLY <2>1, <2>2
<1>2. CASE Answers(200, {[state |-> IF InFlight THEN "running" ELSE "idle"]})
  <2>1. answer'.body = {[state |-> IF InFlight THEN "running" ELSE "idle"]} BY <1>2 DEF Answers
  <2>2. Told' = [state |-> IF InFlight THEN "running" ELSE "idle"] BY <2>1 DEF Told
  <2> QED BY <2>2
<1>3. CASE /\ run # {} /\ (Child.settled \/ Joined)
           /\ run' = {[Child EXCEPT !.settled = TRUE]}
           /\ Answers(200, {[state |-> "finished", stderr |-> Child.tail, code |-> Child.code,
                             ok |-> Child.code = {0} /\ ~Child.cancelled]})
  <2>1. answer'.body = {[state |-> "finished", stderr |-> Child.tail, code |-> Child.code,
                         ok |-> Child.code = {0} /\ ~Child.cancelled]}
    BY <1>3 DEF Answers
  <2>2. Told' = [state |-> "finished", stderr |-> Child.tail, code |-> Child.code,
                 ok |-> Child.code = {0} /\ ~Child.cancelled]
    BY <2>1 DEF Told
  <2>3. Told'.stderr = Child.tail BY <2>2
  <2>4. IsRun(Child) BY <1>3, OnlyChild
  <2>5. Child.unread = <<>> BY <1>3, <2>4 DEF IsRun, Over, Joined
  <2>6. Child' = [Child EXCEPT !.settled = TRUE]
    <3>1. run' = {[Child EXCEPT !.settled = TRUE]} BY <1>3
    <3> QED BY <3>1 DEF Child
  <2>7. Child'.settled /\ Child'.said = Child.said BY <2>4, <2>6 DEF IsRun, RunFields
  <2> QED BY <1>3, <2>3, <2>4, <2>5, <2>7, ReadToTheEnd
<1> QED BY <1>1, <1>2, <1>3 DEF Poll

\* However far the thread that reads a pipe is behind, a run reported as over is reported with
\* the last lines it wrote.
THEOREM FailureIsExplained == Spec => []ExplainsFailure
<1>1. Init => Explained BY DEF Init, NoAnswer, Explained, Answered
<1>2. SlotInv /\ Explained /\ [Next]_vars => Explained'
  <2> SUFFICES ASSUME SlotInv, Explained, [Next]_vars, Answered("run")', Told'.state = "finished"
               PROVE  run' # {} /\ Child'.settled /\ Told'.stderr = LastOf(Child'.said, TailLines)
    BY DEF Explained
  <2>1. CASE Handler BY <2>1, OnlyPoll, PollExplains
  <2>2. ASSUME answer' = answer, scene' = scene
        PROVE  run # {} /\ Child.settled /\ Told'.stderr = LastOf(Child.said, TailLines)
    <3>1. Told' = Told BY <2>2 DEF Told
    <3>2. Asked' = Asked BY <2>2 DEF Asked, S
    <3>3. Answered("run") BY <2>2, <3>2 DEF Answered
    <3> QED BY <3>1, <3>3 DEF Explained
  <2>3. ASSUME run # {}, Child.settled PROVE ~Child.alive /\ Child.unread = <<>>
    BY <2>3, OnlyChild DEF IsRun, Over
  <2>4. CASE Beside
    <3>1. scene' = scene
      BY <2>4 DEF Beside, Accept, WaitPasses, AcceptFails, SeesShutdown, BodyEnds, RunsShutdown,
         Stops, Signal, Upgrade, Tick, Sample, WriterStops, Aside
    <3>2. answer'.to # {} BY DEF Answered
    <3>3. answer' = answer BY <2>4, <3>2, AroundAnswers
    <3>4. answer' # NoAnswer BY <3>2 DEF NoAnswer
    <3>5. run' = run BY <2>2, <2>3, <2>4, <3>1, <3>3, <3>4, AroundSlot DEF InFlight
    <3>6. Child' = Child BY <3>5 DEF Child
    <3> QED BY <2>2, <3>1, <3>3, <3>5, <3>6
  <2>5. CASE Childs
    <3>1. answer' = answer /\ scene' = scene BY <2>5, ChildsKeep
    <3>2. FALSE BY <2>2, <2>3, <2>5, <3>1 DEF Childs, Say, Ends, Keep, InFlight
    <3> QED BY <3>2
  <2>6. CASE UNCHANGED vars
    <3>1. Child' = Child BY <2>6 DEF Child, vars
    <3> QED BY <2>2, <2>6, <3>1 DEF vars
  <2> QED BY <2>1, <2>4, <2>5, <2>6, Steps
<1>3. SlotInv /\ Explained => ExplainsFailure BY DEF Explained, ExplainsFailure
<1> QED BY <1>1, <1>2, <1>3, SlotIsRight, PTL DEF Spec

-----------------------------------------------------------------------------
\* Once it took a sample, and while the writer runs, a daemon misses no more than one in a row.
Sampled == /\ \A a \in age : a \in Int
           /\ sampled => age # {}
           /\ sampled /\ writer => \E a \in age : a < 2 * IdleInterval

LEMMA SampledSteps == Sampled /\ [Next]_vars => Sampled'
<1> SUFFICES ASSUME Sampled, [Next]_vars PROVE Sampled' OBVIOUS
<1>1. CASE UNCHANGED <<age, sampled, writer>> BY <1>1 DEF Sampled
<1>2. CASE Handler BY <1>1, <1>2, Handled, Replied
<1>3. CASE Childs BY <1>1, <1>3, ChildsKeep
<1>4. CASE Tick
  <2>1. /\ age' = {a + 1 : a \in age} /\ UNCHANGED <<sampled, writer>>
        /\ \A a \in age : writer /\ sampled => a + 1 < 2 * IdleInterval
    BY <1>4 DEF Tick
  <2> QED BY <2>1 DEF Sampled
<1>5. CASE Sample
  <2>1. age' = (IF \E a \in age : a < 0 THEN age ELSE {0}) /\ sampled' = TRUE /\ writer' = writer
    BY <1>5 DEF Sample
  <2>2. CASE age' = {0} BY <2>1, <2>2, DashboardAssumption DEF Sampled
  <2>3. CASE age' = age /\ \E a \in age : a < 0
    BY <2>1, <2>3, DashboardAssumption DEF Sampled
  <2> QED BY <2>1, <2>2, <2>3
<1>6. CASE WriterStops BY <1>6 DEF WriterStops, Sampled
<1>7. CASE Upgrade BY <1>7 DEF Upgrade, Sampled
<1>8. CASE Beside /\ ~Tick /\ ~Sample /\ ~WriterStops /\ ~Upgrade
  BY <1>1, <1>8 DEF Beside, Accept, WaitPasses, AcceptFails, SeesShutdown, BodyEnds, RunsShutdown,
     Stops, Signal, worldVars
<1>9. CASE UNCHANGED vars BY <1>1, <1>9 DEF vars
<1> QED BY <1>2, <1>3, <1>4, <1>5, <1>6, <1>7, <1>8, <1>9, Steps

\* Whatever the cadence, a daemon that samples is not said to have ended for one missed sample;
\* and one whose writer has stopped, or that has nothing to show, is never said to collect.
THEOREM StatusIsTrue == Spec => StatusTellsTheTruth
<1>1. Init => Sampled
  <2> SUFFICES ASSUME Init PROVE \A a \in age : a \in Int BY DEF Init, Sampled
  <2> DEFINE rows == S.store.samples
  <2>1. scene \in DOMAIN Scenes /\ age = {S.now - ts : ts \in Newest(rows)} BY DEF Init
  <2>2. S.now \in Int BY <2>1, ZonesAssumption DEF S
  <2>3. Chronological(rows) BY <2>1, StoresAssumption DEF S
  <2> HIDE DEF rows
  <2>4. ASSUME rows # <<>> PROVE rows[Len(rows)].ts \in Int
    <3>1. rows \in Seq(Range(rows)) /\ \A r \in Range(rows) : r.ts \in Int BY <2>3 DEF Chronological
    <3>2. Len(rows) \in 1..Len(rows) /\ DOMAIN rows = 1..Len(rows) BY <2>4, <3>1, EmptySeq, LenProperties
    <3> QED BY <3>1, <3>2 DEF Range
  <2> QED BY <2>1, <2>2, <2>4 DEF Newest
<1>2. Sampled /\ [Next]_vars =>
        [hand # {} /\ hand' = {} /\ R.path = "status" /\ answer'.code = 200
         => \A b \in answer'.body : /\ writer /\ sampled => b.collecting
                                    /\ b.collecting => writer /\ age # {}]_vars
  <2> SUFFICES ASSUME Sampled, Next, hand # {}, hand' = {}, R.path = "status", answer'.code = 200,
                      NEW b \in answer'.body
               PROVE  /\ writer /\ sampled => b.collecting
                      /\ b.collecting => writer /\ age # {}
    OBVIOUS
  <2>1. CASE Handler
    <3>1. Route(R) \in {"status", "405"} BY DEF Route, Documents, Scripts, ReadPaths, WritePaths
    <3>2. ~(Refuse \/ NoDatabase \/ Unrouted) BY TurnedAway
    <3>5. Read /\ Route(R) = "status"
      BY <2>1, <3>1, <3>2
      DEF Handler, Asset, Annotate, Start, Poll, Cancel, Read, Reads
    <3>6. ReadAnswer = Ok(StatusBody) BY <3>5 DEF ReadAnswer
    <3>7. answer'.body = {StatusBody} BY <3>5, <3>6 DEF Read, Answers, Ok
    <3>8. b.collecting <=> writer /\ \E a \in age : a < StaleAfter(IdleInterval)
      <4>1. b = StatusBody BY <3>7
      <4> QED BY <4>1 DEF StatusBody
    <3>9. ASSUME writer, sampled PROVE \E a \in age : a < StaleAfter(IdleInterval)
      <4>1. PICK a \in age : a \in Int /\ a < 2 * IdleInterval BY <3>9 DEF Sampled
      <4> QED BY <4>1, DashboardAssumption DEF StaleAfter, Larger
    <3> QED BY <3>8, <3>9
  <2>2. CASE Beside
    <3>1. Upgrade
      BY <2>2 DEF Beside, Accept, WaitPasses, AcceptFails, SeesShutdown, BodyEnds, RunsShutdown,
         Stops, Signal, Tick, Sample, WriterStops, Aside, requestVars
    <3>2. answer'.code = 0 BY <3>1 DEF Upgrade, NoAnswer
    <3>3. answer'.code = 200 OBVIOUS
    <3> QED BY ONLY <3>2, <3>3
  <2>3. CASE Childs BY <2>3, ChildsKeep
  <2> QED BY <2>1, <2>2, <2>3, Steps
<1> QED BY <1>1, <1>2, SampledSteps, PTL DEF Spec, StatusTellsTheTruth

-----------------------------------------------------------------------------
(* What the cases of a benchmark cost together                             *)

RanCase == [route : RouteNames, scenario : Nat, first : BOOLEAN, late : BOOLEAN, cost : Nat,
            said : BOOLEAN, ok : BOOLEAN]

\* f sums the costs of the first n runs.
Sums(runs, n, f) == f = [k \in 0..n |-> IF k = 0 THEN 0 ELSE f[k - 1] + runs[k].cost]

LEMMA Smallest ==
  ASSUME NEW numbers, numbers \subseteq Nat, numbers # {}
  PROVE  \E x \in numbers : \A y \in numbers : x <= y
<1>1. PICK x \in numbers : \A y \in numbers : <<y, x>> \notin OpToRel(<, Nat)
  BY NatLessThanWellFounded, WFMin, Zenon
<1>2. ASSUME NEW y \in numbers, y < x PROVE FALSE
  <2>1. <<y, x>> \in OpToRel(<, Nat)
    <3>1. y \in Nat /\ x \in Nat OBVIOUS
    <3> QED BY <1>2, <3>1, Zenon DEF OpToRel
  <2> QED BY <1>1, <2>1, Zenon
<1> QED BY <1>2

LEMMA SumExists ==
  ASSUME NEW runs \in Seq(RanCase)
  PROVE  \E f \in [0..Len(runs) -> Nat] : Sums(runs, Len(runs), f)
<1>0. Len(runs) \in Nat /\ \A i \in 1..Len(runs) : runs[i] \in RanCase BY LenProperties
<1>1. \A i \in 1..Len(runs) : runs[i].cost \in Nat BY <1>0 DEF RanCase
<1> DEFINE Bad == {n \in 0..Len(runs) : \A f \in [0..n -> Nat] : ~Sums(runs, n, f)}
<1>2. ASSUME Bad # {} PROVE FALSE
  <2>1. PICK n \in Bad : \A m \in Bad : n <= m
    <3>1. Bad \subseteq Nat BY <1>0
    <3> HIDE DEF Bad
    <3> QED BY <1>2, <3>1, Smallest
  <2>2. n \in Nat /\ n <= Len(runs) BY <1>0
  <2>3. n # 0
    <3> SUFFICES ASSUME n = 0 PROVE FALSE OBVIOUS
    <3> DEFINE f == [k \in 0..0 |-> 0]
    <3>1. f \in [0..n -> Nat] OBVIOUS
    <3>2. Sums(runs, n, f) BY DEF Sums
    <3> QED BY <3>1, <3>2
  <2>4. n - 1 \in 0..Len(runs) /\ n - 1 \notin Bad
    <3>1. n - 1 \in 0..Len(runs) /\ ~(n <= n - 1) BY <2>2, <2>3, <1>0
    <3> QED BY <2>1, <3>1
  <2>5. PICK f \in [0..n - 1 -> Nat] : Sums(runs, n - 1, f) BY <2>4
  <2> DEFINE g == [k \in 0..n |-> IF k = n THEN f[n - 1] + runs[n].cost ELSE f[k]]
  <2>6. f[n - 1] \in Nat /\ runs[n].cost \in Nat BY <1>0, <1>1, <2>2, <2>3
  <2>7. g \in [0..n -> Nat] BY <2>2, <2>6
  <2>8. Sums(runs, n, g)
    <3>1. ASSUME NEW k \in 0..n PROVE g[k] = IF k = 0 THEN 0 ELSE g[k - 1] + runs[k].cost
      <4>1. CASE k = n
        <5>1. g[k - 1] = f[n - 1] /\ g[k] = f[n - 1] + runs[n].cost BY <4>1, <2>2, <2>3
        <5> QED BY <4>1, <5>1, <2>3
      <4>2. CASE k # n
        <5>1. k \in 0..n - 1 BY <4>2, <2>2
        <5>2. f[k] = IF k = 0 THEN 0 ELSE f[k - 1] + runs[k].cost BY <2>5, <5>1 DEF Sums
        <5>3. g[k] = f[k] BY <4>2
        <5>4. k # 0 => g[k - 1] = f[k - 1] BY <4>2, <5>1, <2>2
        <5> QED BY <5>2, <5>3, <5>4
      <4> QED BY <4>1, <4>2
    <3>2. g = [k \in 0..n |-> g[k]] OBVIOUS
    <3> HIDE DEF g
    <3> QED BY <3>1, <3>2 DEF Sums
  <2> HIDE DEF g
  <2> QED BY <2>7, <2>8
<1>3. Len(runs) \notin Bad BY <1>2
<1> QED BY <1>0, <1>3

LEMMA SumUnique ==
  ASSUME NEW runs \in Seq(RanCase), NEW f, NEW g, Sums(runs, Len(runs), f), Sums(runs, Len(runs), g)
  PROVE  f = g
<1>0. Len(runs) \in Nat BY LenProperties
<1>1. /\ \A k \in 0..Len(runs) : f[k] = IF k = 0 THEN 0 ELSE f[k - 1] + runs[k].cost
      /\ \A k \in 0..Len(runs) : g[k] = IF k = 0 THEN 0 ELSE g[k - 1] + runs[k].cost
  BY DEF Sums
<1> DEFINE Bad == {n \in 0..Len(runs) : f[n] # g[n]}
<1>2. ASSUME Bad # {} PROVE FALSE
  <2>1. PICK n \in Bad : \A m \in Bad : n <= m
    <3>1. Bad \subseteq Nat BY <1>0
    <3> HIDE DEF Bad
    <3> QED BY <1>2, <3>1, Smallest
  <2>2. n # 0 BY <1>1
  <2>3. n - 1 \in 0..Len(runs) /\ n - 1 \notin Bad
    <3>1. n - 1 \in 0..Len(runs) /\ ~(n <= n - 1) BY <2>2, <1>0
    <3> QED BY <2>1, <3>1
  <2>4. f[n] = f[n - 1] + runs[n].cost /\ g[n] = g[n - 1] + runs[n].cost BY <1>1, <2>2
  <2> QED BY <2>3, <2>4
<1>3. \A n \in 0..Len(runs) : f[n] = g[n] BY <1>2
<1>4. f = [n \in 0..Len(runs) |-> f[n]] /\ g = [n \in 0..Len(runs) |-> g[n]] BY DEF Sums
<1> QED BY <1>3, <1>4

LEMMA PaidIs ==
  ASSUME NEW runs \in Seq(RanCase), NEW f, Sums(runs, Len(runs), f)
  PROVE  PaidFor(runs) = f[Len(runs)]
<1> DEFINE sum == CHOOSE h : Sums(runs, Len(runs), h)
<1>1. Sums(runs, Len(runs), sum) OBVIOUS
<1>2. PaidFor(runs) = sum[Len(runs)] BY DEF PaidFor, Sums
<1> HIDE DEF sum
<1> QED BY <1>1, <1>2, SumUnique

LEMMA PaidEmpty == PaidFor(<<>>) = 0
<1>1. <<>> \in Seq(RanCase) /\ Len(<<>>) = 0 OBVIOUS
<1>2. PICK f \in [0..Len(<<>>) -> Nat] : Sums(<<>>, Len(<<>>), f) BY <1>1, SumExists
<1>3. f[0] = 0 BY <1>1, <1>2 DEF Sums
<1> QED BY <1>1, <1>2, <1>3, PaidIs

\* One case more costs what it costs.
LEMMA PaidAppend ==
  ASSUME NEW runs \in Seq(RanCase), NEW r \in RanCase
  PROVE  PaidFor(runs) \in Nat /\ PaidFor(Append(runs, r)) = PaidFor(runs) + r.cost
<1> DEFINE n == Len(runs)
           more == Append(runs, r)
<1>1. n \in Nat /\ more \in Seq(RanCase) /\ Len(more) = n + 1 BY LenProperties, AppendProperties
<1>2. PICK f \in [0..n -> Nat] : Sums(runs, n, f) BY SumExists
<1>3. PICK g \in [0..Len(more) -> Nat] : Sums(more, Len(more), g) BY <1>1, SumExists
<1>4. PaidFor(runs) = f[n] /\ PaidFor(more) = g[n + 1]
  <2>1. PaidFor(more) = g[Len(more)] BY <1>1, <1>3, PaidIs
  <2> QED BY <1>1, <1>2, <2>1, PaidIs
<1>5. /\ more[n + 1] = r
      /\ \A k \in 1..n : more[k] = runs[k]
  BY AppendProperties, <1>1
<1>6. \A k \in 0..n + 1 : g[k] = IF k = 0 THEN 0 ELSE g[k - 1] + more[k].cost
  BY <1>1, <1>3 DEF Sums
<1> DEFINE less == [k \in 0..n |-> g[k]]
<1>7. Sums(runs, n, less)
  <2> HIDE DEF more
  <2>1. \A k \in 0..n : less[k] = IF k = 0 THEN 0 ELSE less[k - 1] + runs[k].cost
    <3> SUFFICES ASSUME NEW k \in 0..n PROVE less[k] = IF k = 0 THEN 0 ELSE less[k - 1] + runs[k].cost
      OBVIOUS
    <3>1. k \in 0..n + 1 /\ (k # 0 => k \in 1..n /\ k - 1 \in 0..n) BY <1>1
    <3>2. k # 0 => more[k] = runs[k] BY <3>1, <1>5
    <3> QED BY <3>1, <3>2, <1>6
  <2>2. less = [k \in 0..n |-> less[k]] OBVIOUS
  <2> HIDE DEF less
  <2> QED BY <2>1, <2>2 DEF Sums
<1>8. less = f
  <2> HIDE DEF less
  <2> QED BY <1>2, <1>7, SumUnique
<1>9. g[n] = f[n] BY <1>1, <1>8
<1>10. g[n + 1] = g[n] + r.cost
  <2>1. n + 1 \in 0..n + 1 /\ n + 1 # 0 /\ n + 1 - 1 = n BY <1>1
  <2> HIDE DEF more
  <2> QED BY <2>1, <1>5, <1>6
<1> HIDE DEF more
<1>11. g[n + 1] = f[n] + r.cost BY <1>9, <1>10
<1>12. f[n] \in Nat
  <2>1. n \in 0..n BY <1>1
  <2> QED BY <1>2, <2>1
<1> HIDE DEF n
<1> QED BY <1>4, <1>11, <1>12 DEF more

-----------------------------------------------------------------------------
(* The program: the page's own steps, and the course of a benchmark        *)

\* What is true of the page is true of it in the program that a benchmark runs in.
THEOREM ProgramServes == ProgramSpec => Spec
<1>1. ProgramInit => Init BY DEF ProgramInit
<1>2. [ProgramNext]_programVars => [Next]_vars BY DEF ProgramNext, ServerStep, programVars
<1> QED BY <1>1, <1>2, PTL DEF ProgramSpec, Spec

IsOption(o) == o.cap \in Nat /\ o.preset \in Presets

\* What a server's step does to the benchmark.
LEMMA ProgramMoves ==
  ASSUME SlotInv', [ProgramNext]_programVars
  PROVE  \/ \E o, terminal, trouble : IsOption(o) /\ Begins(o, terminal, trouble)
         \/ Killed
         \/ UNCHANGED benchVars
         \/ BenchStep
<1>1. CASE ServerStep /\ Happens("bench")
  <2>1. CASE Starts
    <3>1. \E c \in run' : c.alive /\ c.options # {} BY <2>1 DEF Starts
    <3>2. PICK c \in run' : Begins(CHOOSE o \in c.options : TRUE, FALSE, S.happens)
      BY <1>1, <2>1 DEF ServerStep, Follows, Starts, IsKilled, IsOver
    <3>3. \A d \in run' : d = c BY DEF SlotInv
    <3>4. c.options # {} BY <3>1, <3>3
    <3>5. (IsRun(c))' BY DEF SlotInv
    <3>6. IsRun(c) BY <3>5 DEF IsRun, Genuine, Heard, Over
    <3>7. PICK v \in Validated(c.asked) : c.options = Parsed(ToArgs(v, DataDir))
      BY <3>6 DEF IsRun, Genuine
    <3>8. /\ v.cap \in 1..MAX_COST_CAP /\ v.live \in BOOLEAN /\ v.offline \in BOOLEAN
          /\ v.preset \in Presets
      BY <3>7 DEF Validated
    <3>9. \A o \in c.options : o.cap = v.cap /\ o.preset = v.preset BY <3>7, <3>8, Carried
    <3>10. v.cap \in Nat
      <4>1. 1..MAX_COST_CAP \subseteq Nat BY DEF MAX_COST_CAP
      <4> QED BY <3>8, <4>1
    <3>11. \A o \in c.options : IsOption(o) BY <3>8, <3>9, <3>10 DEF IsOption
    <3> QED BY <3>2, <3>4, <3>11
  <2>2. CASE ~Starts
    BY <1>1, <2>2 DEF ServerStep, Follows
  <2> QED BY <2>1, <2>2
<1>2. CASE ServerStep /\ ~Happens("bench") BY <1>2 DEF ServerStep
<1>3. CASE BenchStep BY <1>3
<1>4. CASE UNCHANGED programVars BY <1>4 DEF programVars
<1> QED BY <1>1, <1>2, <1>3, <1>4 DEF ProgramNext

-----------------------------------------------------------------------------
(* The routes of a suite, and what is left of a round                      *)

RoutesTaken == {<<>>, <<"direct">>, <<"headroom">>, <<"direct", "headroom">>}
Lefts == RoutesTaken \cup {<<"headroom", "direct">>}

LEMMA RoutesAre == \A route, up : RoutesFor(route, up) \in RoutesTaken
  BY DEF RoutesFor, RoutesTaken

LEMMA LeftOf ==
  ASSUME NEW left \in Lefts
  PROVE  /\ Range(left) \subseteq RouteNames
         /\ left # <<>> => /\ Head(left) \in Range(left) /\ Tail(left) \in Lefts
                           /\ Range(Tail(left)) \subseteq Range(left)
<1>1. <<>> \in Lefts /\ \A r \in RouteNames : <<r>> \in Lefts
  BY DEF Lefts, RoutesTaken, RouteNames
<1>2. CASE left = <<>> BY <1>2 DEF Range
<1>3. ASSUME NEW r \in RouteNames, left = <<r>>
      PROVE  /\ Range(left) = {r} /\ Head(left) = r /\ Tail(left) = <<>> /\ Range(<<>>) = {}
  <2>1. Head(left) = r /\ Len(left) = 1 /\ left[1] = r BY <1>3
  <2>2. Tail(left) = <<>> BY <1>3
  <2> QED BY <2>1, <2>2, <1>3 DEF Range
<1>4. ASSUME NEW r \in RouteNames, NEW q \in RouteNames, left = <<r, q>>
      PROVE  Range(left) = {r, q} /\ Head(left) = r /\ Tail(left) = <<q>> /\ Range(<<q>>) = {q}
  <2>1. Head(left) = r /\ Len(left) = 2 /\ left[1] = r /\ left[2] = q BY <1>4
  <2>2. Tail(left) = <<q>> BY <1>4
  <2>3. DOMAIN left = {1, 2} BY <2>1
  <2>4. DOMAIN <<q>> = {1} /\ <<q>>[1] = q OBVIOUS
  <2> QED BY <2>1, <2>2, <2>3, <2>4 DEF Range
<1>5. CASE \E r \in RouteNames : left = <<r>>
  <2>1. PICK r \in RouteNames : left = <<r>> BY <1>5
  <2>2. Range(left) = {r} /\ Head(left) = r /\ Tail(left) = <<>> /\ Range(<<>>) = {} BY <1>3, <2>1
  <2> QED BY ONLY <1>1, <2>2
<1>6. CASE \E r, q \in RouteNames : left = <<r, q>>
  <2>1. PICK r \in RouteNames, q \in RouteNames : left = <<r, q>> BY <1>6
  <2>2. Range(left) = {r, q} /\ Head(left) = r /\ Tail(left) = <<q>> /\ Range(<<q>>) = {q}
    BY <1>4, <2>1
  <2>3. <<q>> \in Lefts BY <1>1
  <2> QED BY ONLY <2>2, <2>3
<1>7. \/ left = <<>>
      \/ \E r \in RouteNames : left = <<r>>
      \/ \E r, q \in RouteNames : left = <<r, q>>
  BY DEF Lefts, RoutesTaken, RouteNames
<1> QED BY <1>2, <1>5, <1>6, <1>7

LEMMA Ordered ==
  ASSUME NEW routes \in RoutesTaken
  PROVE  Reverse(routes) \in Lefts /\ Range(Reverse(routes)) = Range(routes)
<1>1. CASE routes = <<>>
  <2>1. Reverse(routes) = <<>> BY <1>1 DEF Reverse
  <2> QED BY <1>1, <2>1 DEF Lefts, RoutesTaken
<1>2. ASSUME NEW r, routes = <<r>> PROVE Reverse(routes) = routes
  <2>1. Len(routes) = 1 /\ routes[1] = r BY <1>2
  <2>2. Reverse(routes) = [i \in 1..1 |-> r] BY <2>1 DEF Reverse
  <2> QED BY <1>2, <2>2
<1>3. ASSUME NEW r, NEW q, routes = <<r, q>>
      PROVE  Reverse(routes) = <<q, r>> /\ Range(<<q, r>>) = {r, q} /\ Range(routes) = {r, q}
  <2>1. Len(routes) = 2 /\ routes[1] = r /\ routes[2] = q BY <1>3
  <2>2. Reverse(routes) = [i \in 1..2 |-> IF i = 1 THEN q ELSE r] BY <2>1 DEF Reverse
  <2>3. Reverse(routes) = <<q, r>> BY <2>2
  <2>4. DOMAIN routes = {1, 2} /\ DOMAIN <<q, r>> = {1, 2} BY <2>1
  <2>5. <<q, r>>[1] = q /\ <<q, r>>[2] = r OBVIOUS
  <2> QED BY <2>1, <2>3, <2>4, <2>5 DEF Range
<1> QED BY <1>1, <1>2, <1>3 DEF Lefts, RoutesTaken

-----------------------------------------------------------------------------
(* The types of a benchmark                                                *)

CaseFields == {"route", "scenario", "first", "late", "cost", "began", "limit", "root", "helper"}
IsCase(c) == /\ DOMAIN c = CaseFields
             /\ c.route \in RouteNames /\ c.scenario \in Nat /\ c.first \in BOOLEAN
             /\ c.late \in BOOLEAN /\ c.cost \in Nat

SuiteTyped == /\ DOMAIN live = DOMAIN Off
              /\ live.at \in {"off", "round", "route", "cleared", "case", "over", "failed"}
              /\ live.index \in 0..5
              /\ live.routes \in RoutesTaken
              /\ live.left \in Lefts /\ Range(live.left) \subseteq Range(live.routes)
              /\ live.at = "cleared" => live.left # <<>>
CasesTyped == /\ live.runs \in Seq(RanCase)
              /\ IF live.at = "case" THEN \E c : live.case = {c} /\ IsCase(c) ELSE live.case = {}
CountsTyped == /\ live.cap \in Nat /\ live.total \in Nat /\ live.unaccounted \in Nat
               /\ live.failures \in [RouteNames -> Nat] /\ live.maximum \in Int
BenchTyped == /\ DOMAIN bench = DOMAIN NoBench
              /\ cancelled \in BOOLEAN /\ elapsed \in Nat
              /\ bench.at = "off" \/ \E o : bench.options = {o} /\ IsOption(o)
Typed == SuiteTyped /\ CasesTyped /\ CountsTyped /\ BenchTyped

LEMMA OffTyped == live = Off => SuiteTyped /\ CasesTyped /\ CountsTyped
<1> SUFFICES ASSUME live = Off PROVE SuiteTyped /\ CasesTyped /\ CountsTyped OBVIOUS
<1>1. SuiteTyped BY DEF Off, SuiteTyped, Lefts, RoutesTaken
<1>2. CasesTyped BY DEF Off, CasesTyped
<1>3. CountsTyped BY DEF Off, CountsTyped
<1> QED BY <1>1, <1>2, <1>3

CaseMoves == Forks \/ HelperEnds \/ RootEnds("answered") \/ RootEnds("failed") \/ TimesOut

LEMMA CaseMovesAre ==
  ASSUME CaseMoves
  PROVE  /\ live.case # {} \/ live.at = "case"
         /\ UNCHANGED <<elapsed, cancelled>>
         /\ \E root, helper : \E changed \in {[Case EXCEPT !.root = root], [Case EXCEPT !.helper = helper],
                                              [Case EXCEPT !.root = root, !.helper = helper]} :
               live' = [live EXCEPT !.case = {changed}]
<1>1. CASE Forks BY <1>1 DEF Forks, CaseIs
<1>2. CASE HelperEnds BY <1>2 DEF HelperEnds, CaseIs
<1>3. CASE \E how : RootEnds(how)
  <2>1. PICK how : live.case # {} /\ CaseIs([Case EXCEPT !.root = how]) BY <1>3 DEF RootEnds
  <2> QED BY <2>1 DEF CaseIs
<1>4. CASE TimesOut
  <2> DEFINE out == "timed out"
  <2>1. live.at = "case" /\ \E helper : CaseIs([Case EXCEPT !.root = out, !.helper = helper])
    BY <1>4 DEF TimesOut
  <2> HIDE DEF out
  <2> QED BY <2>1 DEF CaseIs
<1> QED BY <1>1, <1>2, <1>3, <1>4 DEF CaseMoves

\* What every change of the case in hand keeps.
LEMMA CaseOnly ==
  ASSUME Typed, CaseMoves
  PROVE  \E changed : /\ live' = [live EXCEPT !.case = {changed}]
                      /\ live.at = "case" /\ live.case = {Case} /\ IsCase(Case) /\ IsCase(changed)
                      /\ changed.late = Case.late /\ changed.cost = Case.cost /\ changed.route = Case.route
                      /\ changed.scenario = Case.scenario /\ changed.first = Case.first
<1>1. PICK root, helper :
        \E changed \in {[Case EXCEPT !.root = root], [Case EXCEPT !.helper = helper],
                        [Case EXCEPT !.root = root, !.helper = helper]} :
           live' = [live EXCEPT !.case = {changed}]
  BY CaseMovesAre
<1>2. PICK changed \in {[Case EXCEPT !.root = root], [Case EXCEPT !.helper = helper],
                        [Case EXCEPT !.root = root, !.helper = helper]} :
         live' = [live EXCEPT !.case = {changed}]
  BY <1>1
<1>3. live.at = "case" /\ live.case = {Case} /\ IsCase(Case)
  BY CaseMovesAre DEF Typed, CasesTyped, Case
<1> QED BY <1>2, <1>3 DEF IsCase, CaseFields

Early == {"off", "preflight", "cpu", "memory", "filesystem", "sqlite", "process", "loopback", "https", "paid"}
Late == {"integrations", "soak", "report"}

\* The steps that leave the suite alone.
Others == \/ Preflight \/ Cpu \/ Memory \/ Filesystem \/ Sqlite \/ Process \/ Loopback \/ Https
          \/ Integrations \/ Soak \/ Passes \/ Interrupt \/ ScreenFails

LEMMA BenchSteps == BenchStep <=> \/ Others \/ LiveBegins \/ LiveEnds \/ LiveStep
                                  \/ CaseStep
  BY DEF BenchStep, Others

LEMMA OthersKeep ==
  ASSUME BenchTyped, Others
  PROVE  /\ UNCHANGED live /\ cancelled' \in {cancelled, TRUE} /\ elapsed' \in Nat
         /\ bench'.at = "live" => bench.at = "live" /\ elapsed' \in {elapsed, elapsed + Step}
         /\ DOMAIN bench' = DOMAIN bench /\ bench'.options = bench.options
         /\ bench.at = "off" => bench'.at = "off"
         /\ bench'.at \in Early => bench.at \in Early
         /\ bench'.at \in Late => bench.at \in Late /\ bench'.warned = bench.warned
<1>0. DOMAIN bench = {"at", "options", "terminal", "trouble", "warned"} BY DEF BenchTyped, NoBench
<1>1. CASE /\ UNCHANGED <<bench, live>> /\ cancelled' \in {cancelled, TRUE}
           /\ elapsed' \in {elapsed, elapsed + Step}
  <2>1. elapsed' \in Nat BY <1>1, LiveAssumption DEF BenchTyped
  <2> QED BY <1>1, <2>1
<1>2. ASSUME NEW from, NEW to, bench.at = from, GoesTo(to),
             \/ from \in Early \ {"off"} /\ to \in (Early \ {"off"}) \cup {"error", "gone"}
             \/ from \in {"integrations", "soak"} /\ to \in {"soak", "report", "error", "gone"}
             \/ to = "gone" /\ from # "off"
      PROVE  /\ UNCHANGED live /\ cancelled' \in {cancelled, TRUE} /\ elapsed' \in Nat
             /\ bench'.at = "live" => bench.at = "live" /\ elapsed' \in {elapsed, elapsed + Step}
             /\ DOMAIN bench' = DOMAIN bench /\ bench'.options = bench.options
             /\ bench.at = "off" => bench'.at = "off"
             /\ bench'.at \in Early => bench.at \in Early
             /\ bench'.at \in Late => bench.at \in Late /\ bench'.warned = bench.warned
  <2>1. UNCHANGED <<live, cancelled, elapsed>> /\ bench' = [bench EXCEPT !.at = to] BY <1>2 DEF GoesTo
  <2>2. DOMAIN bench' = DOMAIN bench /\ bench'.at = to /\ bench'.options = bench.options
        /\ bench'.warned = bench.warned
    BY <1>0, <2>1
  <2>3. to # "live" BY <1>2 DEF Early
  <2> QED BY <1>2, <2>1, <2>2, <2>3 DEF Early, Late, BenchTyped
<1>3. CASE Preflight BY <1>2, <1>3 DEF Preflight, Early
<1>4. CASE Cpu \/ Memory \/ Filesystem \/ Sqlite \/ Process \/ Loopback
  BY <1>2, <1>4 DEF Cpu, Memory, Filesystem, Sqlite, Process, Loopback, Phase, Early
<1>5. CASE Https
  <2>1. /\ bench.at = "https" /\ UNCHANGED <<live, cancelled, elapsed>>
        /\ \E warned : bench' = [bench EXCEPT !.at = "paid", !.warned = warned]
    BY <1>5 DEF Https
  <2>2. DOMAIN bench' = DOMAIN bench /\ bench'.at = "paid" /\ bench'.options = bench.options
    BY <1>0, <2>1
  <2> QED BY <2>1, <2>2 DEF Early, Late, BenchTyped
<1>6. CASE Integrations BY <1>2, <1>6 DEF Integrations
<1>7. CASE Soak
  <2>1. CASE GoesTo("error") BY <1>2, <1>7, <2>1 DEF Soak
  <2>2. CASE /\ bench' = [bench EXCEPT !.at = "report"] /\ UNCHANGED <<cancelled, live>>
             /\ elapsed' = Limits[Options.preset].minimum
    <3>1. DOMAIN bench' = DOMAIN bench /\ bench'.at = "report" /\ bench'.options = bench.options
          /\ bench'.warned = bench.warned
      BY <1>0, <2>2
    <3>2. elapsed' \in Nat
      <4>1. Options.preset \in Presets BY <1>7 DEF Soak, BenchTyped, Options, IsOption
      <4>2. \A preset \in Presets : Limits[preset].minimum \in Nat BY DEF Presets, Limits
      <4> QED BY <2>2, <4>1, <4>2
    <3> QED BY <1>7, <2>2, <3>1, <3>2 DEF Early, Late, Soak
  <2> QED BY <1>7, <2>1, <2>2 DEF Soak
<1>8. CASE Passes \/ Interrupt BY <1>1, <1>8 DEF Passes, Interrupt
<1>9. CASE ScreenFails BY <1>2, <1>9 DEF ScreenFails, Goes
<1> QED BY <1>3, <1>4, <1>5, <1>6, <1>7, <1>8, <1>9 DEF Others

LEMMA SuiteBegins ==
  ASSUME Typed, LiveBegins
  PROVE  /\ bench.at = "paid" /\ DOMAIN bench' = DOMAIN bench /\ bench'.options = bench.options
         /\ bench'.at \in {"integrations", "error", "live"} /\ UNCHANGED <<elapsed, cancelled>>
         /\ \/ UNCHANGED live /\ bench'.at # "live"
            \/ live' = [Off EXCEPT !.at = "failed", !.cap = Options.cap] /\ bench'.at = "live"
            \/ /\ \E up, minimum : \E maximum \in Int : live' = Suite(Options, up, minimum, maximum)
               /\ bench'.at = "live"
<1>0. DOMAIN bench = {"at", "options", "terminal", "trouble", "warned"} BY DEF Typed, BenchTyped, NoBench
<1>1. ASSUME NEW to, to \in {"integrations", "error"}, GoesTo(to)
      PROVE  /\ DOMAIN bench' = DOMAIN bench /\ bench'.options = bench.options
             /\ bench'.at = to /\ UNCHANGED <<elapsed, cancelled, live>>
  BY <1>0, <1>1 DEF GoesTo
<1>2. CASE /\ bench' = [bench EXCEPT !.at = "live"] /\ UNCHANGED <<elapsed, cancelled>>
           /\ \/ live' = [Off EXCEPT !.at = "failed", !.cap = Options.cap]
              \/ \E up, minimum : \E maximum \in Int : live' = Suite(Options, up, minimum, maximum)
  <2>1. DOMAIN bench' = DOMAIN bench /\ bench'.options = bench.options /\ bench'.at = "live"
    BY <1>0, <1>2
  <2> QED BY <1>2, <2>1 DEF LiveBegins
<1>3. bench.at = "paid" => LiveMaximum \in Int
  <2>1. bench.at = "paid" => Options.preset \in Presets BY DEF Typed, BenchTyped, Options, IsOption
  <2>2. \A preset \in Presets : Limits[preset].limit - 10 \in Int BY DEF Presets, Limits
  <2> QED BY <2>1, <2>2 DEF LiveMaximum, LIVE_PHASE_MARGIN
<1>4. \/ GoesTo("integrations") \/ GoesTo("error")
      \/ /\ bench' = [bench EXCEPT !.at = "live"] /\ UNCHANGED <<elapsed, cancelled>>
         /\ \/ live' = [Off EXCEPT !.at = "failed", !.cap = Options.cap]
            \/ \E up, minimum : \E maximum \in Int : live' = Suite(Options, up, minimum, maximum)
  <2>1. ASSUME NEW found, NEW up,
               live' = IF found THEN Suite(Options, up, LiveMinimum, LiveMaximum)
                       ELSE [Off EXCEPT !.at = "failed", !.cap = Options.cap]
        PROVE  \/ live' = [Off EXCEPT !.at = "failed", !.cap = Options.cap]
               \/ \E u, minimum : \E maximum \in Int : live' = Suite(Options, u, minimum, maximum)
    BY <1>3, <2>1 DEF LiveBegins
  <2> QED BY <2>1 DEF LiveBegins
<1> QED BY <1>1, <1>2, <1>4 DEF LiveBegins

\* A suite begins with nothing run and nothing spent.
LEMMA Beginning ==
  ASSUME Typed, bench.at = "paid",
         \/ live' = [Off EXCEPT !.at = "failed", !.cap = Options.cap]
         \/ \E up, minimum : \E maximum \in Int : live' = Suite(Options, up, minimum, maximum)
  PROVE  /\ SuiteTyped' /\ CasesTyped' /\ CountsTyped'
         /\ live'.at \in {"failed", "round"} /\ live'.cap = Options.cap /\ Options.cap \in Nat
         /\ live'.index = 0 /\ live'.left = <<>> /\ live'.runs = <<>> /\ live'.case = {}
         /\ live'.total = 0 /\ live'.unaccounted = 0 /\ live'.failures = [route \in RouteNames |-> 0]
<1>1. Options.cap \in Nat BY DEF Typed, BenchTyped, Options, IsOption
<1>2. DOMAIN Off = {"at", "cap", "minimum", "maximum", "routes", "index", "left", "runs", "case",
                    "total", "unaccounted", "failures"}
  BY DEF Off
<1>3. /\ Off.index = 0 /\ Off.left = <<>> /\ Off.runs = <<>> /\ Off.case = {} /\ Off.total = 0
      /\ Off.unaccounted = 0 /\ Off.failures = [route \in RouteNames |-> 0] /\ Off.routes = <<>>
      /\ Off.maximum = 0
  BY DEF Off
<1>4. /\ DOMAIN live' = DOMAIN Off /\ live'.at \in {"failed", "round"} /\ live'.cap = Options.cap
      /\ live'.routes \in RoutesTaken /\ live'.index = 0 /\ live'.left = <<>> /\ live'.runs = <<>>
      /\ live'.case = {} /\ live'.total = 0 /\ live'.unaccounted = 0
      /\ live'.failures = [route \in RouteNames |-> 0] /\ live'.maximum \in Int
  <2>1. CASE live' = [Off EXCEPT !.at = "failed", !.cap = Options.cap]
    BY <1>2, <1>3, <2>1 DEF RoutesTaken
  <2>2. CASE \E up, minimum : \E maximum \in Int : live' = Suite(Options, up, minimum, maximum)
    <3>0. PICK up, minimum : \E maximum \in Int : live' = Suite(Options, up, minimum, maximum) BY <2>2
    <3>1. PICK maximum \in Int : live' = Suite(Options, up, minimum, maximum) BY <3>0
    <3>2. PICK routes \in RoutesTaken : routes = RoutesFor(Options.route, up) BY RoutesAre
    <3>3. live' = [Off EXCEPT !.at = IF routes = <<>> THEN "failed" ELSE "round", !.cap = Options.cap,
                              !.minimum = minimum, !.maximum = maximum, !.routes = routes]
      BY <3>1, <3>2 DEF Suite
    <3> QED BY <1>2, <1>3, <3>2, <3>3
  <2> QED BY <2>1, <2>2
<1>5. SuiteTyped'
  <2>1. <<>> \in Lefts /\ Range(<<>>) = {} BY DEF Lefts, RoutesTaken, Range
  <2> QED BY <1>4, <2>1 DEF SuiteTyped
<1>6. CasesTyped'
  <2>1. <<>> \in Seq(RanCase) OBVIOUS
  <2>2. live'.at # "case" BY <1>4
  <2> QED BY <1>4, <2>1, <2>2 DEF CasesTyped
<1>7. CountsTyped' BY <1>1, <1>4 DEF CountsTyped
<1> QED BY <1>1, <1>4, <1>5, <1>6, <1>7

LiveFields == {"at", "cap", "minimum", "maximum", "routes", "index", "left", "runs", "case", "total",
               "unaccounted", "failures"}

\* What the suite counts, and what it has run.
Account == <<live.routes, live.cap, live.maximum, live.runs, live.case, live.total, live.unaccounted, live.failures>>

\* Between the cases: the loop and what is left of a round.
LEMMA Looks ==
  ASSUME Typed, Round \/ TakeRoute \/ CannotBegin
  PROVE  /\ UNCHANGED cancelled /\ UNCHANGED Account
         /\ live.case = {} /\ live'.at # "case" /\ live'.at # "off"
         /\ SuiteTyped' /\ CasesTyped' /\ CountsTyped'
         /\ live'.at = "cleared" => /\ ~cancelled /\ live.total < live.cap
                                    /\ live.failures[Head(live'.left)] < 2
<1>0. DOMAIN live = LiveFields BY DEF Typed, SuiteTyped, Off, LiveFields
<1>1. live.at # "case" /\ live.case = {}
  BY DEF Typed, CasesTyped, Round, TakeRoute, CannotBegin
<1>2. SUFFICES /\ UNCHANGED cancelled /\ UNCHANGED Account /\ live'.at # "case" /\ live'.at # "off"
               /\ SuiteTyped'
               /\ live'.at = "cleared" => /\ ~cancelled /\ live.total < live.cap
                                          /\ live.failures[Head(live'.left)] < 2
  BY <1>1 DEF Typed, CasesTyped, CountsTyped, Account
<1>3. ASSUME NEW at \in {"over", "failed"}, live' = [live EXCEPT !.at = at]
      PROVE  UNCHANGED Account /\ SuiteTyped' /\ live'.at = at
  BY <1>0, <1>3 DEF Account, LiveFields, Typed, SuiteTyped
<1>4. ASSUME NEW left \in Lefts, Range(left) \subseteq Range(live.routes),
             live' = [live EXCEPT !.at = "route", !.left = left] \/ (live.at = "route" /\ live' = [live EXCEPT !.left = left])
      PROVE  UNCHANGED Account /\ SuiteTyped' /\ live'.at = "route"
  BY <1>0, <1>4 DEF Account, LiveFields, Typed, SuiteTyped
<1>5. ASSUME live' = NextRound PROVE UNCHANGED Account /\ SuiteTyped' /\ live'.at = "round"
  <2>1. /\ UNCHANGED Account /\ DOMAIN live' = LiveFields /\ live'.at = "round"
        /\ live'.index = (live.index + 1) % Rounds /\ live'.left = <<>>
    BY <1>0, <1>5 DEF NextRound, Account, LiveFields
  <2>2. (live.index + 1) % 6 \in 0..5 BY DEF Typed, SuiteTyped
  <2>3. Rounds = 6 BY DEF Rounds, Scenarios
  <2>4. <<>> \in Lefts /\ Range(<<>>) = {} BY DEF Lefts, RoutesTaken, Range
  <2> QED BY <1>0, <2>1, <2>2, <2>3, <2>4 DEF Account, Typed, SuiteTyped
<1>6. ASSUME live' = [live EXCEPT !.at = "cleared"], live.left # <<>>
      PROVE  UNCHANGED Account /\ SuiteTyped' /\ live'.at = "cleared" /\ live'.left = live.left
  BY <1>0, <1>6 DEF Account, LiveFields, Typed, SuiteTyped
<1>7. CASE Round
  <2>1. Order(live.index) \in Lefts /\ Range(Order(live.index)) \subseteq Range(live.routes)
    BY Ordered DEF Order, Typed, SuiteTyped, Lefts
  <2> QED BY <1>3, <1>4, <1>7, <2>1 DEF Round
<1>8. CASE TakeRoute
  <2>1. CASE live.left = <<>> BY <1>5, <1>8, <2>1 DEF TakeRoute
  <2>2. CASE live.left # <<>> /\ cancelled BY <1>3, <1>8, <2>2 DEF TakeRoute
  <2>3. CASE live.left # <<>> /\ ~cancelled
    <3>1. /\ Tail(live.left) \in Lefts /\ Range(Tail(live.left)) \subseteq Range(live.routes)
          /\ Head(live.left) \in RouteNames
      BY <2>3, LeftOf DEF Typed, SuiteTyped
    <3>2. CASE Disabled(Head(live.left))
      BY <1>4, <1>8, <2>3, <3>1, <3>2 DEF TakeRoute
    <3>3. CASE ~Disabled(Head(live.left)) /\ (Remaining < Margin \/ live.total >= live.cap)
      BY <1>5, <1>8, <2>3, <3>3 DEF TakeRoute
    <3>4. CASE ~Disabled(Head(live.left)) /\ ~(Remaining < Margin \/ live.total >= live.cap)
      <4>1. live' = [live EXCEPT !.at = "cleared"] BY <1>8, <2>3, <3>4 DEF TakeRoute
      <4>2. live.total < live.cap /\ live.failures[Head(live.left)] < 2
        BY <3>1, <3>4 DEF Disabled, Typed, CountsTyped
      <4> QED BY <1>6, <1>8, <2>3, <4>1, <4>2 DEF TakeRoute
    <3> QED BY <3>2, <3>3, <3>4
  <2> QED BY <2>1, <2>2, <2>3 DEF Typed, BenchTyped
<1>9. CASE CannotBegin BY <1>3, <1>9 DEF CannotBegin
<1> QED BY <1>7, <1>8, <1>9

\* A case goes out within what is left of the budget.
LEMMA GoesOut ==
  ASSUME Typed, CaseBegins
  PROVE  /\ live.at = "cleared" /\ live'.at = "case" /\ live.case = {} /\ UNCHANGED cancelled
         /\ UNCHANGED <<live.routes, live.cap, live.maximum, live.runs, live.total, live.unaccounted, live.failures>>
         /\ SuiteTyped' /\ CasesTyped' /\ CountsTyped'
         /\ \E c : /\ live'.case = {c} /\ IsCase(c)
                   /\ c.late = cancelled /\ c.cost <= Budget /\ c.route = Head(live.left)
                   /\ c.scenario = (live.index % Len(Scenarios)) + 1
                   /\ c.first = (Len(live.left) = Len(live.routes))
<1>0. DOMAIN live = LiveFields BY DEF Typed, SuiteTyped, Off, LiveFields
<1>1. PICK cost \in {c \in Costs : c <= Budget} :
          live' = [live EXCEPT !.at = "case", !.left = Tail(@),
                       !.case = {[route |-> Head(live.left), scenario |-> (live.index % Len(Scenarios)) + 1,
                                  first |-> Len(live.left) = Len(live.routes), late |-> cancelled,
                                  cost |-> cost, began |-> elapsed,
                                  limit |-> Least(Remaining, CaseLimit), root |-> "runs",
                                  helper |-> "none"]}]
  BY DEF CaseBegins
<1> DEFINE c == [route |-> Head(live.left), scenario |-> (live.index % Len(Scenarios)) + 1,
                 first |-> Len(live.left) = Len(live.routes), late |-> cancelled,
                 cost |-> cost, began |-> elapsed, limit |-> Least(Remaining, CaseLimit),
                 root |-> "runs", helper |-> "none"]
<1>2. live' = [live EXCEPT !.at = "case", !.left = Tail(@), !.case = {c}] BY <1>1
<1>3. /\ c.late = cancelled /\ c.cost = cost /\ c.route = Head(live.left) /\ DOMAIN c = CaseFields
      /\ c.scenario = (live.index % Len(Scenarios)) + 1 /\ c.first = (Len(live.left) = Len(live.routes))
  BY DEF CaseFields
<1> HIDE DEF c
<1>4. /\ live'.at = "case" /\ live'.left = Tail(live.left) /\ live'.case = {c}
      /\ DOMAIN live' = LiveFields /\ live'.index = live.index
      /\ UNCHANGED <<live.routes, live.cap, live.maximum, live.runs, live.total, live.unaccounted, live.failures>>
  BY <1>0, <1>2 DEF LiveFields
<1>5. live.at = "cleared" /\ live.case = {} /\ UNCHANGED cancelled /\ live.left # <<>>
  BY DEF CaseBegins, Typed, CasesTyped, SuiteTyped
<1>6. /\ Head(live.left) \in RouteNames /\ Tail(live.left) \in Lefts
      /\ Range(Tail(live.left)) \subseteq Range(live.routes)
  BY <1>5, LeftOf DEF Typed, SuiteTyped
<1>7. IsCase(c)
  <2>1. c.scenario \in Nat
    <3>1. Len(Scenarios) = 3 /\ live.index \in Nat BY DEF Scenarios, Typed, SuiteTyped
    <3>2. (live.index % 3) + 1 \in Nat BY <3>1
    <3> QED BY <1>3, <3>1, <3>2
  <2>2. c.cost \in Nat BY <1>1, <1>3, LiveAssumption
  <2>3. c.first \in BOOLEAN /\ c.late \in BOOLEAN BY <1>3 DEF Typed, BenchTyped
  <2> QED BY <1>3, <1>6, <2>1, <2>2, <2>3 DEF IsCase
<1>8. SuiteTyped' BY <1>0, <1>4, <1>6 DEF Typed, SuiteTyped
<1>9. CasesTyped' BY <1>4, <1>7 DEF Typed, CasesTyped, IsCase
<1>10. CountsTyped' BY <1>4 DEF Typed, CountsTyped
<1>11. c.cost <= Budget BY <1>1, <1>3
<1> QED BY <1>3, <1>4, <1>5, <1>7, <1>8, <1>9, <1>10, <1>11

\* A case that comes back is kept and counted.
LEMMA ComesBack ==
  ASSUME Typed, Collected
  PROVE  /\ live.at = "case" /\ live'.at = "route" /\ live.case = {Case} /\ live'.case = {}
         /\ UNCHANGED <<cancelled, live.routes, live.cap, live.maximum, live.left, live.index>>
         /\ SuiteTyped' /\ CasesTyped' /\ CountsTyped'
         /\ IsCase(Case)
         /\ \E ran \in RanCase :
               /\ ran.late = Case.late /\ ran.cost = Case.cost /\ ran.route = Case.route
               /\ ran.scenario = Case.scenario /\ ran.first = Case.first
               /\ ran.said \/ ~ran.ok
               /\ live'.runs = Append(live.runs, ran)
               /\ live'.total = (IF ran.said THEN live.total + ran.cost ELSE live.total)
               /\ live'.unaccounted = (IF ran.said THEN live.unaccounted ELSE live.unaccounted + 1)
               /\ live'.failures = [live.failures EXCEPT ![ran.route] = IF ran.ok THEN @ ELSE @ + 1]
<1>0. DOMAIN live = LiveFields BY DEF Typed, SuiteTyped, Off, LiveFields
<1>1. live.at = "case" /\ live.case = {Case} /\ IsCase(Case)
  BY DEF Collected, Typed, CasesTyped, Case
<1>2. PICK said \in {TRUE, Case.root = "answered"} : live' = With(Ran(said)) BY DEF Collected
<1> DEFINE ran == Ran(said)
<1>3. /\ ran.late = Case.late /\ ran.cost = Case.cost /\ ran.route = Case.route
      /\ ran.scenario = Case.scenario /\ ran.first = Case.first
      /\ ran.said = said /\ ran.ok = (Case.root = "answered")
  BY DEF Ran
<1>4. ran \in RanCase
  <2>1. said \in BOOLEAN BY <1>2
  <2> QED BY <1>1, <2>1 DEF Ran, RanCase, IsCase
<1>5. live' = With(ran) BY <1>2
<1> HIDE DEF ran
<1>6. /\ DOMAIN live' = LiveFields /\ live'.at = "route" /\ live'.case = {}
      /\ live'.runs = Append(live.runs, ran)
      /\ live'.total = (IF ran.said THEN live.total + ran.cost ELSE live.total)
      /\ live'.unaccounted = (IF ran.said THEN live.unaccounted ELSE live.unaccounted + 1)
      /\ live'.failures = [live.failures EXCEPT ![ran.route] = IF ran.ok THEN @ ELSE @ + 1]
      /\ UNCHANGED <<live.routes, live.cap, live.maximum, live.left, live.index>>
  BY <1>0, <1>5 DEF LiveFields, With
<1>7. ran.said \/ ~ran.ok BY <1>2, <1>3
<1>8. SuiteTyped' BY <1>0, <1>6 DEF Typed, SuiteTyped
<1>9. CasesTyped'
  <2>1. live'.runs \in Seq(RanCase) BY <1>4, <1>6, AppendProperties DEF Typed, CasesTyped
  <2> QED BY <1>6, <2>1 DEF CasesTyped
<1>10. CountsTyped'
  <2>1. ran.cost \in Nat /\ ran.route \in RouteNames BY <1>4 DEF RanCase
  <2>2. live'.total \in Nat /\ live'.unaccounted \in Nat /\ live'.cap \in Nat
    BY <1>6, <2>1 DEF Typed, CountsTyped
  <2>3. live'.failures \in [RouteNames -> Nat] BY <1>6, <2>1 DEF Typed, CountsTyped
  <2> QED BY <1>6, <2>2, <2>3 DEF Typed, CountsTyped
<1>11. UNCHANGED cancelled BY DEF Collected
<1> QED BY <1>1, <1>3, <1>4, <1>6, <1>7, <1>8, <1>9, <1>10, <1>11

-----------------------------------------------------------------------------
(* What a step of the program does to a benchmark                          *)

Restarts == live' = Off /\ cancelled' = FALSE /\ bench'.at = "preflight"
Elsewhere == /\ UNCHANGED live /\ cancelled' \in {cancelled, TRUE}
             /\ bench'.at = "live" => bench.at = "live" /\ elapsed' \in {elapsed, elapsed + Step}
             /\ bench'.at \in Early => bench.at \in Early
             /\ bench'.at \in Late => \/ bench.at \in Late /\ bench'.warned = bench.warned
                                      \/ bench.at = "paid"
Opens == /\ bench.at = "paid" /\ bench'.at = "live" /\ UNCHANGED <<elapsed, cancelled>>
         /\ \/ live' = [Off EXCEPT !.at = "failed", !.cap = Options.cap]
            \/ \E up, minimum : \E maximum \in Int : live' = Suite(Options, up, minimum, maximum)
InSuite(A) == A /\ bench.at = "live" /\ UNCHANGED <<elapsed, bench>>
Closes == /\ bench.at = "live" /\ live.at \in {"over", "failed"} /\ UNCHANGED <<live, cancelled>>
          /\ \/ bench'.at = "error"
             \/ /\ bench'.at = "integrations"
                /\ bench'.warned = bench.warned \cup (IF live.at = "over" THEN Warnings ELSE {"live"})

Course == \/ Restarts \/ Elsewhere \/ Opens \/ Closes
          \/ InSuite(Round \/ TakeRoute \/ CannotBegin) \/ InSuite(CaseBegins) \/ InSuite(Collected)
          \/ CaseMoves /\ UNCHANGED <<elapsed, bench>>

LEMMA Courses ==
  ASSUME Typed, SlotInv', [ProgramNext]_programVars
  PROVE  Course /\ BenchTyped'
<1>0. DOMAIN bench = {"at", "options", "terminal", "trouble", "warned"} /\ cancelled \in BOOLEAN
  BY DEF Typed, BenchTyped, NoBench
<1>1. CASE \E o, terminal, trouble : IsOption(o) /\ Begins(o, terminal, trouble)
  <2>1. PICK o, terminal, trouble : IsOption(o) /\ Begins(o, terminal, trouble) BY <1>1
  <2>2. /\ bench'.at = "preflight" /\ DOMAIN bench' = DOMAIN NoBench /\ bench'.options = {o}
    BY <2>1 DEF Begins, Begun, NoBench
  <2>3. live' = Off /\ cancelled' = FALSE /\ elapsed' = 0 BY <2>1 DEF Begins
  <2>4. BenchTyped' BY <2>1, <2>2, <2>3 DEF BenchTyped, IsOption
  <2> QED BY <2>2, <2>3, <2>4 DEF Course, Restarts
<1>2. ASSUME NEW at, GoesTo(at), at \in {"gone", "error"} \/ (at = "integrations" /\ bench.at = "paid"),
             bench.at # "off"
      PROVE  Elsewhere /\ BenchTyped'
  <2>1. DOMAIN bench' = DOMAIN bench /\ bench'.at = at /\ bench'.options = bench.options
        /\ UNCHANGED <<live, cancelled, elapsed>>
    BY <1>0, <1>2 DEF GoesTo
  <2> QED BY <1>2, <2>1 DEF Elsewhere, Early, Late, Typed, BenchTyped, IsOption
<1>3. CASE UNCHANGED benchVars
  BY <1>3 DEF Course, Elsewhere, benchVars, Typed, BenchTyped, IsOption
<1>4. CASE Killed BY <1>2, <1>3, <1>4 DEF Killed, Goes, Course
<1>5. CASE Others
  <2>1. BenchTyped' BY <1>5, OthersKeep, <1>0 DEF Typed, BenchTyped, IsOption
  <2>2. Elsewhere BY <1>5, OthersKeep DEF Elsewhere, Typed
  <2> QED BY <2>1, <2>2 DEF Course
<1>6. CASE LiveBegins
  <2>1. BenchTyped' BY <1>0, <1>6, SuiteBegins DEF Typed, BenchTyped, IsOption
  <2>2. Opens \/ Elsewhere BY <1>6, SuiteBegins DEF Opens, Elsewhere, Early
  <2> QED BY <2>1, <2>2 DEF Course
<1>7. CASE LiveEnds
  <2>1. CASE GoesTo("error")
    <3>1. /\ DOMAIN bench' = DOMAIN bench /\ bench'.at = "error" /\ bench'.options = bench.options
          /\ UNCHANGED <<live, cancelled, elapsed>>
      BY <1>0, <2>1 DEF GoesTo
    <3>2. Closes BY <1>7, <3>1 DEF LiveEnds, Closes
    <3> QED BY <1>7, <3>1, <3>2 DEF LiveEnds, Typed, BenchTyped, IsOption, Course
  <2>2. CASE /\ bench' = [bench EXCEPT !.at = "integrations",
                              !.warned = @ \cup (IF live.at = "over" THEN Warnings ELSE {"live"})]
             /\ UNCHANGED <<elapsed, cancelled, live>>
    <3>1. /\ DOMAIN bench' = DOMAIN bench /\ bench'.at = "integrations" /\ bench'.options = bench.options
          /\ bench'.warned = bench.warned \cup (IF live.at = "over" THEN Warnings ELSE {"live"})
      BY <1>0, <2>2
    <3>2. Closes BY <1>7, <2>2, <3>1 DEF LiveEnds, Closes
    <3> QED BY <1>7, <2>2, <3>1, <3>2 DEF LiveEnds, Typed, BenchTyped, IsOption, Course
  <2> QED BY <1>7, <2>1, <2>2 DEF LiveEnds
<1>8. CASE LiveStep
  <2>1. bench.at = "live" /\ UNCHANGED bench BY <1>8 DEF LiveStep
  <2>2. Round \/ TakeRoute \/ CannotBegin \/ CaseBegins \/ Collected \/ TimesOut BY <1>8 DEF LiveStep
  <2>3. UNCHANGED <<elapsed, cancelled>> BY <2>2 DEF Round, TakeRoute, CannotBegin, CaseBegins, Collected, TimesOut, CaseIs
  <2>4. BenchTyped' BY <2>1, <2>3 DEF Typed, BenchTyped, IsOption
  <2> QED BY <2>1, <2>2, <2>3, <2>4 DEF Course, InSuite, CaseMoves
<1>9. CASE CaseStep
  <2>1. CaseMoves /\ UNCHANGED bench BY <1>9 DEF CaseStep, CaseMoves
  <2>2. UNCHANGED <<elapsed, cancelled>> BY <2>1, CaseMovesAre
  <2>3. BenchTyped' BY <2>1, <2>2 DEF Typed, BenchTyped, IsOption
  <2> QED BY <2>1, <2>2, <2>3 DEF Course
<1>10. CASE BenchStep BY <1>5, <1>6, <1>7, <1>8, <1>9, <1>10, BenchSteps
<1> QED BY <1>1, <1>3, <1>4, <1>10, ProgramMoves

LEMMA TypedSteps == Typed /\ SlotInv' /\ [ProgramNext]_programVars => Typed'
<1> SUFFICES ASSUME Typed, SlotInv', [ProgramNext]_programVars PROVE Typed' OBVIOUS
<1>1. Course /\ BenchTyped' BY Courses
<1>2. SUFFICES SuiteTyped' /\ CasesTyped' /\ CountsTyped' BY <1>1 DEF Typed
<1>3. CASE Restarts
  <2>1. (live = Off)' BY <1>3 DEF Restarts, Off
  <2> QED BY <2>1, OffTyped, PTL
<1>4. CASE UNCHANGED live BY <1>4 DEF Typed, SuiteTyped, CasesTyped, CountsTyped
<1>5. CASE Opens BY <1>5, Beginning DEF Opens
<1>6. CASE InSuite(Round \/ TakeRoute \/ CannotBegin) BY <1>6, Looks DEF InSuite
<1>7. CASE InSuite(CaseBegins) BY <1>7, GoesOut DEF InSuite
<1>8. CASE InSuite(Collected) BY <1>8, ComesBack DEF InSuite
<1>9. CASE CaseMoves
  <2>0. DOMAIN live = LiveFields BY DEF Typed, SuiteTyped, Off, LiveFields
  <2>2. \E changed : /\ live' = [live EXCEPT !.case = {changed}]
                     /\ live.at = "case" /\ live.case = {Case} /\ IsCase(Case) /\ IsCase(changed)
                     /\ changed.late = Case.late /\ changed.cost = Case.cost /\ changed.route = Case.route
                     /\ changed.scenario = Case.scenario /\ changed.first = Case.first
    BY <1>9, CaseOnly
  <2>3. PICK changed : /\ live' = [live EXCEPT !.case = {changed}]
                       /\ live.at = "case" /\ IsCase(changed)
    BY <2>2
  <2>4. /\ DOMAIN live' = LiveFields /\ live'.at = "case" /\ live'.case = {changed}
        /\ UNCHANGED <<live.index, live.routes, live.left, live.runs, live.cap, live.maximum,
                       live.total, live.unaccounted, live.failures>>
    BY <2>0, <2>3 DEF LiveFields
  <2>5. SuiteTyped' BY <2>0, <2>3, <2>4 DEF Typed, SuiteTyped
  <2>6. CasesTyped' BY <2>3, <2>4 DEF Typed, CasesTyped, IsCase
  <2>7. CountsTyped' BY <2>4 DEF Typed, CountsTyped
  <2> QED BY <2>5, <2>6, <2>7
<1> QED BY <1>1, <1>3, <1>4, <1>5, <1>6, <1>7, <1>8, <1>9 DEF Course, Elsewhere, Closes

LEMMA ProgramTypes == ProgramSpec => [](Typed /\ SlotInv)
<1>1. ProgramInit => Typed
  <2> SUFFICES ASSUME ProgramInit PROVE Typed OBVIOUS
  <2>1. live = Off /\ elapsed = 0 BY DEF ProgramInit, BenchInit
  <2>2. BenchTyped
    <3>1. CASE BenchInit BY <3>1 DEF BenchInit, BenchTyped, NoBench
    <3>2. CASE cancelled = FALSE /\ \E o \in S.commands : bench = Begun(o, TRUE, S.happens)
      <4>1. PICK o \in S.commands : bench = Begun(o, TRUE, S.happens) BY <3>2
      <4>2. DOMAIN bench = DOMAIN NoBench /\ bench.options = {o} BY <4>1 DEF Begun, NoBench
      <4>3. IsOption(o) BY ProgramAssumption DEF ProgramInit, Init, S, IsOption
      <4> QED BY <2>1, <3>2, <4>2, <4>3 DEF BenchTyped
    <3> QED BY <3>1, <3>2 DEF ProgramInit
  <2> QED BY <2>1, <2>2, OffTyped DEF Typed
<1>2. ProgramSpec => []SlotInv BY ProgramServes, SlotIsRight, PTL
<1> QED BY <1>1, <1>2, TypedSteps, PTL DEF ProgramSpec

-----------------------------------------------------------------------------
(* A benchmark that is told to stop                                        *)

LateRuns == {i \in DOMAIN live.runs : live.runs[i].late}
LateCases == {c \in live.case : c.late}

\* A case can only have begun too late by being let through before, and none is let through after.
Stopping == /\ ~cancelled \/ live.at = "cleared" => LateRuns = {} /\ LateCases = {}
            /\ \A i, j \in LateRuns : i = j
            /\ LateRuns = {} \/ LateCases = {}

LEMMA StoppingSteps == Typed /\ Stopping /\ Course => Stopping'
<1> SUFFICES ASSUME Typed, Stopping, Course PROVE Stopping' OBVIOUS
<1> USE DEF LateRuns, LateCases
<1>1. CASE Restarts \/ Opens
  <2>1. live'.runs = <<>> /\ live'.case = {}
    <3>1. CASE Restarts BY <3>1 DEF Restarts, Off
    <3>2. CASE Opens BY <3>2, Beginning DEF Opens
    <3> QED BY <1>1, <3>1, <3>2
  <2>2. LateRuns' = {} /\ LateCases' = {} BY <2>1
  <2> QED BY <2>2 DEF Stopping
<1>2. CASE UNCHANGED live /\ cancelled' \in {cancelled, TRUE} BY <1>2 DEF Stopping, Typed, BenchTyped
<1>3. CASE InSuite(Round \/ TakeRoute \/ CannotBegin)
  <2>1. /\ UNCHANGED <<cancelled, live.runs, live.case>>
        /\ live'.at = "cleared" => ~cancelled
    BY <1>3, Looks DEF InSuite, Account
  <2>2. LateRuns' = LateRuns /\ LateCases' = LateCases BY <2>1
  <2> QED BY <2>1, <2>2 DEF Stopping
<1>4. CASE InSuite(CaseBegins)
  <2>1. PICK c : live'.case = {c} /\ c.late = cancelled BY <1>4, GoesOut DEF InSuite
  <2>2. live.at = "cleared" /\ live'.at = "case" /\ UNCHANGED <<cancelled, live.runs>>
    BY <1>4, GoesOut DEF InSuite
  <2>3. LateRuns' = {} BY <2>2 DEF Stopping
  <2>4. ~cancelled => LateCases' = {} BY <2>1
  <2> QED BY <2>2, <2>3, <2>4 DEF Stopping
<1>5. CASE InSuite(Collected)
  <2>1. /\ live'.at = "route" /\ live.case = {Case} /\ live'.case = {} /\ UNCHANGED cancelled
        /\ \E ran \in RanCase : ran.late = Case.late /\ live'.runs = Append(live.runs, ran)
    BY <1>5, ComesBack DEF InSuite
  <2>2. PICK ran \in RanCase : ran.late = Case.late /\ live'.runs = Append(live.runs, ran) BY <2>1
  <2>3. live.runs \in Seq(RanCase) BY DEF Typed, CasesTyped
  <2>4. /\ Len(live.runs) \in Nat /\ DOMAIN live.runs = 1..Len(live.runs)
        /\ DOMAIN live'.runs = 1..Len(live.runs) + 1
        /\ live'.runs[Len(live.runs) + 1] = ran
        /\ \A i \in 1..Len(live.runs) : live'.runs[i] = live.runs[i]
    BY <2>2, <2>3, LenProperties, AppendProperties
  <2>5. LateRuns' = LateRuns \cup (IF Case.late THEN {Len(live.runs) + 1} ELSE {})
    <3>1. \A i : i \in 1..Len(live.runs) + 1 <=> i \in 1..Len(live.runs) \/ i = Len(live.runs) + 1
      BY <2>4
    <3> QED BY <2>2, <2>4, <3>1
  <2>6. LateCases = {} <=> ~Case.late BY <2>1
  <2>7. LateCases' = {} BY <2>1
  <2> QED BY <2>1, <2>5, <2>6, <2>7 DEF Stopping
<1>6. CASE CaseMoves
  <2>1. PICK changed : /\ live' = [live EXCEPT !.case = {changed}]
                       /\ live.case = {Case} /\ changed.late = Case.late
    BY <1>6, CaseOnly
  <2>2. UNCHANGED <<live.at, live.runs>> /\ live'.case = {changed}
    BY <2>1 DEF Typed, SuiteTyped, Off
  <2>3. LateRuns' = LateRuns /\ (LateCases' = {} <=> LateCases = {}) BY <2>1, <2>2
  <2>4. UNCHANGED cancelled BY <1>6, CaseMovesAre
  <2> QED BY <2>2, <2>3, <2>4 DEF Stopping
<1> QED BY <1>1, <1>2, <1>3, <1>4, <1>5, <1>6 DEF Course, Elsewhere, Closes, Typed, BenchTyped

\* Whatever a benchmark may spend and however long its cases take, once it is told to stop at most
\* one case is begun.
THEOREM StopsSpending == ProgramSpec => []CancelStopsSpending
<1>1. ProgramInit => Stopping
  <2> SUFFICES ASSUME ProgramInit PROVE Stopping OBVIOUS
  <2>1. live = Off BY DEF ProgramInit, BenchInit
  <2>2. live.runs = <<>> /\ live.case = {} BY <2>1 DEF Off
  <2>3. LateRuns = {} /\ LateCases = {} BY <2>2 DEF LateRuns, LateCases
  <2> QED BY <2>3 DEF Stopping
<1>2. Typed /\ Stopping => CancelStopsSpending
  <2> SUFFICES ASSUME Typed, Stopping PROVE CancelStopsSpending OBVIOUS
  <2>1. LateRuns = {} \/ \E i : LateRuns = {i} BY DEF Stopping
  <2>2. LateCases = {} \/ \E c : LateCases = {c} BY DEF Typed, CasesTyped, LateCases
  <2>3. /\ Cardinality(LateRuns) = IF LateRuns = {} THEN 0 ELSE 1
        /\ Cardinality(LateCases) = IF LateCases = {} THEN 0 ELSE 1
    BY <2>1, <2>2, FS_EmptySet, FS_Singleton
  <2>4. Cardinality(LateRuns) + Cardinality(LateCases) <= 1 BY <2>3 DEF Stopping
  <2> QED BY <2>4 DEF CancelStopsSpending, LateRuns, LateCases
<1>3. Typed /\ SlotInv' /\ Stopping /\ [ProgramNext]_programVars => Stopping'
  BY Courses, StoppingSteps
<1> QED BY <1>1, <1>2, <1>3, ProgramTypes, PTL DEF ProgramSpec

-----------------------------------------------------------------------------
(* What a benchmark spends                                                 *)

Dearest == Most(live.cap, MinBudget)

\* What is known of stays within the cap and a least budget, the case in hand included.
Capped == /\ live.total <= live.cap + MinBudget
          /\ live.at = "cleared" => live.total < live.cap /\ live.failures[Head(live.left)] < 2
          /\ \A c \in live.case : /\ live.total + c.cost <= live.cap + MinBudget /\ c.cost <= Dearest
                                  /\ live.failures[c.route] < 2 /\ c.route \in Range(live.routes)

\* What is not known of is no more than the failures that were allowed.
Tallied == /\ \A route \in RouteNames :
                 live.failures[route] <= IF route \in Range(live.routes) THEN 2 ELSE 0
           /\ live.unaccounted <= live.failures["direct"] + live.failures["headroom"]
           /\ PaidFor(live.runs) <= live.total + live.unaccounted * Dearest

\* The report is told once the suite is over.
Reported == /\ bench.at \in Early => live = Off
            /\ bench.at \in Late /\ live.routes # <<>> =>
                  /\ live.case = {}
                  /\ live.unaccounted > 0 => bench.warned \cap {"unaccounted", "live"} # {}

LEMMA Times ==
  ASSUME NEW a \in Nat, NEW b \in Nat, NEW x \in Nat
  PROVE  /\ (a + 1) * x = a * x + x /\ a * x \in Nat
         /\ a <= b => a * x <= b * x
         /\ a * x > 0 => a > 0
<1>1. (a + 1) * x = a * x + x /\ a * x \in Nat OBVIOUS
<1>2. ASSUME a <= b PROVE a * x <= b * x
  <2>1. PICK d \in Nat : b = a + d
    <3>1. b - a \in Nat /\ b = a + (b - a) BY <1>2
    <3> QED BY <3>1
  <2>2. b * x = a * x + d * x /\ d * x \in Nat BY <2>1
  <2> QED BY <1>1, <2>2
<1>3. a = 0 => a * x = 0 OBVIOUS
<1> QED BY <1>1, <1>2, <1>3

LEMMA PaidTyped == Typed => PaidFor(live.runs) \in Nat
<1> SUFFICES ASSUME Typed PROVE PaidFor(live.runs) \in Nat OBVIOUS
<1>1. live.runs \in Seq(RanCase) BY DEF Typed, CasesTyped
<1>2. [route |-> "direct", scenario |-> 0, first |-> TRUE, late |-> FALSE, cost |-> 0, said |-> TRUE,
       ok |-> TRUE] \in RanCase
  BY DEF RanCase, RouteNames
<1> QED BY <1>1, <1>2, PaidAppend

\* The suite as it begins, and none at all.
Fresh == /\ live.at # "cleared" /\ live.runs = <<>> /\ live.case = {} /\ live.total = 0
         /\ live.unaccounted = 0 /\ live.failures = [route \in RouteNames |-> 0]

LEMMA NothingSpent == Typed /\ Fresh => Capped /\ Tallied
<1> SUFFICES ASSUME Typed, Fresh PROVE Capped /\ Tallied OBVIOUS
<1>1. live.cap \in Nat BY DEF Typed, CountsTyped
<1>2. Dearest \in Nat BY <1>1, LiveAssumption DEF Dearest, Most
<1>3. 0 * Dearest = 0 BY <1>2
<1>4. live.failures["direct"] = 0 /\ live.failures["headroom"] = 0 BY DEF RouteNames, Fresh
<1>5. Capped BY <1>1, LiveAssumption DEF Capped, Fresh
<1>6. \A route \in RouteNames : live.failures[route] = 0 BY DEF Fresh
<1>7. Tallied BY <1>3, <1>4, <1>6, PaidEmpty DEF Tallied, Fresh
<1> QED BY <1>5, <1>7

LEMMA GoesOutWithin ==
  ASSUME Typed, Capped, Tallied, CaseBegins
  PROVE  Capped' /\ Tallied'
<1>1. /\ live.at = "cleared" /\ live'.at = "case"
      /\ UNCHANGED <<live.routes, live.cap, live.runs, live.total, live.unaccounted, live.failures>>
  BY GoesOut
<1>2. PICK c : live'.case = {c} /\ IsCase(c) /\ c.cost <= Budget /\ c.route = Head(live.left)
  BY GoesOut
<1>3. live.cap \in Nat /\ live.total \in Nat /\ MinBudget \in Nat /\ c.cost \in Nat
  BY <1>2, LiveAssumption DEF Typed, CountsTyped, IsCase
<1>4. live.total < live.cap /\ live.failures[Head(live.left)] < 2 BY <1>1 DEF Capped
<1>5. c.cost <= (IF live.cap - live.total < MinBudget THEN MinBudget ELSE live.cap - live.total)
  BY <1>2 DEF Budget, Most
<1>6. live.total + c.cost <= live.cap + MinBudget BY ONLY <1>3, <1>4, <1>5
<1>7. Dearest = IF live.cap < MinBudget THEN MinBudget ELSE live.cap BY DEF Dearest, Most
<1>8. c.cost <= Dearest BY ONLY <1>3, <1>5, <1>7
<1>9. c.route \in Range(live.routes) BY <1>1, <1>2, LeftOf DEF Typed, SuiteTyped
<1>10. UNCHANGED Dearest BY <1>1 DEF Dearest
<1>11. Capped' BY <1>1, <1>2, <1>4, <1>6, <1>8, <1>9, <1>10 DEF Capped
<1>12. Tallied' BY <1>1, <1>10 DEF Tallied
<1> QED BY <1>11, <1>12

LEMMA ComesBackCounted ==
  ASSUME Typed, Capped, Tallied, Collected
  PROVE  Capped' /\ Tallied'
<1>1. /\ live'.at = "route" /\ live.case = {Case} /\ live'.case = {} /\ IsCase(Case)
      /\ UNCHANGED <<live.routes, live.cap>>
  BY ComesBack
<1>2. PICK ran \in RanCase :
        /\ ran.cost = Case.cost /\ ran.route = Case.route /\ (ran.said \/ ~ran.ok)
        /\ live'.runs = Append(live.runs, ran)
        /\ live'.total = (IF ran.said THEN live.total + ran.cost ELSE live.total)
        /\ live'.unaccounted = (IF ran.said THEN live.unaccounted ELSE live.unaccounted + 1)
        /\ live'.failures = [live.failures EXCEPT ![ran.route] = IF ran.ok THEN @ ELSE @ + 1]
  BY ComesBack
<1>3. /\ live.cap \in Nat /\ live.total \in Nat /\ MinBudget \in Nat /\ ran.cost \in Nat
      /\ live.unaccounted \in Nat /\ ran.route \in RouteNames /\ live.failures \in [RouteNames -> Nat]
  BY LiveAssumption DEF Typed, CountsTyped, RanCase
<1>4. /\ live.total + ran.cost <= live.cap + MinBudget /\ ran.cost <= Dearest
      /\ live.failures[ran.route] < 2 /\ ran.route \in Range(live.routes)
      /\ live.total <= live.cap + MinBudget
  BY <1>1, <1>2 DEF Capped
<1>5. UNCHANGED Dearest /\ Dearest \in Nat BY <1>1, <1>3 DEF Dearest, Most
<1>6. Capped' BY <1>1, <1>2, <1>3, <1>4 DEF Capped
<1>7. \A route \in RouteNames :
         live'.failures[route] = IF route = ran.route /\ ~ran.ok THEN live.failures[route] + 1
                                 ELSE live.failures[route]
  BY <1>2, <1>3
<1>8. \A route \in RouteNames :
         live'.failures[route] <= IF route \in Range(live'.routes) THEN 2 ELSE 0
  BY <1>1, <1>3, <1>4, <1>7 DEF Tallied
<1>9. live'.unaccounted <= live'.failures["direct"] + live'.failures["headroom"]
  <2>1. live.failures["direct"] \in Nat /\ live.failures["headroom"] \in Nat BY <1>3 DEF RouteNames
  <2>2. live.unaccounted <= live.failures["direct"] + live.failures["headroom"] BY DEF Tallied
  <2>3. ran.route = "direct" \/ ran.route = "headroom" BY <1>3 DEF RouteNames
  <2>4. /\ live'.failures["direct"] = IF "direct" = ran.route /\ ~ran.ok THEN live.failures["direct"] + 1
                                      ELSE live.failures["direct"]
        /\ live'.failures["headroom"] = IF "headroom" = ran.route /\ ~ran.ok
                                        THEN live.failures["headroom"] + 1 ELSE live.failures["headroom"]
    BY <1>7 DEF RouteNames
  <2>5. /\ live'.unaccounted = live.unaccounted \/ live'.unaccounted = live.unaccounted + 1
        /\ ran.ok => live'.unaccounted = live.unaccounted
    BY <1>2
  <2>6. CASE ran.ok
    <3>1. /\ live'.failures["direct"] = live.failures["direct"]
          /\ live'.failures["headroom"] = live.failures["headroom"]
      BY <2>4, <2>6
    <3> QED BY <2>2, <2>5, <2>6, <3>1
  <2>7. CASE ~ran.ok
    <3>1. \/ /\ live'.failures["direct"] = live.failures["direct"] + 1
             /\ live'.failures["headroom"] = live.failures["headroom"]
          \/ /\ live'.failures["direct"] = live.failures["direct"]
             /\ live'.failures["headroom"] = live.failures["headroom"] + 1
      BY <2>3, <2>4, <2>7
    <3>2. live.unaccounted \in Nat BY <1>3
    <3> QED BY ONLY <2>1, <2>2, <2>5, <3>1, <3>2
  <2> QED BY <2>6, <2>7
<1>10. PaidFor(live'.runs) = PaidFor(live.runs) + ran.cost /\ PaidFor(live.runs) \in Nat
  BY <1>2, PaidAppend DEF Typed, CasesTyped
<1>11. PaidFor(live'.runs) <= live'.total + live'.unaccounted * Dearest
  <2>1. PaidFor(live.runs) <= live.total + live.unaccounted * Dearest BY DEF Tallied
  <2>2. /\ (live.unaccounted + 1) * Dearest = live.unaccounted * Dearest + Dearest
        /\ live.unaccounted * Dearest \in Nat
    BY <1>3, <1>5, Times
  <2>3. CASE ran.said
    <3>1. live'.total = live.total + ran.cost /\ live'.unaccounted = live.unaccounted BY <1>2, <2>3
    <3> QED BY <1>3, <1>10, <2>1, <2>2, <3>1
  <2>4. CASE ~ran.said
    <3>1. live'.total = live.total /\ live'.unaccounted = live.unaccounted + 1 BY <1>2, <2>4
    <3>2. PaidFor(live'.runs) <= live.total + ((live.unaccounted + 1) * Dearest)
      BY <1>3, <1>4, <1>5, <1>10, <2>1, <2>2
    <3> QED BY <3>1, <3>2
  <2> QED BY <2>3, <2>4
<1>12. Tallied' BY <1>5, <1>8, <1>9, <1>11 DEF Tallied
<1> QED BY <1>6, <1>12

LEMMA SpendingSteps ==
  Typed /\ Typed' /\ Capped /\ Tallied /\ Course => Capped' /\ Tallied'
<1> SUFFICES ASSUME Typed, Typed', Capped, Tallied, Course PROVE Capped' /\ Tallied' OBVIOUS
<1>1. CASE Restarts \/ Opens
  <2>1. Fresh'
    <3>1. CASE Restarts BY <3>1 DEF Restarts, Off, Fresh
    <3>2. CASE Opens BY <3>2, Beginning DEF Opens, Fresh
    <3> QED BY <1>1, <3>1, <3>2
  <2> QED BY <2>1, NothingSpent, PTL
<1>2. CASE UNCHANGED live BY <1>2 DEF Capped, Tallied, Dearest
<1>3. CASE InSuite(Round \/ TakeRoute \/ CannotBegin)
  <2>1. /\ UNCHANGED Account /\ live.case = {}
        /\ live'.at = "cleared" => live.total < live.cap /\ live.failures[Head(live'.left)] < 2
    BY <1>3, Looks DEF InSuite
  <2>2. UNCHANGED Dearest BY <2>1 DEF Account, Dearest
  <2>3. Capped' BY <2>1 DEF Account, Capped
  <2>4. Tallied' BY <2>1, <2>2 DEF Account, Tallied
  <2> QED BY <2>3, <2>4
<1>4. CASE InSuite(CaseBegins) BY <1>4, GoesOutWithin DEF InSuite
<1>5. CASE InSuite(Collected) BY <1>5, ComesBackCounted DEF InSuite
<1>6. CASE CaseMoves
  <2>1. PICK changed : /\ live' = [live EXCEPT !.case = {changed}]
                       /\ live.at = "case" /\ live.case = {Case}
                       /\ changed.cost = Case.cost /\ changed.route = Case.route
    BY <1>6, CaseOnly
  <2>2. /\ live'.case = {changed} /\ live'.at = "case"
        /\ UNCHANGED <<live.routes, live.cap, live.runs, live.total, live.unaccounted, live.failures>>
    BY <2>1 DEF Typed, SuiteTyped, Off
  <2>3. UNCHANGED Dearest BY <2>2 DEF Dearest
  <2>4. Capped' BY <2>1, <2>2, <2>3 DEF Capped
  <2>5. Tallied' BY <2>2, <2>3 DEF Tallied
  <2> QED BY <2>4, <2>5
<1> QED BY <1>1, <1>2, <1>3, <1>4, <1>5, <1>6 DEF Course, Elsewhere, Closes

LEMMA ReportedSteps == Typed /\ Reported /\ Course => Reported'
<1> SUFFICES ASSUME Typed, Reported, Course PROVE Reported' OBVIOUS
<1>1. CASE Restarts
  <2>1. live' = Off' /\ bench'.at \in Early /\ bench'.at \notin Late BY <1>1 DEF Restarts, Off, Early, Late
  <2> QED BY <2>1 DEF Reported
<1>2. CASE Elsewhere
  <2>1. live' = live /\ (live = Off => live' = Off') BY <1>2 DEF Elsewhere, Off
  <2>2. bench'.at \in Early => live' = Off' BY <1>2, <2>1 DEF Elsewhere, Reported
  <2>3. bench.at = "paid" => live.routes = <<>> BY DEF Reported, Early, Off
  <2> QED BY <1>2, <2>1, <2>2, <2>3 DEF Elsewhere, Reported
<1>3. CASE Opens BY <1>3 DEF Opens, Reported, Early, Late
<1>4. CASE Closes
  <2>1. live.case = {} BY <1>4 DEF Closes, Typed, CasesTyped
  <2>2. "unaccounted" \in Warnings <=> live.unaccounted > 0 BY DEF Warnings
  <2>3. bench'.at = "integrations" /\ live.unaccounted > 0
           => bench'.warned \cap {"unaccounted", "live"} # {}
    BY <1>4, <2>2 DEF Closes
  <2>4. bench'.at \in {"error", "integrations"} /\ live' = live BY <1>4 DEF Closes
  <2> QED BY <2>1, <2>3, <2>4 DEF Reported, Early, Late
<1>5. CASE bench.at = "live" /\ UNCHANGED bench BY <1>5 DEF Reported, Early, Late
<1>6. CASE CaseMoves /\ UNCHANGED bench
  <2>1. PICK changed : live' = [live EXCEPT !.case = {changed}] /\ live.case = {Case} BY <1>6, CaseOnly
  <2>2. live'.routes = live.routes BY <2>1 DEF Typed, SuiteTyped, Off
  <2>3. live # Off
    <3>1. Off.case = {} BY DEF Off
    <3>2. live.case # {} BY <2>1
    <3> QED BY <3>1, <3>2
  <2> QED BY <1>6, <2>1, <2>2, <2>3 DEF Reported
<1> QED BY <1>1, <1>2, <1>3, <1>4, <1>5, <1>6 DEF Course, InSuite

LEMMA Bounded ==
  ASSUME Typed, Capped, Tallied, Reported
  PROVE  SpendIsBounded
<1> SUFFICES ASSUME live.routes # <<>>
             PROVE  /\ TrueCost <= live.cap + MinBudget + 2 * Len(live.routes) * Dearest
                    /\ bench.at = "report" /\ TrueCost > live.total
                          => bench.warned \cap {"unaccounted", "live"} # {}
  BY DEF SpendIsBounded, Dearest
<1>1. /\ live.cap \in Nat /\ live.total \in Nat /\ MinBudget \in Nat /\ live.unaccounted \in Nat
      /\ live.failures \in [RouteNames -> Nat]
  BY LiveAssumption DEF Typed, CountsTyped
<1>2. Dearest \in Nat BY <1>1 DEF Dearest, Most
<1>3. PaidFor(live.runs) \in Nat /\ PaidFor(live.runs) <= live.total + live.unaccounted * Dearest
  BY PaidTyped DEF Tallied
<1>4. InHand \in Nat /\ live.total + InHand <= live.cap + MinBudget
  <2>1. CASE live.case = {}
    <3>1. InHand = 0 BY <2>1 DEF InHand
    <3> QED BY <1>1, <3>1 DEF Capped
  <2>2. CASE live.case # {}
    <3>1. Case \in live.case BY <2>2 DEF Case
    <3>2. IsCase(Case) BY <2>2, <3>1 DEF Typed, CasesTyped
    <3>3. InHand = Case.cost BY <2>2 DEF InHand
    <3> QED BY <3>1, <3>2, <3>3 DEF Capped, IsCase
  <2> QED BY <2>1, <2>2
<1>5. Len(live.routes) \in Nat /\ live.unaccounted <= 2 * Len(live.routes)
  <2>1. /\ live.failures["direct"] \in Nat /\ live.failures["headroom"] \in Nat
        /\ live.unaccounted <= live.failures["direct"] + live.failures["headroom"]
        /\ live.failures["direct"] <= IF "direct" \in Range(live.routes) THEN 2 ELSE 0
        /\ live.failures["headroom"] <= IF "headroom" \in Range(live.routes) THEN 2 ELSE 0
    BY <1>1 DEF Tallied, RouteNames
  <2>2. ASSUME NEW r, live.routes = <<r>> PROVE Len(live.routes) = 1 /\ Range(live.routes) = {r}
    BY <2>2 DEF Range
  <2>3. CASE live.routes = <<"direct">>
    <3>1. Len(live.routes) = 1 /\ "headroom" \notin Range(live.routes) BY <2>2, <2>3
    <3> QED BY <1>1, <2>1, <3>1
  <2>4. CASE live.routes = <<"headroom">>
    <3>1. Len(live.routes) = 1 /\ "direct" \notin Range(live.routes) BY <2>2, <2>4
    <3> QED BY <1>1, <2>1, <3>1
  <2>5. CASE live.routes = <<"direct", "headroom">>
    <3>1. Len(live.routes) = 2 BY <2>5
    <3> QED BY <1>1, <2>1, <3>1
  <2> QED BY <2>3, <2>4, <2>5 DEF Typed, SuiteTyped, RoutesTaken
<1>6. live.unaccounted * Dearest <= 2 * Len(live.routes) * Dearest
  <2>1. 2 * Len(live.routes) \in Nat BY <1>5
  <2> QED BY <1>1, <1>2, <1>5, <2>1, Times
<1>7. TrueCost = PaidFor(live.runs) + InHand BY DEF TrueCost
<1>8. TrueCost <= live.cap + MinBudget + 2 * Len(live.routes) * Dearest
  <2>1. /\ live.unaccounted * Dearest \in Nat /\ 2 * Len(live.routes) * Dearest \in Nat
    BY <1>1, <1>2, <1>5
  <2> DEFINE a == live.unaccounted * Dearest
             b == 2 * Len(live.routes) * Dearest
             p == PaidFor(live.runs)
             h == InHand
  <2>2. /\ a \in Nat /\ b \in Nat /\ a <= b /\ p \in Nat /\ h \in Nat /\ p <= live.total + a
        /\ live.total + h <= live.cap + MinBudget /\ TrueCost = p + h
    BY <1>3, <1>4, <1>6, <1>7, <2>1, Zenon
  <2> HIDE DEF a, b, p, h
  <2>3. TrueCost <= live.cap + MinBudget + b BY ONLY <1>1, <2>2
  <2> QED BY <2>3, Zenon DEF b
<1>9. ASSUME bench.at = "report", TrueCost > live.total
      PROVE  bench.warned \cap {"unaccounted", "live"} # {}
  <2>1. live.case = {} BY <1>9 DEF Reported, Late
  <2>2. InHand = 0 BY <2>1 DEF InHand
  <2>3. live.unaccounted * Dearest \in Nat BY <1>1, <1>2
  <2>4. live.unaccounted * Dearest > 0 BY <1>1, <1>3, <1>7, <1>9, <2>2, <2>3
  <2>5. live.unaccounted > 0 BY <1>1, <1>2, <2>4, Times
  <2> QED BY <1>9, <2>5 DEF Reported, Late
<1> QED BY <1>8, <1>9

\* Whatever the cap, the least budget, what cases cost, how often they time out or fail and however
\* long a killed one lives on, a benchmark spends no more than was allowed for, and a report whose
\* figure is too low says so.
THEOREM SpendingIsBounded == ProgramSpec => []SpendIsBounded
<1>1. ProgramInit /\ Typed => Capped /\ Tallied /\ Reported
  <2> SUFFICES ASSUME ProgramInit, Typed PROVE Capped /\ Tallied /\ Reported OBVIOUS
  <2>1. live = Off BY DEF ProgramInit, BenchInit
  <2>2. Fresh BY <2>1 DEF Off, Fresh
  <2>3. bench = NoBench \/ \E o : bench = Begun(o, TRUE, S.happens) BY DEF ProgramInit, BenchInit
  <2>4. bench.at \in {"off", "preflight"}
    <3>1. CASE bench = NoBench BY <3>1 DEF NoBench
    <3>2. ASSUME NEW o, bench = Begun(o, TRUE, S.happens) PROVE bench.at = "preflight"
      BY <3>2 DEF Begun, NoBench
    <3> QED BY <2>3, <3>1, <3>2
  <2>5. bench.at \notin Late BY <2>4 DEF Late
  <2> QED BY <2>1, <2>2, <2>5, NothingSpent DEF Reported
<1>2. Typed /\ Typed' /\ SlotInv' /\ Capped /\ Tallied /\ Reported /\ [ProgramNext]_programVars
         => Capped' /\ Tallied' /\ Reported'
  <2> SUFFICES ASSUME Typed, Typed', SlotInv', Capped, Tallied, Reported, [ProgramNext]_programVars
               PROVE  Capped' /\ Tallied' /\ Reported'
    OBVIOUS
  <2>1. Course BY Courses
  <2> QED BY <2>1, SpendingSteps, ReportedSteps
<1> QED BY <1>1, <1>2, Bounded, ProgramTypes, PTL DEF ProgramSpec

-----------------------------------------------------------------------------
(* Two routes on equal terms                                               *)

Both == <<"direct", "headroom">>
Leads(index) == IF index < 3 THEN "direct" ELSE "headroom"
Second(index) == IF index < 3 THEN "headroom" ELSE "direct"

\* What is left of a round when k of its cases have been begun.
Rest(index, k) == IF k = 0 THEN <<Leads(index), Second(index)>>
                  ELSE IF k = 1 THEN <<Second(index)>> ELSE <<>>

LEMMA RestIs ==
  ASSUME NEW index \in 0..5
  PROVE  /\ Head(Rest(index, 0)) = Leads(index) /\ Tail(Rest(index, 0)) = Rest(index, 1)
         /\ Len(Rest(index, 0)) = 2
         /\ Head(Rest(index, 1)) = Second(index) /\ Tail(Rest(index, 1)) = Rest(index, 2)
         /\ Len(Rest(index, 1)) = 1 /\ Rest(index, 2) = <<>>
         /\ Leads(index) \in RouteNames /\ Second(index) \in RouteNames
  BY DEF Rest, Leads, Second, RouteNames

LEMMA OrderIs ==
  ASSUME NEW index \in 0..5, live.routes = Both
  PROVE  Order(index) = Rest(index, 0)
<1>1. Reverse(Both) = <<"headroom", "direct">>
  <2>1. Len(Both) = 2 /\ Both[1] = "direct" /\ Both[2] = "headroom" BY DEF Both
  <2>2. Reverse(Both) = [i \in 1..2 |-> IF i = 1 THEN "headroom" ELSE "direct"] BY <2>1 DEF Reverse
  <2> QED BY <2>2
<1>2. (index \div 3) % 2 = 0 <=> index < 3 OBVIOUS
<1>3. Len(Scenarios) = 3 BY DEF Scenarios
<1> QED BY <1>1, <1>2, <1>3 DEF Order, Rest, Leads, Second, Both

\* The i-th case of a benchmark as long as no route is disabled: two to a round, the first of them
\* on the route that leads; three rounds to a pass over the scenarios, two passes until all is as
\* it was.
Place(i) == (i - 1) % 12
Planned(c, i) == /\ c.route = (IF Place(i) \in {0, 2, 4, 7, 9, 11} THEN "direct" ELSE "headroom")
                 /\ c.scenario = ((Place(i) \div 2) % 3) + 1
                 /\ c.first = (Place(i) % 2 = 0)

Exhausted == Remaining < Margin \/ live.total >= live.cap

\* Where the suite is in the plan.
Synced == /\ live.at = "round" => Len(live.runs) % 12 = 2 * live.index
          /\ live.at \in {"route", "cleared"} =>
                \E k \in 0..2 : /\ live.left = Rest(live.index, k)
                                /\ Len(live.runs) % 12 = (2 * live.index + k) % 12
          /\ live.at = "case" =>
                \E k \in 1..2 : /\ live.left = Rest(live.index, k)
                                /\ Len(live.runs) % 12 = 2 * live.index + k - 1
                                /\ Planned(Case, Len(live.runs) + 1)

Enabled == live.routes = Both /\ \A route \in RouteNames : ~Disabled(route)

\* It keeps to the plan until there is no time or no money left to begin a case, and then begins
\* none.
Paired == Enabled => /\ \A i \in DOMAIN live.runs : Planned(live.runs[i], i)
                     /\ bench.at = "live" => \/ live.at \in {"over", "failed"}
                                             \/ live.at \in {"round", "route"} /\ Exhausted
                                             \/ Synced

\* Every way of the loop on.
LEMMA LooksFurther ==
  ASSUME Typed, Round \/ TakeRoute \/ CannotBegin
  PROVE  \/ live'.at \in {"over", "failed"}
         \/ /\ live.at = "round" /\ live'.at = "route"
            /\ live'.left = Order(live.index) /\ live'.index = live.index
         \/ /\ live.at = "route" /\ live'.at = "round" /\ live'.index = (live.index + 1) % 6
            /\ live.left = <<>> \/ Exhausted
         \/ live.at = "route" /\ live.left # <<>> /\ Disabled(Head(live.left))
         \/ /\ live.at = "route" /\ live'.at = "cleared" /\ live.left # <<>> /\ ~Exhausted
            /\ live'.left = live.left /\ live'.index = live.index
<1>0. DOMAIN live = LiveFields BY DEF Typed, SuiteTyped, Off, LiveFields
<1>1. CASE Round BY <1>0, <1>1 DEF Round, LiveFields
<1>2. CASE TakeRoute
  <2>1. Rounds = 6 BY DEF Rounds, Scenarios
  <2>2. CASE live.left = <<>> BY <1>0, <1>2, <2>1, <2>2 DEF TakeRoute, NextRound, LiveFields
  <2>3. CASE live.left # <<>> /\ cancelled BY <1>0, <1>2, <2>3 DEF TakeRoute, LiveFields
  <2>4. CASE live.left # <<>> /\ ~cancelled /\ ~Disabled(Head(live.left))
    BY <1>0, <1>2, <2>1, <2>4 DEF TakeRoute, NextRound, LiveFields, Exhausted
  <2>5. CASE live.left # <<>> /\ ~cancelled /\ Disabled(Head(live.left))
    BY <1>2, <2>5 DEF TakeRoute
  <2> QED BY <2>2, <2>3, <2>4, <2>5 DEF Typed, BenchTyped
<1>3. CASE CannotBegin BY <1>0, <1>3 DEF CannotBegin, LiveFields
<1> QED BY <1>1, <1>2, <1>3

LEMMA StillEnabled ==
  ASSUME UNCHANGED <<live.routes, live.failures>>
  PROVE  Enabled' <=> Enabled
  BY DEF Enabled, Disabled

\* There is no more time, nor more money, than there was.
LEMMA StillExhausted ==
  ASSUME Typed, Exhausted, elapsed' \in {elapsed, elapsed + Step},
         UNCHANGED <<live.maximum, live.total, live.cap>>
  PROVE  Exhausted'
<1>1. /\ live.maximum \in Int /\ elapsed \in Int /\ Step \in Nat /\ Margin \in Nat
      /\ live.maximum' = live.maximum
  BY LiveAssumption DEF Typed, CountsTyped, BenchTyped
<1>2. Remaining < Margin => Remaining' < Margin
  BY <1>1 DEF Remaining, Most
<1> QED BY <1>2 DEF Exhausted

LEMMA LooksPaired ==
  ASSUME Typed, Paired, Enabled, bench.at = "live", UNCHANGED elapsed,
         Round \/ TakeRoute \/ CannotBegin
  PROVE  live'.at \in {"over", "failed"} \/ (live'.at \in {"round", "route"} /\ Exhausted') \/ Synced'
<1>1. UNCHANGED Account BY Looks
<1>2. UNCHANGED <<live.runs, live.routes, live.failures, live.maximum, live.total, live.cap>>
  BY <1>1 DEF Account
<1>3. live.index \in 0..5 /\ live.routes = Both BY DEF Typed, SuiteTyped, Enabled
<1>4. \/ live.at \in {"over", "failed"} \/ (live.at \in {"round", "route"} /\ Exhausted) \/ Synced
  BY DEF Paired
<1>5. Exhausted => Exhausted' BY <1>2, StillExhausted
<1>6. Len(live.runs) \in Nat BY LenProperties DEF Typed, CasesTyped
<1>7. CASE live'.at \in {"over", "failed"} BY <1>7
<1>8. CASE /\ live.at = "round" /\ live'.at = "route"
           /\ live'.left = Order(live.index) /\ live'.index = live.index
  <2>1. CASE Exhausted BY <1>5, <1>8, <2>1
  <2>2. CASE ~Exhausted
    <3>1. Len(live.runs) % 12 = 2 * live.index BY <1>4, <1>8, <2>2 DEF Synced
    <3>2. 2 * live.index = (2 * live.index + 0) % 12 BY <1>3
    <3>3. Len(live'.runs) % 12 = (2 * live'.index + 0) % 12 BY <1>2, <1>8, <3>1, <3>2
    <3>4. live'.left = Rest(live'.index, 0) BY <1>3, <1>8, OrderIs
    <3>5. \E k \in 0..2 : /\ live'.left = Rest(live'.index, k)
                          /\ Len(live'.runs) % 12 = (2 * live'.index + k) % 12
      <4>1. 0 \in 0..2 OBVIOUS
      <4> QED BY <3>3, <3>4, <4>1
    <3> QED BY <1>8, <3>5 DEF Synced
  <2> QED BY <2>1, <2>2
<1>9. CASE /\ live.at = "route" /\ live'.at = "round" /\ live'.index = (live.index + 1) % 6
           /\ live.left = <<>> \/ Exhausted
  <2>1. CASE Exhausted BY <1>5, <1>9, <2>1
  <2>2. CASE ~Exhausted
    <3>1. PICK k \in 0..2 : /\ live.left = Rest(live.index, k)
                            /\ Len(live.runs) % 12 = (2 * live.index + k) % 12
      BY <1>4, <1>9, <2>2 DEF Synced
    <3>2. k = 2
      <4>1. Rest(live.index, 0) # <<>> /\ Rest(live.index, 1) # <<>> BY DEF Rest
      <4> QED BY <1>9, <2>2, <3>1, <4>1
    <3>3. (2 * live.index + 2) % 12 = 2 * ((live.index + 1) % 6) BY <1>3
    <3>4. Len(live'.runs) % 12 = 2 * live'.index BY <1>2, <1>9, <3>1, <3>2, <3>3
    <3> QED BY <1>9, <3>4 DEF Synced
  <2> QED BY <2>1, <2>2
<1>10. ~(live.at = "route" /\ live.left # <<>> /\ Disabled(Head(live.left)))
  <2>1. live.left # <<>> => Head(live.left) \in RouteNames BY LeftOf DEF Typed, SuiteTyped
  <2> QED BY <2>1 DEF Enabled
<1>11. CASE /\ live.at = "route" /\ live'.at = "cleared" /\ live.left # <<>> /\ ~Exhausted
            /\ live'.left = live.left /\ live'.index = live.index
  <2>1. PICK k \in 0..2 : /\ live.left = Rest(live.index, k)
                          /\ Len(live.runs) % 12 = (2 * live.index + k) % 12
    BY <1>4, <1>11 DEF Synced
  <2>2. live'.left = Rest(live'.index, k) /\ Len(live'.runs) % 12 = (2 * live'.index + k) % 12
    BY <1>2, <1>11, <2>1
  <2> QED BY <1>11, <2>2 DEF Synced
<1> QED BY <1>7, <1>8, <1>9, <1>10, <1>11, LooksFurther

LEMMA GoesOutPaired ==
  ASSUME Typed, Paired, Enabled, bench.at = "live", CaseBegins
  PROVE  Synced'
<1>1. /\ live.at = "cleared" /\ live'.at = "case" /\ live'.runs = live.runs
      /\ live.index \in 0..5 /\ live.left # <<>> /\ live.routes = Both
  BY GoesOut DEF Typed, SuiteTyped, Enabled
<1>2. live'.left = Tail(live.left) /\ live'.index = live.index
  BY DEF CaseBegins, Typed, SuiteTyped, Off
<1>3. PICK c : /\ live'.case = {c} /\ c.route = Head(live.left)
               /\ c.scenario = (live.index % Len(Scenarios)) + 1
               /\ c.first = (Len(live.left) = Len(live.routes))
  BY GoesOut
<1>4. Case' = c BY <1>3 DEF Case
<1>5. PICK k \in 0..2 : /\ live.left = Rest(live.index, k)
                        /\ Len(live.runs) % 12 = (2 * live.index + k) % 12
  BY <1>1 DEF Paired, Synced
<1>6. k \in {0, 1} BY <1>1, <1>5, RestIs
<1>7. live'.left = Rest(live'.index, k + 1)
  <2>1. live.left = Rest(live.index, k) BY <1>5
  <2>2. Tail(Rest(live.index, k)) = Rest(live.index, k + 1) BY ONLY <1>1, <1>6, RestIs
  <2> QED BY <1>2, <2>1, <2>2
<1>8. Len(live.runs) \in Nat /\ Len(live.runs) % 12 = 2 * live.index + k
  <2>1. Len(live.runs) \in Nat BY LenProperties DEF Typed, CasesTyped
  <2>2. (2 * live.index + k) % 12 = 2 * live.index + k BY <1>1, <1>6
  <2> QED BY <1>5, <2>1, <2>2
<1>9. Place(Len(live.runs) + 1) = 2 * live.index + k
  <2>1. Place(Len(live.runs) + 1) = (Len(live.runs) + 1 - 1) % 12 BY DEF Place
  <2>2. Len(live.runs) + 1 - 1 = Len(live.runs) BY <1>8
  <2> QED BY <1>8, <2>1, <2>2
<1>10. Planned(c, Len(live.runs) + 1)
  <2>1. Len(Scenarios) = 3 /\ Len(live.routes) = 2 BY <1>1 DEF Scenarios, Both
  <2>2. c.route = (IF k = 0 THEN Leads(live.index) ELSE Second(live.index)) /\ c.first = (k = 0)
    BY <1>1, <1>3, <1>5, <1>6, <2>1, RestIs
  <2>3. c.scenario = (live.index % 3) + 1 BY <1>3, <2>1
  <2> DEFINE at == 2 * live.index + k
  <2>4. /\ at \in {0, 2, 4, 7, 9, 11} <=> (IF k = 0 THEN Leads(live.index) ELSE Second(live.index)) = "direct"
        /\ Leads(live.index) \in {"direct", "headroom"} /\ Second(live.index) \in {"direct", "headroom"}
    BY <1>1, <1>6 DEF Leads, Second
  <2>5. (at \div 2) % 3 = live.index % 3 /\ (at % 2 = 0 <=> k = 0) BY <1>1, <1>6
  <2>6. Place(Len(live.runs) + 1) = at BY <1>9
  <2> HIDE DEF at
  <2> QED BY <1>6, <2>2, <2>3, <2>4, <2>5, <2>6 DEF Planned
<1>11. k + 1 \in 1..2 /\ Len(live'.runs) % 12 = 2 * live'.index + (k + 1) - 1
  <2>1. 2 * live.index + (k + 1) - 1 = 2 * live.index + k BY <1>1, <1>6
  <2>2. Len(live'.runs) % 12 = 2 * live.index + k BY <1>1, <1>8
  <2>3. k + 1 \in 1..2 BY <1>6
  <2> QED BY <1>2, <2>1, <2>2, <2>3
<1>12. (Planned(Case, Len(live.runs) + 1))' BY <1>1, <1>4, <1>10 DEF Planned, Place
<1> QED BY <1>1, <1>7, <1>11, <1>12 DEF Synced

LEMMA ComesBackPaired ==
  ASSUME Typed, Paired, Enabled, bench.at = "live", Collected
  PROVE  /\ \A i \in DOMAIN live'.runs : Planned(live'.runs[i], i)
         /\ Synced'
<1>1. /\ live.at = "case" /\ live'.at = "route" /\ live'.left = live.left /\ live'.index = live.index
      /\ live.index \in 0..5
  BY ComesBack DEF Typed, SuiteTyped
<1>2. PICK ran \in RanCase :
        /\ ran.route = Case.route /\ ran.scenario = Case.scenario /\ ran.first = Case.first
        /\ live'.runs = Append(live.runs, ran)
  BY ComesBack
<1>3. live.runs \in Seq(RanCase) BY DEF Typed, CasesTyped
<1>4. /\ Len(live.runs) \in Nat /\ DOMAIN live.runs = 1..Len(live.runs)
      /\ DOMAIN live'.runs = 1..Len(live.runs) + 1 /\ Len(live'.runs) = Len(live.runs) + 1
      /\ live'.runs[Len(live.runs) + 1] = ran
      /\ \A i \in 1..Len(live.runs) : live'.runs[i] = live.runs[i]
  BY <1>2, <1>3, LenProperties, AppendProperties
<1>5. PICK k \in 1..2 : /\ live.left = Rest(live.index, k)
                        /\ Len(live.runs) % 12 = 2 * live.index + k - 1
                        /\ Planned(Case, Len(live.runs) + 1)
  BY <1>1 DEF Paired, Synced
<1>6. Planned(ran, Len(live.runs) + 1) BY <1>2, <1>5 DEF Planned
<1>7. ASSUME NEW i \in DOMAIN live'.runs PROVE Planned(live'.runs[i], i)
  <2>1. CASE i \in 1..Len(live.runs) BY <1>4, <2>1 DEF Paired
  <2>2. CASE i = Len(live.runs) + 1 BY <1>4, <1>6, <2>2
  <2> QED BY <1>4, <2>1, <2>2
<1>8. \E j \in 0..2 : /\ live'.left = Rest(live'.index, j)
                      /\ Len(live'.runs) % 12 = (2 * live'.index + j) % 12
  <2>1. k \in 0..2 OBVIOUS
  <2>2. (Len(live.runs) + 1) % 12 = (2 * live.index + k) % 12
    <3>1. \A n \in Nat : \A m \in 0..11 : n % 12 = m => (n + 1) % 12 = (m + 1) % 12 OBVIOUS
    <3>2. 2 * live.index + k - 1 \in 0..11 /\ 2 * live.index + k - 1 + 1 = 2 * live.index + k
      BY <1>1
    <3> QED BY <1>4, <1>5, <3>1, <3>2
  <2>3. Len(live'.runs) % 12 = (2 * live'.index + k) % 12 BY <1>1, <1>4, <2>2
  <2>4. live'.left = Rest(live'.index, k) BY <1>1, <1>5
  <2> QED BY <2>1, <2>3, <2>4
<1>9. Synced' BY <1>1, <1>8 DEF Synced
<1> QED BY <1>7, <1>9

LEMMA PairedSteps == Typed /\ Paired /\ Course => Paired'
<1> SUFFICES ASSUME Typed, Paired, Course PROVE Paired' OBVIOUS
<1>1. CASE Restarts
  <2>1. live'.runs = <<>> /\ bench'.at # "live" BY <1>1 DEF Restarts, Off
  <2> QED BY <2>1 DEF Paired
<1>2. CASE Opens
  <2>1. live'.at \in {"failed", "round"} /\ live'.index = 0 /\ live'.runs = <<>>
    BY <1>2, Beginning DEF Opens
  <2>2. Len(live'.runs) % 12 = 2 * live'.index
    <3>1. Len(<<>>) = 0 /\ 0 % 12 = 2 * 0 OBVIOUS
    <3> QED BY <2>1, <3>1
  <2>3. live'.at = "round" => Synced' BY <2>2 DEF Synced
  <2> QED BY <2>1, <2>3 DEF Paired
<1>3. CASE Elsewhere
  <2>1. live' = live BY <1>3 DEF Elsewhere
  <2>2. Enabled' <=> Enabled BY <2>1, StillEnabled
  <2>3. ASSUME bench'.at = "live", Exhausted PROVE Exhausted'
    BY <1>3, <2>1, <2>3, StillExhausted DEF Elsewhere
  <2>4. Synced' <=> Synced BY <2>1 DEF Synced, Planned, Place, Case
  <2>5. bench'.at = "live" => bench.at = "live" BY <1>3 DEF Elsewhere
  <2> QED BY <2>1, <2>2, <2>3, <2>4, <2>5 DEF Paired
<1>4. CASE Closes
  <2>1. live' = live /\ bench'.at # "live" BY <1>4 DEF Closes
  <2>2. Enabled' <=> Enabled BY <2>1, StillEnabled
  <2> QED BY <2>1, <2>2 DEF Paired
<1>5. CASE InSuite(Round \/ TakeRoute \/ CannotBegin)
  <2>1. Round \/ TakeRoute \/ CannotBegin BY <1>5 DEF InSuite
  <2>2. UNCHANGED <<live.runs, live.routes, live.failures>> BY <2>1, Looks DEF Account
  <2>3. Enabled' <=> Enabled BY <2>2, StillEnabled
  <2>4. bench.at = "live" /\ UNCHANGED <<elapsed, bench>> BY <1>5 DEF InSuite
  <2>5. Enabled => live'.at \in {"over", "failed"} \/ (live'.at \in {"round", "route"} /\ Exhausted')
                   \/ Synced'
    BY <2>1, <2>4, LooksPaired
  <2> QED BY <2>2, <2>3, <2>5 DEF Paired
<1>6. CASE InSuite(CaseBegins)
  <2>1. CaseBegins /\ bench.at = "live" BY <1>6 DEF InSuite
  <2>2. UNCHANGED <<live.runs, live.routes, live.failures>> BY <2>1, GoesOut
  <2>3. Enabled' <=> Enabled BY <2>2, StillEnabled
  <2> QED BY <2>1, <2>2, <2>3, GoesOutPaired DEF Paired
<1>7. CASE InSuite(Collected)
  <2>1. Collected /\ bench.at = "live" BY <1>7 DEF InSuite
  <2>2. Enabled' => Enabled
    <3>1. PICK ran \in RanCase :
            live'.failures = [live.failures EXCEPT ![ran.route] = IF ran.ok THEN @ ELSE @ + 1]
      BY <2>1, ComesBack
    <3>2. live'.routes = live.routes /\ live.failures \in [RouteNames -> Nat]
      BY <2>1, ComesBack DEF Typed, CountsTyped
    <3>3. \A route \in RouteNames : live.failures[route] <= live'.failures[route] /\ live'.failures[route] \in Nat
      BY <3>1, <3>2
    <3> QED BY <3>2, <3>3 DEF Enabled, Disabled
  <2> QED BY <2>1, <2>2, ComesBackPaired DEF Paired
<1>8. CASE CaseMoves /\ UNCHANGED <<elapsed, bench>>
  <2>1. PICK changed :
          /\ live' = [live EXCEPT !.case = {changed}] /\ live.at = "case"
          /\ changed.route = Case.route
          /\ changed.scenario = Case.scenario /\ changed.first = Case.first
    BY <1>8, CaseOnly
  <2>2. /\ live'.case = {changed}
        /\ UNCHANGED <<live.at, live.routes, live.failures, live.runs, live.left, live.index>>
    BY <2>1 DEF Typed, SuiteTyped, Off
  <2>3. Enabled' <=> Enabled BY <2>2, StillEnabled
  <2>4. Case' = changed BY <2>2 DEF Case
  <2>5. (Planned(Case, Len(live.runs) + 1))' <=> Planned(Case, Len(live.runs) + 1)
    BY <2>1, <2>2, <2>4 DEF Planned, Place
  <2>6. Synced => Synced' BY <2>2, <2>5 DEF Synced
  <2> QED BY <1>8, <2>1, <2>2, <2>3, <2>6 DEF Paired
<1> QED BY <1>1, <1>2, <1>3, <1>4, <1>5, <1>6, <1>7, <1>8 DEF Course

\* Two finite sets of which one, but for an element, maps into the other without a clash.
LEMMA Nearly ==
  ASSUME NEW A, NEW B, IsFiniteSet(A), IsFiniteSet(B), NEW x, NEW f \in [A \ {x} -> B],
         \A a, b \in A \ {x} : f[a] = f[b] => a = b
  PROVE  Cardinality(A) <= Cardinality(B) + 1
<1>1. f \in Injection(A \ {x}, B) BY DEF Injection, IsInjective
<1>2. IsFiniteSet(A \ {x}) /\ Cardinality(A \ {x}) <= Cardinality(B) BY <1>1, FS_Injection
<1>3. Cardinality(A) \in Nat /\ Cardinality(B) \in Nat BY FS_CardinalityType
<1>4. Cardinality(A \ {x}) = IF x \in A THEN Cardinality(A) - 1 ELSE Cardinality(A)
  BY FS_RemoveElement
<1> QED BY <1>2, <1>3, <1>4

\* The other case of the same round, and the round of the same scenario in the pass before.
Mate(i) == IF i % 2 = 1 THEN i + 1 ELSE i - 1
Direct(i) == Place(i) \in {0, 2, 4, 7, 9, 11}
ScenarioAt(i) == ((Place(i) \div 2) % 3) + 1
LeadsAt(i) == Place(i) % 2 = 0

LEMMA Mates ==
  ASSUME NEW i \in Nat, i >= 1
  PROVE  /\ Direct(Mate(i)) <=> ~Direct(i)
         /\ ScenarioAt(Mate(i)) = ScenarioAt(i)
<1> DEFINE p == (i - 1) % 12
<1>1. p \in 0..11 /\ Place(i) = p /\ (p % 2 = 0 <=> i % 2 = 1) BY DEF Place
<1>2. Place(Mate(i)) = IF p % 2 = 0 THEN p + 1 ELSE p - 1
  <2>1. CASE i % 2 = 1
    <3>1. (i + 1 - 1) % 12 = p + 1 BY <2>1
    <3> QED BY <1>1, <2>1, <3>1 DEF Place, Mate
  <2>2. CASE i % 2 # 1
    <3>1. (i - 1 - 1) % 12 = p - 1 BY <2>2
    <3> QED BY <1>1, <2>2, <3>1 DEF Place, Mate
  <2> QED BY <2>1, <2>2
<1> HIDE DEF p
<1> QED BY <1>1, <1>2 DEF Direct, ScenarioAt

LEMMA PassBefore ==
  ASSUME NEW i \in Nat, i >= 7
  PROVE  /\ Direct(i - 6) <=> ~Direct(i)
         /\ ScenarioAt(i - 6) = ScenarioAt(i)
         /\ LeadsAt(i - 6) <=> LeadsAt(i)
<1> DEFINE p == (i - 1) % 12
<1>1. p \in 0..11 /\ Place(i) = p BY DEF Place
<1>2. Place(i - 6) = IF p >= 6 THEN p - 6 ELSE p + 6
  <2>1. (i - 6 - 1) % 12 = IF p >= 6 THEN p - 6 ELSE p + 6 OBVIOUS
  <2> QED BY <2>1 DEF Place
<1> DEFINE q == IF p >= 6 THEN p - 6 ELSE p + 6
<1> HIDE DEF p
<1>3. q \in {0, 2, 4, 7, 9, 11} <=> p \notin {0, 2, 4, 7, 9, 11} BY <1>1
<1>4. (q \div 2) % 3 = (p \div 2) % 3 BY <1>1
<1>5. q % 2 = p % 2 BY <1>1
<1> HIDE DEF q
<1>6. Place(i - 6) = q BY <1>2 DEF q
<1> QED BY <1>1, <1>3, <1>4, <1>5, <1>6 DEF Direct, ScenarioAt, LeadsAt

\* The first pass is led by the direct route, once a scenario.
LEMMA FirstPass ==
  ASSUME NEW i \in 1..6, LeadsAt(i)
  PROVE  Direct(i) /\ i = 2 * ScenarioAt(i) - 1
<1>1. Place(i) = i - 1 BY DEF Place
<1> QED BY <1>1 DEF Direct, ScenarioAt, LeadsAt

LEMMA EqualTerms ==
  ASSUME Typed, Paired
  PROVE  RoutesOnEqualTerms
<1> DEFINE taken == Len(live.runs)
           ran(route, n) == {i \in 1..taken : live.runs[i].route = route /\ live.runs[i].scenario = n}
           led(route, n) == {i \in ran(route, n) : live.runs[i].first}
<1> SUFFICES ASSUME live.routes # <<>>, \A route \in Range(live.routes) : ~Disabled(route),
                    NEW r \in Range(live.routes), NEW s \in Range(live.routes), NEW n \in DOMAIN Scenarios
             PROVE  /\ Cardinality(ran(r, n)) <= Cardinality(ran(s, n)) + 1
                    /\ Cardinality(led(r, n)) <= Cardinality(led(s, n)) + 1
  BY DEF RoutesOnEqualTerms
<1>1. taken \in Nat /\ DOMAIN live.runs = 1..taken BY LenProperties DEF Typed, CasesTyped
<1>2. \A route, m : IsFiniteSet(ran(route, m)) /\ IsFiniteSet(led(route, m))
  <2>1. IsFiniteSet(1..taken) BY <1>1, FS_Interval
  <2>2. \A route, m : ran(route, m) \subseteq 1..taken /\ led(route, m) \subseteq 1..taken OBVIOUS
  <2> QED BY <2>1, <2>2, FS_Subset
<1>3. CASE r = s
  <2> HIDE DEF ran, led
  <2>1. IsFiniteSet(ran(r, n)) /\ IsFiniteSet(led(r, n)) BY <1>2
  <2>2. Cardinality(ran(r, n)) \in Nat /\ Cardinality(led(r, n)) \in Nat
    BY <2>1, FS_CardinalityType
  <2> QED BY <1>3, <2>2
<1>4. CASE r # s
  <2>1. live.routes = Both
    <3>1. \A q : Range(<<q>>) = {q} BY DEF Range
    <3> QED BY <1>4, <3>1 DEF Typed, SuiteTyped, RoutesTaken, Both
  <2>2. Range(Both) = RouteNames
    <3>1. DOMAIN Both = {1, 2} /\ Both[1] = "direct" /\ Both[2] = "headroom" BY DEF Both
    <3> QED BY <3>1 DEF Range, RouteNames
  <2>3. \A i \in 1..taken : Planned(live.runs[i], i)
    BY <1>1, <2>1, <2>2 DEF Paired, Enabled
  <2>4. \A i \in 1..taken : /\ live.runs[i].route = r <=> (Direct(i) <=> r = "direct")
                            /\ live.runs[i].route = s <=> (Direct(i) <=> s = "direct")
                            /\ live.runs[i].scenario = ScenarioAt(i)
                            /\ live.runs[i].first = LeadsAt(i)
    BY <2>1, <2>2, <2>3 DEF Planned, Direct, ScenarioAt, LeadsAt, RouteNames
  <2>5. (r = "direct") <=> ~(s = "direct") BY <1>4, <2>1, <2>2 DEF RouteNames
  <2>6. Cardinality(ran(r, n)) <= Cardinality(ran(s, n)) + 1
    <3> DEFINE A == ran(r, n)
               f == [i \in A \ {taken} |-> Mate(i)]
    <3>1. ASSUME NEW i \in A \ {taken} PROVE Mate(i) \in ran(s, n)
      <4>1. i \in 1..taken /\ i # taken /\ (Direct(i) <=> r = "direct") /\ ScenarioAt(i) = n
        BY <2>4
      <4>2. Mate(i) \in 1..taken BY <1>1, <4>1 DEF Mate
      <4>3. (Direct(Mate(i)) <=> ~Direct(i)) /\ ScenarioAt(Mate(i)) = ScenarioAt(i)
        BY <1>1, <4>1, Mates
      <4> QED BY <2>4, <2>5, <4>1, <4>2, <4>3
    <3>2. ASSUME NEW i \in A \ {taken}, NEW j \in A \ {taken}, Mate(i) = Mate(j) PROVE i = j
      BY <1>1, <3>2 DEF Mate
    <3>3. f \in [A \ {taken} -> ran(s, n)] BY <3>1
    <3>4. \A i, j \in A \ {taken} : f[i] = f[j] => i = j BY <3>2
    <3> HIDE DEF f, ran
    <3> QED BY <1>2, <3>3, <3>4, Nearly
  <2>7. Cardinality(led(r, n)) <= Cardinality(led(s, n)) + 1
    <3> DEFINE A == led(r, n)
               x == 2 * n - 1
               f == [i \in A \ {x} |-> i - 6]
    <3>1. ASSUME NEW i \in A \ {x} PROVE i - 6 \in led(s, n) /\ i \in Nat
      <4>1. /\ i \in 1..taken /\ i # x /\ (Direct(i) <=> r = "direct") /\ ScenarioAt(i) = n
            /\ LeadsAt(i)
        BY <2>4
      <4>2. i >= 7
        <5>1. SUFFICES ASSUME i \in 1..6 PROVE FALSE BY <1>1, <4>1
        <5> QED BY <4>1, <5>1, FirstPass
      <4>3. i - 6 \in 1..taken /\ i \in Nat BY <1>1, <4>1, <4>2
      <4>4. /\ Direct(i - 6) <=> ~Direct(i)
            /\ ScenarioAt(i - 6) = ScenarioAt(i)
            /\ LeadsAt(i - 6) <=> LeadsAt(i)
        BY <4>2, <4>3, PassBefore
      <4> QED BY <2>4, <2>5, <4>1, <4>3, <4>4
    <3>2. f \in [A \ {x} -> led(s, n)] BY <3>1
    <3>3. \A i, j \in A \ {x} : f[i] = f[j] => i = j BY <3>1
    <3> HIDE DEF f, led, x
    <3> QED BY <1>2, <3>2, <3>3, Nearly
  <2> QED BY <2>6, <2>7
<1> QED BY <1>3, <1>4

\* As long as neither route is disabled, no cap, no clock and no cost make a report compare routes
\* that were asked unequally.
THEOREM RoutesAreComparable == ProgramSpec => []RoutesOnEqualTerms
<1>1. ProgramInit => Paired
  <2> SUFFICES ASSUME ProgramInit PROVE Paired OBVIOUS
  <2>1. live = Off BY DEF ProgramInit, BenchInit
  <2>2. live.routes # Both BY <2>1 DEF Off, Both
  <2> QED BY <2>2 DEF Paired, Enabled
<1>2. Typed /\ SlotInv' /\ Paired /\ [ProgramNext]_programVars => Paired'
  BY Courses, PairedSteps
<1> QED BY <1>1, <1>2, EqualTerms, ProgramTypes, PTL DEF ProgramSpec

-----------------------------------------------------------------------------
(* Sequences                                                               *)

\* Induction, one step at a time, over a set of numbers.
Climbs(G, n) == 0 \in G /\ \A i \in 1..n : i - 1 \in G => i \in G

LEMMA Upwards ==
  ASSUME NEW n \in Nat, NEW G, Climbs(G, n)
  PROVE  \A i \in 0..n : i \in G
<1> USE DEF Climbs
<1> DEFINE Bad == (0..n) \ G
<1>1. ASSUME Bad # {} PROVE FALSE
  <2>1. PICK m \in Bad : \A k \in Bad : m <= k
    <3>1. Bad \subseteq Nat OBVIOUS
    <3> HIDE DEF Bad
    <3> QED BY <1>1, <3>1, Smallest
  <2>2. m \in 1..n /\ m - 1 \in 0..n OBVIOUS
  <2>3. m - 1 \notin Bad
    <3>1. ~(m <= m - 1) BY <2>2
    <3> QED BY <2>1, <3>1
  <2> QED BY <2>2, <2>3
<1> QED BY <1>1

-----------------------------------------------------------------------------
(* Reading a sequence from its beginning: the recursive functions of the   *)
(* model, all of one shape, exist and are what their equation says.        *)

\* What one more element makes of what was made so far.
OneMore(over, about, made, x) ==
    CASE over = "where" -> IF x \in about THEN Append(made, x) ELSE made
      [] over = "total" -> made + x
      [] over = "buckets" -> NextBucket(made, x, about.width, about.kind)
      [] over = "flatten" -> made \o x
Reading(over, about, base, s, n, f) ==
    f = [i \in 0..n |-> IF i = 0 THEN base ELSE OneMore(over, about, f[i - 1], s[i])]

LEMMA ReadingIs ==
  ASSUME NEW over, NEW about, NEW base, NEW s, NEW n \in Nat, NEW f,
         Reading(over, about, base, s, n, f)
  PROVE  /\ f[0] = base
         /\ \A i \in 1..n : f[i] = OneMore(over, about, f[i - 1], s[i])
<1>1. \A i \in 0..n : f[i] = IF i = 0 THEN base ELSE OneMore(over, about, f[i - 1], s[i])
  BY DEF Reading
<1> QED BY <1>1

LEMMA ReadingExists ==
  ASSUME NEW over, NEW about, NEW base, NEW s, NEW n \in Nat
  PROVE  \E f : Reading(over, about, base, s, n, f)
<1> DEFINE G == {m \in 0..n : \E f : Reading(over, about, base, s, m, f)}
<1>1. 0 \in G
  <2> DEFINE f == [k \in 0..0 |-> base]
  <2>1. Reading(over, about, base, s, 0, f) BY DEF Reading
  <2> QED BY <2>1
<1>2. ASSUME NEW m \in 1..n, m - 1 \in G PROVE m \in G
  <2>1. PICK f : Reading(over, about, base, s, m - 1, f) BY <1>2
  <2> DEFINE g == [k \in 0..m |-> IF k = m THEN OneMore(over, about, f[m - 1], s[m]) ELSE f[k]]
  <2>2. ASSUME NEW k \in 0..m
        PROVE  g[k] = IF k = 0 THEN base ELSE OneMore(over, about, g[k - 1], s[k])
    <3>1. CASE k = m
      <4>1. g[k - 1] = f[m - 1] /\ g[k] = OneMore(over, about, f[m - 1], s[m]) BY <3>1
      <4> QED BY <3>1, <4>1
    <3>2. CASE k # m
      <4>1. k \in 0..m - 1 BY <3>2
      <4>2. f[k] = IF k = 0 THEN base ELSE OneMore(over, about, f[k - 1], s[k])
        BY <2>1, <4>1 DEF Reading
      <4>3. g[k] = f[k] BY <3>2
      <4>4. k # 0 => g[k - 1] = f[k - 1] BY <3>2, <4>1
      <4> QED BY <4>2, <4>3, <4>4
    <3> QED BY <3>1, <3>2
  <2>3. g = [k \in 0..m |-> g[k]] OBVIOUS
  <2> HIDE DEF g
  <2>4. Reading(over, about, base, s, m, g) BY <2>2, <2>3 DEF Reading
  <2> QED BY <2>4
<1> HIDE DEF G
<1>3. Climbs(G, n) BY <1>1, <1>2 DEF Climbs
<1>4. n \in G BY <1>3, Upwards
<1> QED BY <1>4 DEF G

\* The equations of Where, Total and FlattenSeq.
WhereIs(s, chosen, f) ==
    f = [i \in 0..Len(s) |-> IF i = 0 THEN <<>>
                             ELSE IF s[i] \in chosen THEN Append(f[i - 1], s[i]) ELSE f[i - 1]]
TotalIs(s, f) == f = [i \in 0..Len(s) |-> IF i = 0 THEN 0 ELSE f[i - 1] + s[i]]
FlattenIs(s, f) == f = [i \in 1..Len(s) |-> IF i = 1 THEN s[i] ELSE f[i - 1] \o s[i]]
BucketsAre(s, width, kind, f) ==
    f = [i \in 0..Len(s) |-> IF i = 0 THEN [points |-> <<>>, bucket |-> -width, rows |-> <<>>]
                             ELSE NextBucket(f[i - 1], s[i], width, kind)]

LEMMA WhereReads ==
  ASSUME NEW s, NEW chosen, Len(s) \in Nat
  PROVE  \E f : WhereIs(s, chosen, f) /\ Where(s, chosen) = f[Len(s)]
<1>1. PICK g : Reading("where", chosen, <<>>, s, Len(s), g) BY ReadingExists
<1>2. WhereIs(s, chosen, g) BY <1>1 DEF Reading, OneMore, WhereIs
<1> DEFINE f == CHOOSE h : WhereIs(s, chosen, h)
<1>3. WhereIs(s, chosen, f) BY <1>2
<1>4. Where(s, chosen) = f[Len(s)] BY DEF Where, WhereIs
<1> HIDE DEF f
<1> QED BY <1>3, <1>4

LEMMA TotalReads ==
  ASSUME NEW s, Len(s) \in Nat
  PROVE  \E f : TotalIs(s, f) /\ Total(s) = f[Len(s)]
<1>1. PICK g : Reading("total", 0, 0, s, Len(s), g) BY ReadingExists
<1>2. TotalIs(s, g) BY <1>1 DEF Reading, OneMore, TotalIs
<1> DEFINE f == CHOOSE h : TotalIs(s, h)
<1>3. TotalIs(s, f) BY <1>2
<1>4. Total(s) = f[Len(s)] BY DEF Total, TotalIs
<1> HIDE DEF f
<1> QED BY <1>3, <1>4

LEMMA BucketsRead ==
  ASSUME NEW s, Len(s) \in Nat, NEW width, NEW kind
  PROVE  \E f : BucketsAre(s, width, kind, f) /\ Buckets(s, width, kind) = Closed(f[Len(s)], kind)
<1> DEFINE about == [width |-> width, kind |-> kind]
           base == [points |-> <<>>, bucket |-> -width, rows |-> <<>>]
<1>0. about.width = width /\ about.kind = kind OBVIOUS
<1>1. PICK g : Reading("buckets", about, base, s, Len(s), g) BY ReadingExists
<1>2. BucketsAre(s, width, kind, g)
  <2> HIDE DEF about
  <2> QED BY <1>0, <1>1 DEF Reading, OneMore, BucketsAre
<1> DEFINE f == CHOOSE h : BucketsAre(s, width, kind, h)
<1>3. BucketsAre(s, width, kind, f) BY <1>2
<1>4. Buckets(s, width, kind) = Closed(f[Len(s)], kind) BY DEF Buckets, BucketsAre
<1> HIDE DEF f
<1> QED BY <1>3, <1>4

-----------------------------------------------------------------------------
(* What a filter keeps, by the places it keeps                             *)

Places(s, chosen) == {i \in DOMAIN s : s[i] \in chosen}
\* places lists the numbers of P, from the smallest to the largest.
Lists(places, m, P) ==
    /\ m \in Nat /\ P \subseteq Nat
    /\ \A k \in 1..m : places[k] \in P
    /\ \A j, k \in 1..m : j < k => places[j] < places[k]
    /\ \A p \in P : \E k \in 1..m : places[k] = p

LEMMA ListedBefore ==
  ASSUME NEW P, NEW f, NEW m, NEW g, NEW n, Lists(f, m, P), Lists(g, n, P)
  PROVE  m <= n /\ \A k \in 1..m : f[k] = g[k]
<1>0. m \in Nat /\ n \in Nat /\ P \subseteq Nat BY DEF Lists
<1> DEFINE G == {k \in 0..m : \A j \in 1..k : j <= n /\ f[j] = g[j]}
<1>1. 0 \in G BY <1>0
<1>2. ASSUME NEW k \in 1..m, k - 1 \in G PROVE k \in G
  <2>0. /\ \A j \in 1..m : f[j] \in Nat
        /\ \A j \in 1..n : g[j] \in Nat
        /\ k \in 1..m /\ k \in Nat
    <3>1. \A x \in P : x \in Nat BY <1>0
    <3>2. (\A j \in 1..m : f[j] \in P) /\ \A j \in 1..n : g[j] \in P BY DEF Lists
    <3>3. (\A j \in 1..m : f[j] \in Nat) /\ \A j \in 1..n : g[j] \in Nat BY <3>1, <3>2, Zenon
    <3>4. k \in 1..m /\ k \in Nat BY <1>0
    <3> QED BY <3>3, <3>4
  <2>1. \A j \in 1..k - 1 : j \in 1..m /\ j <= n /\ f[j] = g[j] BY <1>0, <1>2, <2>0
  <2>2. PICK i \in 1..n : g[i] = f[k] BY DEF Lists
  <2>3. i >= k
    <3> SUFFICES ASSUME i < k PROVE FALSE BY <1>0, <2>0
    <3>1. i \in 1..k - 1 /\ i \in 1..m BY <1>0, <2>0
    <3>2. f[i] = g[i] BY <2>1, <3>1
    <3>3. f[i] < f[k] BY <3>1 DEF Lists
    <3> QED BY <2>0, <2>2, <3>1, <3>2, <3>3
  <2>4. k \in 1..n BY <1>0, <2>0, <2>3
  <2>5. PICK i2 \in 1..m : f[i2] = g[k] BY <2>4 DEF Lists
  <2>6. i2 >= k
    <3> SUFFICES ASSUME i2 < k PROVE FALSE BY <1>0, <2>0
    <3>1. i2 \in 1..k - 1 /\ i2 \in 1..n BY <1>0, <2>0, <2>4
    <3>2. f[i2] = g[i2] BY <2>1, <3>1
    <3>3. g[i2] < g[k] BY <2>4, <3>1 DEF Lists
    <3> QED BY <2>0, <2>4, <2>5, <3>2, <3>3
  <2>7. g[k] <= g[i]
    <3>1. CASE i = k BY <3>1, <2>0, <2>4
    <3>2. CASE i # k
      <4>1. k < i BY <1>0, <2>0, <3>2, <2>3
      <4>2. g[k] < g[i] BY <4>1, <2>4 DEF Lists
      <4> QED BY <4>2, <2>0, <2>4
    <3> QED BY <3>1, <3>2
  <2>8. f[k] <= f[i2]
    <3>1. CASE i2 = k BY <3>1, <2>0
    <3>2. CASE i2 # k
      <4>1. k < i2 BY <1>0, <2>0, <3>2, <2>6
      <4>2. f[k] < f[i2] BY <4>1 DEF Lists
      <4> QED BY <4>2, <2>0
    <3> QED BY <3>1, <3>2
  <2>9. f[k] = g[k] BY <2>0, <2>2, <2>4, <2>5, <2>7, <2>8
  <2>10. ASSUME NEW j \in 1..k PROVE j <= n /\ f[j] = g[j]
    <3>1. j = k \/ j \in 1..k - 1 BY <2>0
    <3> QED BY <3>1, <2>1, <2>4, <2>9, <1>0
  <2> QED BY <2>10, <2>0
<1> HIDE DEF G
<1>c. Climbs(G, m) BY <1>1, <1>2 DEF Climbs
<1>3. m \in G BY <1>0, <1>c, Upwards
<1>4. \A j \in 1..m : j <= n /\ f[j] = g[j] BY <1>3 DEF G
<1>5. m <= n
  <2>1. m = 0 \/ m \in 1..m BY <1>0
  <2> QED BY <1>0, <1>4, <2>1
<1> QED BY <1>4, <1>5

\* There is one list of a set of numbers.
LEMMA ListedOnce ==
  ASSUME NEW P, NEW f, NEW m, NEW g, NEW n, Lists(f, m, P), Lists(g, n, P)
  PROVE  m = n /\ \A k \in 1..m : f[k] = g[k]
<1>1. m <= n /\ \A k \in 1..m : f[k] = g[k] BY ListedBefore
<1>2. n <= m BY ListedBefore
<1>3. m \in Nat /\ n \in Nat BY DEF Lists
<1> QED BY <1>1, <1>2, <1>3

\* w is what is at the places of the chosen, in their order.
Picks(s, chosen, w, places) ==
    /\ Lists(places, Len(w), Places(s, chosen))
    /\ \A k \in 1..Len(w) : w[k] = s[places[k]]

\* A filter keeps what is at the places of the chosen, and keeps their order.
LEMMA WherePicks ==
  ASSUME NEW T, NEW s \in Seq(T), NEW chosen
  PROVE  /\ Where(s, chosen) \in Seq(T)
         /\ \E places : Picks(s, chosen, Where(s, chosen), places)
<1>0. Len(s) \in Nat /\ DOMAIN s = 1..Len(s) /\ \A i \in 1..Len(s) : s[i] \in T BY LenProperties
<1>a. PICK f : WhereIs(s, chosen, f) /\ Where(s, chosen) = f[Len(s)] BY <1>0, WhereReads
<1>1. /\ Where(s, chosen) = f[Len(s)]
      /\ f[0] = <<>>
      /\ \A i \in 1..Len(s) : f[i] = IF s[i] \in chosen THEN Append(f[i - 1], s[i]) ELSE f[i - 1]
  <2>1. \A i \in 0..Len(s) : f[i] = IF i = 0 THEN <<>>
                             ELSE IF s[i] \in chosen THEN Append(f[i - 1], s[i]) ELSE f[i - 1]
    BY <1>a DEF WhereIs
  <2> QED BY <1>0, <1>a, <2>1
<1> DEFINE Upto(i) == {j \in 1..i : s[j] \in chosen}
           Fine(i, places) == /\ Lists(places, Len(f[i]), Upto(i))
                              /\ \A k \in 1..Len(f[i]) : f[i][k] = s[places[k]]
           G == {i \in 0..Len(s) : f[i] \in Seq(T) /\ \E places : Fine(i, places)}
<1>2. 0 \in G
  <2>1. f[0] \in Seq(T) /\ Len(f[0]) = 0 BY <1>1
  <2>2. Upto(0) = {} OBVIOUS
  <2>3. Fine(0, <<>>) BY <2>1, <2>2 DEF Lists
  <2> QED BY <2>1, <2>3, <1>0
<1>3. ASSUME NEW i \in 1..Len(s), i - 1 \in G PROVE i \in G
  <2>1. f[i - 1] \in Seq(T) /\ i \in 0..Len(s) BY <1>3
  <2>2. PICK places : Fine(i - 1, places) BY <1>3
  <2> DEFINE m == Len(f[i - 1])
  <2>3. m \in Nat /\ \A k \in 1..m : places[k] \in 1..i - 1 /\ s[places[k]] \in chosen
    BY <2>1, <2>2, LenProperties DEF Lists
  <2>4. CASE s[i] \notin chosen
    <3>1. f[i] = f[i - 1] BY <1>1, <2>4
    <3>2. Upto(i) = Upto(i - 1) BY <2>4
    <3>3. Fine(i, places) BY <2>2, <3>1, <3>2
    <3> QED BY <2>1, <3>1, <3>3
  <2>5. CASE s[i] \in chosen
    <3> DEFINE more == [k \in 1..m + 1 |-> IF k = m + 1 THEN i ELSE places[k]]
    <3>1. f[i] = Append(f[i - 1], s[i]) BY <1>1, <2>5
    <3>2. /\ f[i] \in Seq(T) /\ Len(f[i]) = m + 1 /\ f[i][m + 1] = s[i]
          /\ \A k \in 1..m : f[i][k] = f[i - 1][k]
      BY <2>1, <1>0, <3>1, AppendProperties
    <3>3. Upto(i) = Upto(i - 1) \cup {i} BY <2>5
    <3>4. \A k \in 1..m : more[k] = places[k] BY <2>3
    <3>5. more[m + 1] = i BY <2>3
    <3> HIDE DEF more, m
    <3>6. Lists(more, m + 1, Upto(i))
      <4>1. ASSUME NEW k \in 1..m + 1 PROVE more[k] \in Upto(i)
        <5>1. k = m + 1 \/ k \in 1..m BY <2>3
        <5> QED BY <5>1, <2>3, <2>5, <3>4, <3>5
      <4>2. ASSUME NEW j \in 1..m + 1, NEW k \in 1..m + 1, j < k PROVE more[j] < more[k]
        <5>1. j \in 1..m BY <2>3, <4>2
        <5>2. CASE k = m + 1 BY <5>1, <5>2, <2>3, <3>4, <3>5
        <5>3. CASE k # m + 1
          <6>1. k \in 1..m BY <5>3, <2>3
          <6>2. places[j] < places[k] BY <5>1, <6>1, <4>2, <2>2 DEF Lists, m
          <6> QED BY <5>1, <6>1, <6>2, <3>4
        <5> QED BY <5>2, <5>3
      <4>3. ASSUME NEW p \in Upto(i) PROVE \E k \in 1..m + 1 : more[k] = p
        <5>1. CASE p = i BY <5>1, <3>5, <2>3
        <5>2. CASE p # i
          <6>1. p \in Upto(i - 1) BY <5>2, <3>3
          <6>2. PICK k \in 1..m : places[k] = p BY <6>1, <2>2 DEF Lists, m
          <6> QED BY <6>2, <3>4, <2>3
        <5> QED BY <5>1, <5>2
      <4>4. m + 1 \in Nat /\ Upto(i) \subseteq Nat BY <2>3
      <4> HIDE DEF Upto
      <4> QED BY <4>1, <4>2, <4>3, <4>4 DEF Lists
    <3>7. ASSUME NEW k \in 1..m + 1 PROVE f[i][k] = s[more[k]]
      <4>1. CASE k = m + 1 BY <4>1, <3>2, <3>5
      <4>2. CASE k # m + 1
        <5>1. k \in 1..m BY <4>2, <2>3
        <5>2. f[i - 1][k] = s[places[k]] BY <5>1, <2>2 DEF m
        <5> QED BY <5>1, <5>2, <3>2, <3>4
      <4> QED BY <4>1, <4>2
    <3>8. Fine(i, more) BY <3>2, <3>6, <3>7
    <3> QED BY <3>2, <3>8, <2>1
  <2> QED BY <2>4, <2>5
<1>4. Len(s) \in G
  <2>1. Len(s) \in Nat BY <1>0
  <2> HIDE DEF G
  <2>2. Climbs(G, Len(s)) BY <1>2, <1>3 DEF Climbs
  <2> QED BY <2>1, <2>2, Upwards
<1>5. Upto(Len(s)) = Places(s, chosen) BY <1>0 DEF Places
<1>6. PICK places : Fine(Len(s), places) BY <1>4
<1>7. Picks(s, chosen, Where(s, chosen), places) BY <1>1, <1>5, <1>6 DEF Picks
<1> QED BY <1>1, <1>4, <1>7

LEMMA WhereRange ==
  ASSUME NEW T, NEW s \in Seq(T), NEW chosen
  PROVE  Range(Where(s, chosen)) = Range(s) \cap chosen
<1> DEFINE w == Where(s, chosen)
<1>1. w \in Seq(T) BY WherePicks
<1>a. PICK places : Picks(s, chosen, w, places) BY WherePicks
<1>2. /\ Lists(places, Len(w), Places(s, chosen))
      /\ \A k \in 1..Len(w) : w[k] = s[places[k]]
  BY <1>a DEF Picks
<1> HIDE DEF w
<1>3. DOMAIN w = 1..Len(w) BY <1>1, LenProperties
<1>4. ASSUME NEW x \in Range(w) PROVE x \in Range(s) \cap chosen
  <2>1. PICK k \in 1..Len(w) : x = w[k] BY <1>3 DEF Range
  <2>2. places[k] \in Places(s, chosen) /\ x = s[places[k]] BY <2>1, <1>2 DEF Lists
  <2> QED BY <2>2 DEF Places, Range
<1>5. ASSUME NEW x \in Range(s), x \in chosen PROVE x \in Range(w)
  <2>1. PICK p \in Places(s, chosen) : x = s[p] BY <1>5 DEF Range, Places
  <2>2. PICK k \in 1..Len(w) : places[k] = p BY <2>1, <1>2 DEF Lists
  <2> QED BY <2>1, <2>2, <1>2, <1>3 DEF Range
<1> QED BY <1>4, <1>5 DEF w

\* Two filters that keep the same at the same places keep the same.
LEMMA WhereSame ==
  ASSUME NEW T, NEW s \in Seq(T), NEW t \in Seq(T), NEW A, NEW B,
         Places(s, A) = Places(t, B), \A i \in Places(s, A) : s[i] = t[i]
  PROVE  Where(s, A) = Where(t, B)
<1> DEFINE w == Where(s, A)
           v == Where(t, B)
<1>1. w \in Seq(T) /\ v \in Seq(T) BY WherePicks
<1>a. PICK f : Picks(s, A, w, f) BY WherePicks
<1>b. PICK g : Picks(t, B, v, g) BY WherePicks
<1>2. Lists(f, Len(w), Places(s, A)) /\ \A k \in 1..Len(w) : w[k] = s[f[k]] BY <1>a DEF Picks
<1>3. Lists(g, Len(v), Places(t, B)) /\ \A k \in 1..Len(v) : v[k] = t[g[k]] BY <1>b DEF Picks
<1> HIDE DEF w, v
<1>4. Len(w) \in Nat /\ Len(v) \in Nat /\ Places(s, A) \subseteq Nat
  BY <1>1, LenProperties DEF Places
<1>5. Len(w) = Len(v) /\ \A k \in 1..Len(w) : f[k] = g[k]
  <2>1. Lists(f, Len(w), Places(s, A)) /\ Lists(g, Len(v), Places(s, A)) BY <1>2, <1>3
  <2> QED BY <2>1, ListedOnce
<1>6. ASSUME NEW k \in 1..Len(w) PROVE w[k] = v[k]
  <2>1. w[k] = s[f[k]] /\ f[k] \in Places(s, A) BY <1>2 DEF Lists
  <2>2. v[k] = t[f[k]] BY <1>3, <1>5
  <2> QED BY <2>1, <2>2
<1>7. w = v BY <1>1, <1>5, <1>6, SeqEqual
<1> QED BY <1>7 DEF w, v

\* A filter of what a filter kept is one filter.
LEMMA WhereTwice ==
  ASSUME NEW T, NEW s \in Seq(T), NEW A, NEW B
  PROVE  Where(Where(s, A), B) = Where(s, A \cap B)
<1> DEFINE w == Where(s, A)
           v == Where(w, B)
           u == Where(s, A \cap B)
<1>1. w \in Seq(T) /\ u \in Seq(T) BY WherePicks
<1>2. v \in Seq(T) BY <1>1, WherePicks
<1>a. PICK f : Picks(s, A, w, f) BY WherePicks
<1>b. PICK g : Picks(w, B, v, g)
  <2> HIDE DEF w
  <2> QED BY <1>1, WherePicks
<1>c. PICK h : Picks(s, A \cap B, u, h) BY WherePicks
<1>3. Lists(f, Len(w), Places(s, A)) /\ \A k \in 1..Len(w) : w[k] = s[f[k]] BY <1>a DEF Picks
<1>4. Lists(g, Len(v), Places(w, B)) /\ \A k \in 1..Len(v) : v[k] = w[g[k]] BY <1>b DEF Picks
<1>5. Lists(h, Len(u), Places(s, A \cap B)) /\ \A k \in 1..Len(u) : u[k] = s[h[k]]
  BY <1>c DEF Picks
<1> HIDE DEF w, v, u
<1>6. /\ Len(w) \in Nat /\ Len(v) \in Nat /\ Len(u) \in Nat /\ DOMAIN w = 1..Len(w)
      /\ Places(s, A \cap B) \subseteq Nat
  BY <1>1, <1>2, LenProperties DEF Places
<1> DEFINE fg == [k \in 1..Len(v) |-> f[g[k]]]
<1>7. \A k \in 1..Len(v) : g[k] \in 1..Len(w) /\ w[g[k]] \in B BY <1>4, <1>6 DEF Lists, Places
<1>8. Lists(fg, Len(v), Places(s, A \cap B))
  <2>1. ASSUME NEW k \in 1..Len(v) PROVE fg[k] \in Places(s, A \cap B)
    <3>1. f[g[k]] \in Places(s, A) /\ s[f[g[k]]] = w[g[k]] BY <1>3, <1>7 DEF Lists
    <3> QED BY <3>1, <1>7 DEF Places
  <2>2. ASSUME NEW j \in 1..Len(v), NEW k \in 1..Len(v), j < k PROVE fg[j] < fg[k]
    <3>1. g[j] < g[k] BY <2>2, <1>4 DEF Lists
    <3> QED BY <3>1, <1>3, <1>7 DEF Lists
  <2>3. ASSUME NEW p \in Places(s, A \cap B) PROVE \E k \in 1..Len(v) : fg[k] = p
    <3>1. p \in Places(s, A) /\ s[p] \in B BY DEF Places
    <3>2. PICK i \in 1..Len(w) : f[i] = p BY <3>1, <1>3 DEF Lists
    <3>3. i \in Places(w, B) BY <3>1, <3>2, <1>3, <1>6 DEF Places
    <3>4. PICK k \in 1..Len(v) : g[k] = i BY <3>3, <1>4 DEF Lists
    <3> QED BY <3>2, <3>4
  <2> HIDE DEF fg
  <2> QED BY <2>1, <2>2, <2>3, <1>6 DEF Lists
<1>9. \A k \in 1..Len(v) : v[k] = s[fg[k]] BY <1>3, <1>4, <1>7
<1> HIDE DEF fg
<1>10. Len(v) = Len(u) /\ \A k \in 1..Len(v) : fg[k] = h[k] 
  <2>1. Lists(h, Len(u), Places(s, A \cap B)) BY <1>5
  <2> QED BY <1>8, <2>1, ListedOnce
<1>11. \A k \in 1..Len(v) : v[k] = u[k] BY <1>5, <1>9, <1>10
<1>12. v = u BY <1>1, <1>2, <1>10, <1>11, SeqEqual
<1> QED BY <1>12 DEF v, u, w

-----------------------------------------------------------------------------
(* What a page was told is what its question comes to                      *)

\* The answers of three handlers, of a request and the scene it is made in.
SaidOnCompare(q, body) ==
    body = UNION {Compared(c.baseline, c.candidate) : c \in q.body.content} /\ body # {}
SaidOnVerdicts(body) == body = {TodayAgainstBaseline(S.store, S.zone, S.now, WindowDays)}
SaidOnSeries(q, body) ==
    LET told == SeriesAnswer(q.query, S.store, S.now) IN told.code = 200 /\ body = told.body

ToldRightly ==
    /\ Answered("compare") => SaidOnCompare(Asked, answer.body)
    /\ Answered("verdicts") => SaidOnVerdicts(answer.body)
    /\ Answered("series") => SaidOnSeries(Asked, answer.body)

LEMMA OnlyRead ==
  ASSUME Handler, NEW path \in {"compare", "verdicts", "series"}, Answered(path)'
  PROVE  /\ Read /\ Route(R) = path /\ Asked' = R
         /\ ReadAnswer.code = 200 /\ answer'.body = ReadAnswer.body
<1>0. Asked' = R BY Handled, Question
<1>1. R.path = path /\ answer'.code = 200 BY <1>0 DEF Answered
<1>2. Route(R) \in {path, "405"} BY <1>1 DEF Route, Documents, Scripts, ReadPaths, WritePaths
<1>3. ~(Refuse \/ NoDatabase \/ Unrouted) BY <1>1, TurnedAway
<1>4. ~Asset /\ ~Annotate /\ ~Start /\ ~Cancel /\ ~Poll
  BY <1>2 DEF Asset, Annotate, Start, Cancel, Poll
<1>5. Read BY <1>3, <1>4 DEF Handler
<1>6. Route(R) = path BY <1>2, <1>5 DEF Read, Reads
<1>7. answer'.code = ReadAnswer.code /\ answer'.body = ReadAnswer.body BY <1>5 DEF Read, Answers
<1> QED BY <1>0, <1>1, <1>5, <1>6, <1>7

LEMMA ToldSteps == ToldRightly /\ [Next]_vars => ToldRightly'
<1> SUFFICES ASSUME ToldRightly, [Next]_vars PROVE ToldRightly' OBVIOUS
<1>1. CASE Handler
  <2>0. S' = S /\ Asked' = R BY <1>1, Handled, Question
  <2>1. ASSUME Answered("compare")' PROVE SaidOnCompare(Asked, answer.body)'
    <3>1. Route(R) = "compare" /\ ReadAnswer.code = 200 /\ answer'.body = ReadAnswer.body
      BY <1>1, <2>1, OnlyRead
    <3>2. ReadAnswer = CompareAnswer BY <3>1 DEF ReadAnswer
    <3> DEFINE found == UNION {Compared(c.baseline, c.candidate) : c \in R.body.content}
    <3>3. found # {} /\ answer'.body = found
      <4>1. found = {} => CompareAnswer = Refused(400) BY DEF CompareAnswer
      <4>2. found # {} => CompareAnswer = [code |-> 200, body |-> found] BY DEF CompareAnswer
      <4>3. Refused(400).code = 400 BY DEF Refused
      <4> HIDE DEF found
      <4> QED BY <3>1, <3>2, <4>1, <4>2, <4>3
    <3> HIDE DEF found
    <3> QED BY <2>0, <3>3 DEF SaidOnCompare, found
  <2>2. ASSUME Answered("verdicts")' PROVE SaidOnVerdicts(answer.body)'
    <3>1. Route(R) = "verdicts" /\ answer'.body = ReadAnswer.body BY <1>1, <2>2, OnlyRead
    <3>2. ReadAnswer = Ok(TodayAgainstBaseline(S.store, S.zone, S.now, WindowDays))
      BY <3>1 DEF ReadAnswer
    <3>3. answer'.body = {TodayAgainstBaseline(S.store, S.zone, S.now, WindowDays)}
      BY <3>1, <3>2 DEF Ok
    <3> QED BY <2>0, <3>3 DEF SaidOnVerdicts
  <2>3. ASSUME Answered("series")' PROVE SaidOnSeries(Asked, answer.body)'
    <3>1. Route(R) = "series" /\ ReadAnswer.code = 200 /\ answer'.body = ReadAnswer.body
      BY <1>1, <2>3, OnlyRead
    <3>2. ReadAnswer = SeriesAnswer(R.query, S.store, S.now) BY <3>1 DEF ReadAnswer
    <3> QED BY <2>0, <3>1, <3>2 DEF SaidOnSeries
  <2> QED BY <2>1, <2>2, <2>3 DEF ToldRightly
<1>2. ASSUME answer' = answer, scene' = scene PROVE ToldRightly'
  <2>1. S' = S /\ Asked' = Asked BY <1>2 DEF Asked, S
  <2> QED BY <1>2, <2>1 DEF ToldRightly, Answered, SaidOnCompare, SaidOnVerdicts, SaidOnSeries
<1>3. ASSUME answer'.to = {} PROVE ToldRightly' BY <1>3 DEF ToldRightly, Answered
<1>4. CASE Beside
  <2>1. scene' = scene
    BY <1>4 DEF Beside, Accept, WaitPasses, AcceptFails, SeesShutdown, BodyEnds, RunsShutdown,
       Stops, Signal, Upgrade, Tick, Sample, WriterStops, Aside
  <2> QED BY <1>2, <1>3, <1>4, <2>1, AroundAnswers
<1>5. CASE Childs BY <1>2, <1>5, ChildsKeep
<1>6. CASE UNCHANGED vars BY <1>2, <1>6 DEF vars
<1> QED BY <1>1, <1>4, <1>5, <1>6, Steps

\* What a page was told of a comparison, the verdicts or a series is what the code makes of its
\* request, the store and the instant.
LEMMA ToldIsRight == Spec => []ToldRightly
<1>1. Init => ToldRightly BY DEF Init, NoAnswer, ToldRightly, Answered
<1> QED BY <1>1, ToldSteps, PTL DEF Spec

\* What is asked is one of the requests of the scene.
InScene == /\ scene \in DOMAIN Scenes
           /\ hand \subseteq DOMAIN S.requests
           /\ answer.to \subseteq DOMAIN S.requests

LEMMA StaysInScene == Spec => []InScene
<1>1. Init => InScene BY DEF Init, NoAnswer, InScene
<1>2. InScene /\ [Next]_vars => InScene'
  <2> SUFFICES ASSUME InScene, [Next]_vars PROVE InScene' OBVIOUS
  <2>1. CASE Handler
    <3>1. hand' = {} /\ answer'.to = hand /\ scene' = scene BY <2>1, Handled, Replied
    <3> QED BY <3>1 DEF InScene, S
  <2>2. CASE Accept
    <3>1. scene' = scene /\ answer' = NoAnswer /\ hand' \in {{i} : i \in DOMAIN S.requests}
      BY <2>2 DEF Accept
    <3>2. NoAnswer.to = {} BY DEF NoAnswer
    <3> QED BY <3>1, <3>2 DEF InScene, S
  <2>3. CASE Upgrade
    <3>1. scene' = scene /\ answer' = NoAnswer /\ hand' = {} BY <2>3 DEF Upgrade
    <3>2. NoAnswer.to = {} BY DEF NoAnswer
    <3> QED BY <3>1, <3>2 DEF InScene, S
  <2>4. CASE Beside /\ ~Accept /\ ~Upgrade
    <3>1. UNCHANGED <<scene, hand, answer>>
      BY <2>4 DEF Beside, WaitPasses, AcceptFails, SeesShutdown, BodyEnds, RunsShutdown, Stops,
         Signal, Tick, Sample, WriterStops, Aside, requestVars
    <3> QED BY <3>1 DEF InScene, S
  <2>5. CASE Childs
    <3>1. UNCHANGED <<scene, hand, answer>> BY <2>5, ChildsKeep
    <3> QED BY <3>1 DEF InScene, S
  <2>6. CASE UNCHANGED vars BY <2>6 DEF vars, InScene, S
  <2> QED BY <2>1, <2>2, <2>3, <2>4, <2>5, <2>6, Steps
<1> QED BY <1>1, <1>2, PTL DEF Spec

LEMMA AskedIsThere ==
  ASSUME InScene, answer.to # {}
  PROVE  \E k \in DOMAIN S.requests : Asked = S.requests[k]
  BY DEF InScene, Asked

-----------------------------------------------------------------------------
(* Two reports, compared both ways                                         *)

Measurement == [name : STRING, value : Nat, lower : BOOLEAN]

LEMMA LastMeasured ==
  ASSUME NEW report, report.metrics \in Seq(Measurement), NEW name, Measured(report, name) # <<>>
  PROVE  LET x == Measured(report, name)[Len(Measured(report, name))]
         IN  x \in Range(report.metrics) /\ x.name = name
<1> DEFINE chosen == {x \in Range(report.metrics) : x.name = name}
           w == Measured(report, name)
<1>1. w = Where(report.metrics, chosen) BY DEF Measured
<1>2. w \in Seq(Measurement) BY <1>1, WherePicks
<1>3. Range(w) = Range(report.metrics) \cap chosen BY <1>1, WhereRange
<1>4. w # <<>> OBVIOUS
<1> HIDE DEF w
<1>5. Len(w) \in 1..Len(w) /\ DOMAIN w = 1..Len(w) BY <1>2, <1>4, EmptySeq, LenProperties
<1>6. w[Len(w)] \in Range(w) BY <1>5 DEF Range
<1> QED BY <1>3, <1>6 DEF w

\* A difference is between what one report and what the other measured of a name.
Measures(d, x, y) == /\ x.name = d.name /\ y.name = d.name
                     /\ d.interpretation = Interpretation(y, ChangeFrom(x.value, y.value))

LEMMA DeltasAre ==
  ASSUME NEW a, NEW b, a.metrics \in Seq(Measurement), b.metrics \in Seq(Measurement),
         NEW d \in Range(MetricDeltas(a, b))
  PROVE  \E x \in Range(a.metrics), y \in Range(b.metrics) : Measures(d, x, y)
<1> DEFINE chosen == {x \in Range(b.metrics) : Measured(a, x.name) # <<>>}
           both == Where(b.metrics, chosen)
           base(x) == Measured(a, x.name)[Len(Measured(a, x.name))]
           change(x) == ChangeFrom(base(x).value, x.value)
<1>1. both \in Seq(Measurement) BY WherePicks
<1>2. Range(both) = Range(b.metrics) \cap chosen BY WhereRange
<1>3. MetricDeltas(a, b) = [i \in 1..Len(both) |->
                              [name |-> both[i].name, change |-> change(both[i]),
                               interpretation |-> Interpretation(both[i], change(both[i]))]]
  BY DEF MetricDeltas
<1> HIDE DEF both
<1>4. PICK i \in 1..Len(both) : d = [name |-> both[i].name, change |-> change(both[i]),
                               interpretation |-> Interpretation(both[i], change(both[i]))]
  BY <1>3 DEF Range
<1> DEFINE y == both[i]
<1>5. y \in Range(both)
  <2>1. DOMAIN both = 1..Len(both) BY <1>1, LenProperties
  <2> QED BY <2>1 DEF Range
<1>6. y \in Range(b.metrics) /\ Measured(a, y.name) # <<>> BY <1>2, <1>5
<1> HIDE DEF y
<1>7. base(y) \in Range(a.metrics) /\ base(y).name = y.name BY <1>6, LastMeasured
<1>8. d.name = y.name /\ d.interpretation = Interpretation(y, change(y)) BY <1>4 DEF y
<1> HIDE DEF base
<1>9. Measures(d, base(y), y) BY <1>7, <1>8 DEF Measures
<1> QED BY <1>6, <1>7, <1>9

\* A change to a larger value is none back, and the other way around.
LEMMA ChangesBack ==
  ASSUME NEW u \in Nat, NEW v \in Nat
  PROVE  /\ ChangeFrom(u, v) \in Int
         /\ ChangeFrom(u, v) > 0 => u < v
         /\ ChangeFrom(u, v) < 0 => v < u
<1>1. CASE u = 0 BY <1>1 DEF ChangeFrom
<1>2. CASE u # 0
  <2> DEFINE part == (1000 * Abs(v - u)) \div u
  <2>1. Abs(v - u) \in Nat BY DEF Abs
  <2>2. 1000 * Abs(v - u) \in Nat BY <2>1
  <2>3. part \in Nat BY <1>2, <2>2
  <2>4. u = v => part = 0 BY <1>2 DEF Abs
  <2>5. ChangeFrom(u, v) = (IF v < u THEN -1 ELSE 1) * part BY <1>2 DEF ChangeFrom
  <2> HIDE DEF part
  <2> QED BY <2>3, <2>4, <2>5
<1> QED BY <1>1, <1>2

\* A word of praise or blame needs a change in the direction it names.
LEMMA Words ==
  ASSUME NEW metric, metric.lower \in BOOLEAN, NEW change \in Int
  PROVE  /\ Interpretation(metric, change) = "improvement"
            => IF metric.lower THEN change < 0 ELSE change > 0
         /\ Interpretation(metric, change) = "regression"
            => IF metric.lower THEN change > 0 ELSE change < 0
<1> DEFINE signed == IF metric.lower THEN -change ELSE change
<1>1. Interpretation(metric, change) =
        IF metric.name \in Informational THEN "informational"
        ELSE CASE signed > 100 -> "improvement"
               [] signed < -100 -> "regression"
               [] OTHER -> "similar"
  BY DEF Interpretation, REGRESSION_THRESHOLD
<1>2. signed \in Int OBVIOUS
<1> HIDE DEF signed
<1>3. /\ Interpretation(metric, change) = "improvement" => signed > 100
      /\ Interpretation(metric, change) = "regression" => signed < -100
  <2>1. CASE metric.name \in Informational
    <3>1. Interpretation(metric, change) = "informational" BY <1>1, <2>1
    <3> QED BY ONLY <3>1
  <2>2. CASE metric.name \notin Informational
    <3>1. signed > 100 => Interpretation(metric, change) = "improvement"
      BY <1>1, <1>2, <2>2
    <3>2. signed < -100 => Interpretation(metric, change) = "regression"
      BY <1>1, <1>2, <2>2
    <3>3. ~(signed > 100) /\ ~(signed < -100) => Interpretation(metric, change) = "similar"
      BY <1>1, <1>2, <2>2
    <3> QED BY ONLY <3>1, <3>2, <3>3, <1>2
  <2> QED BY <2>1, <2>2
<1>4. CASE metric.lower
  <2>1. signed = -change BY <1>4 DEF signed
  <2> QED BY <1>2, <1>3, <1>4, <2>1
<1>5. CASE ~metric.lower
  <2>1. signed = change BY <1>5 DEF signed
  <2> QED BY <1>2, <1>3, <1>5, <2>1
<1> QED BY <1>4, <1>5

LEMMA NotBothWays ==
  ASSUME NEW x \in Measurement, NEW y \in Measurement, x.name = y.name, x.lower = y.lower
  PROVE  \A word \in {"improvement", "regression"} :
             ~(/\ Interpretation(y, ChangeFrom(x.value, y.value)) = word
               /\ Interpretation(x, ChangeFrom(y.value, x.value)) = word)
<1> DEFINE u == x.value
           v == y.value
           c == ChangeFrom(u, v)
           e == ChangeFrom(v, u)
<1>1. u \in Nat /\ v \in Nat /\ x.lower \in BOOLEAN /\ y.lower \in BOOLEAN BY DEF Measurement
<1> HIDE DEF u, v
<1>2. /\ c \in Int /\ e \in Int
      /\ c > 0 => u < v
      /\ c < 0 => v < u
      /\ e > 0 => v < u
      /\ e < 0 => u < v
  BY <1>1, ChangesBack
<1> HIDE DEF c, e
<1>3. ~(c > 0 /\ e > 0) /\ ~(c < 0 /\ e < 0) BY ONLY <1>1, <1>2
<1>4. /\ Interpretation(y, c) = "improvement" => IF y.lower THEN c < 0 ELSE c > 0
      /\ Interpretation(y, c) = "regression" => IF y.lower THEN c > 0 ELSE c < 0
  BY <1>1, <1>2, Words
<1>5. /\ Interpretation(x, e) = "improvement" => IF x.lower THEN e < 0 ELSE e > 0
      /\ Interpretation(x, e) = "regression" => IF x.lower THEN e > 0 ELSE e < 0
  BY <1>1, <1>2, Words
<1>6. \A word \in {"improvement", "regression"} : ~(Interpretation(y, c) = word /\ Interpretation(x, e) = word)
  BY <1>3, <1>4, <1>5
<1> QED BY <1>6 DEF c, e, u, v

\* Told is a comparison and back the one of the two reports exchanged.
OneWay(told, back) ==
    /\ back.environment = told.environment
    /\ DOMAIN back.profiles = DOMAIN told.profiles
    /\ \A d \in Range(told.metrics), e \in Range(back.metrics) :
          d.name = e.name => /\ {d.interpretation, e.interpretation} # {"improvement"}
                             /\ {d.interpretation, e.interpretation} # {"regression"}

LEMMA ComparedBothWays ==
  ASSUME NEW a, NEW b, AreReports(a, b), NEW told \in Compared(a, b)
  PROVE  \E back \in Compared(b, a) : OneWay(told, back)
<1> DEFINE back == [environment |-> Differences(b, a), metrics |-> MetricDeltas(b, a),
                    profiles |-> ProfileDeltas(b, a)]
<1>1. Supported(a) /\ Supported(b) /\ AreComparable(a, b) BY DEF Compared
<1>2. told = [environment |-> Differences(a, b), metrics |-> MetricDeltas(a, b),
              profiles |-> ProfileDeltas(a, b)]
  BY <1>1 DEF Compared
<1>3. back \in Compared(b, a)
  <2>1. AreComparable(b, a) BY <1>1 DEF AreComparable
  <2> QED BY <1>1, <2>1 DEF Compared
<1>4. back.environment = told.environment BY <1>2 DEF Differences
<1>5. DOMAIN back.profiles = DOMAIN told.profiles BY <1>2 DEF ProfileDeltas
<1>6. a.metrics \in Seq(Measurement) /\ b.metrics \in Seq(Measurement)
  BY DEF AreReports, Measurement
<1>7. ASSUME NEW d \in Range(told.metrics), NEW e \in Range(back.metrics), d.name = e.name
      PROVE  /\ {d.interpretation, e.interpretation} # {"improvement"}
             /\ {d.interpretation, e.interpretation} # {"regression"}
  <2>1. PICK x \in Range(a.metrics), y \in Range(b.metrics) : Measures(d, x, y)
    <3>1. d \in Range(MetricDeltas(a, b)) BY <1>2
    <3> QED BY <1>6, <3>1, DeltasAre
  <2>2. PICK y2 \in Range(b.metrics), x2 \in Range(a.metrics) : Measures(e, y2, x2)
    <3>1. e \in Range(MetricDeltas(b, a)) OBVIOUS
    <3> QED BY <1>6, <3>1, DeltasAre
  <2>3. x.name = y.name /\ x2.name = x.name /\ y2.name = y.name BY <1>7, <2>1, <2>2 DEF Measures
  <2>4. ASSUME NEW r \in {a, b}, NEW u \in Range(r.metrics), NEW v \in Range(r.metrics), u.name = v.name
        PROVE  u = v
    <3>1. PICK i \in DOMAIN r.metrics : u = r.metrics[i] BY DEF Range
    <3>2. PICK j \in DOMAIN r.metrics : v = r.metrics[j] BY DEF Range
    <3>3. i = j BY <2>4, <3>1, <3>2 DEF AreReports
    <3> QED BY <3>1, <3>2, <3>3
  <2>5. x2 = x /\ y2 = y BY <2>3, <2>4
  <2>6. x.lower = y.lower BY <2>3 DEF AreReports
  <2>7. x \in Measurement /\ y \in Measurement
    <3>1. PICK i \in DOMAIN a.metrics : x = a.metrics[i] BY DEF Range
    <3>2. PICK j \in DOMAIN b.metrics : y = b.metrics[j] BY DEF Range
    <3> QED BY <1>6, <3>1, <3>2, LenProperties
  <2>8. /\ d.interpretation = Interpretation(y, ChangeFrom(x.value, y.value))
        /\ e.interpretation = Interpretation(x, ChangeFrom(y.value, x.value))
    BY <2>1, <2>2, <2>5 DEF Measures
  <2>9. \A word \in {"improvement", "regression"} : ~(d.interpretation = word /\ e.interpretation = word)
    BY <2>3, <2>6, <2>7, <2>8, NotBothWays
  <2> QED BY <2>9
<1> HIDE DEF back
<1>8. OneWay(told, back) BY <1>4, <1>5, <1>7 DEF OneWay
<1> QED BY <1>3, <1>8

\* Whatever two reports a page compares, exchanging them never leaves a metric better both ways
\* or worse both ways, and gives the same cases and differences.
THEOREM ComparisonIsOriented == Spec => []Oriented
<1>1. InScene /\ ToldRightly => Oriented
  <2> SUFFICES ASSUME InScene, ToldRightly, Answered("compare"), NEW c \in Asked.body.content
               PROVE  \E back \in Compared(c.candidate, c.baseline) : OneWay(Told, back)
    BY DEF Oriented, OneWay
  <2>1. PICK k \in DOMAIN S.requests : Asked = S.requests[k] BY AskedIsThere DEF Answered
  <2>2. \A e \in Asked.body.content : c = e /\ AreReports(c.baseline, c.candidate)
    <3>1. scene \in DOMAIN Scenes /\ Asked.path = "compare" BY DEF InScene, Answered
    <3> QED BY <2>1, <3>1, ReportsAssumption DEF S
  <2>3. SaidOnCompare(Asked, answer.body) BY DEF ToldRightly
  <2>4. Told \in answer.body BY <2>3 DEF Told, SaidOnCompare
  <2>5. Told \in Compared(c.baseline, c.candidate) BY <2>2, <2>3, <2>4 DEF SaidOnCompare
  <2>6. AreReports(c.baseline, c.candidate) BY <2>2
  <2> QED BY <2>5, <2>6, ComparedBothWays
<1> QED BY <1>1, ToldIsRight, StaysInScene, PTL

-----------------------------------------------------------------------------
(* Days                                                                    *)

LEMMA Divided ==
  ASSUME NEW x \in Int, NEW d \in Int
  PROVE  x \div DayHours \in Int /\ (x \div DayHours < d <=> x < d * DayHours)
<1> DEFINE q == x \div DayHours
           r == x % DayHours
<1>0. DayHours \in Nat /\ DayHours > 0 BY DaysAssumption
<1>1. q \in Int /\ r \in 0..DayHours - 1 /\ x = DayHours * q + r BY <1>0
<1> HIDE DEF q, r
<1>2. ASSUME q < d PROVE x < d * DayHours
  <2>1. DayHours * (q + 1) <= DayHours * d BY ONLY <1>0, <1>1, <1>2
  <2>2. DayHours * (q + 1) = DayHours * q + DayHours BY ONLY <1>0, <1>1
  <2> QED BY <1>0, <1>1, <2>1, <2>2
<1>3. ASSUME d <= q PROVE d * DayHours <= x
  <2>1. DayHours * d <= DayHours * q BY ONLY <1>0, <1>1, <1>3
  <2> QED BY <1>0, <1>1, <2>1
<1>4. q < d <=> x < d * DayHours BY <1>0, <1>1, <1>2, <1>3
<1> QED BY <1>1, <1>4 DEF q

LEMMA EarliestIs ==
  ASSUME NEW W \in SUBSET Int, NEW s \in W, \A y \in W : s <= y
  PROVE  Earliest(W) = s
<1>1. \A x \in W : (\A y \in W : x <= y) => x = s OBVIOUS
<1> QED BY <1>1 DEF Earliest

LEMMA ShowingIs ==
  ASSUME NEW zone, Regular(zone), NEW date \in Int, NEW hour \in Int, NEW t
  PROVE  t \in Showing(zone, date, hour) <=> t \in Int /\ Local(zone, t) = date * DayHours + hour
<1> DEFINE shown == date * DayHours + hour
<1>0. shown \in Int /\ zone.before \in Int /\ zone.after \in Int /\ zone.at \in Int
  BY DaysAssumption DEF Regular
<1>1. t \in Showing(zone, date, hour) <=>
         t \in {shown - zone.before, shown - zone.after} /\ Local(zone, t) = shown
  BY DEF Showing
<1> HIDE DEF shown
<1>2. t \in Int /\ Local(zone, t) = shown => t \in {shown - zone.before, shown - zone.after}
  BY <1>0 DEF Local
<1>3. t \in {shown - zone.before, shown - zone.after} => t \in Int BY <1>0
<1>4. t \in Showing(zone, date, hour) <=> t \in Int /\ Local(zone, t) = shown BY <1>1, <1>2, <1>3
<1> QED BY <1>4 DEF shown

\* The first hour of a date that the clocks show, and when they first show it.
Shows(zone, date, hour, s) ==
    /\ s \in Showing(zone, date, hour)
    /\ \A y \in Showing(zone, date, hour) : s <= y
    /\ \A k \in 0..hour - 1 : Showing(zone, date, k) = {}

LEMMA StartIs ==
  ASSUME NEW zone, Regular(zone), NEW date \in Int, NEW hour \in 0..3, NEW s, Shows(zone, date, hour, s)
  PROVE  StartOf(zone, date) = {s}
<1> DEFINE hours == {h \in 0..3 : Showing(zone, date, h) # {}}
<1>1. hour \in hours /\ \A h \in hours : hour <= h BY DEF Shows
<1>2. hours \in SUBSET Int OBVIOUS
<1>3. StartOf(zone, date) = IF hours = {} THEN {} ELSE {Earliest(Showing(zone, date, Earliest(hours)))}
  BY DEF StartOf
<1> HIDE DEF hours
<1>4. Earliest(hours) = hour BY <1>1, <1>2, EarliestIs
<1>5. Showing(zone, date, hour) \in SUBSET Int BY ShowingIs
<1>6. Earliest(Showing(zone, date, hour)) = s BY <1>5, EarliestIs DEF Shows
<1> QED BY <1>1, <1>3, <1>4, <1>6

\* A date begins at an instant: it is that of StartOf, and divides those before the date from
\* those that are not.
FirstInstant(zone, date, s) ==
    /\ s \in Int /\ StartOf(zone, date) = {s} /\ DateOf(zone, s) = date
    /\ \A t \in Int : DateOf(zone, t) < date <=> t < s

LEMMA DateIs ==
  ASSUME NEW zone, Regular(zone), NEW t \in Int, NEW d \in Int
  PROVE  /\ Local(zone, t) \in Int /\ DateOf(zone, t) \in Int
         /\ DateOf(zone, t) < d <=> Local(zone, t) < d * DayHours
<1>1. Local(zone, t) \in Int BY DEF Local, Regular
<1> QED BY <1>1, Divided DEF DateOf

LEMMA DateBegins ==
  ASSUME NEW zone, Regular(zone), NEW date \in Int
  PROVE  \E s : FirstInstant(zone, date, s)
<1> DEFINE lo == date * DayHours
           b == zone.before
           a == zone.after
           at == zone.at
<1>0. lo \in Int /\ b \in Int /\ a \in Int /\ at \in Int /\ a - b <= 3 /\ DayHours \in Int /\ DayHours > 3
  BY DaysAssumption DEF Regular
<1>1. (date + 1) * DayHours = lo + DayHours BY <1>0
<1>2. at - 1 + b >= lo => at + a >= lo
  <2>1. DateOf(zone, at - 1) < date <=> Local(zone, at - 1) < lo BY <1>0, DateIs
  <2>2. DateOf(zone, at) < date <=> Local(zone, at) < lo BY <1>0, DateIs
  <2>3. DateOf(zone, at - 1) \in Int /\ DateOf(zone, at) \in Int BY <1>0, DateIs
  <2>4. DateOf(zone, at - 1) <= DateOf(zone, at) BY DEF Regular
  <2>5. Local(zone, at - 1) = at - 1 + b /\ Local(zone, at) = at + a BY <1>0 DEF Local
  <2> QED BY ONLY <1>0, <2>1, <2>2, <2>3, <2>4, <2>5
<1>3. \A t \in Int : Local(zone, t) = t + (IF t < at THEN b ELSE a) BY DEF Local
<1>4. ASSUME NEW k \in Int PROVE Showing(zone, date, k) = {t \in Int : Local(zone, t) = lo + k}
  <2>1. \A t : t \in Showing(zone, date, k) <=> t \in Int /\ Local(zone, t) = lo + k
    BY ShowingIs
  <2> HIDE DEF lo
  <2> QED BY <2>1
<1> HIDE DEF lo, b, a, at
<1>5. \E s \in Int, hour \in 0..3 : /\ Local(zone, s) = lo + hour
                                    /\ \A t \in Int : Local(zone, t) < lo <=> t < s
                                    /\ \A t \in Int : Local(zone, t) = lo + hour => s <= t
                                    /\ \A k \in 0..hour - 1, t \in Int : Local(zone, t) # lo + k
  <2>1. CASE lo - b < at
    <3>1. lo - b \in Int /\ Local(zone, lo - b) = lo + 0 BY <1>0, <1>3, <2>1
    <3>2. \A t \in Int : Local(zone, t) < lo <=> t < lo - b BY <1>0, <1>2, <1>3, <2>1
    <3>3. \A t \in Int : Local(zone, t) = lo + 0 => lo - b <= t BY <1>0, <3>2
    <3> QED BY <3>1, <3>2, <3>3
  <2>2. CASE lo - b >= at /\ lo - a >= at
    <3>1. lo - a \in Int /\ Local(zone, lo - a) = lo + 0 BY <1>0, <1>3, <2>2
    <3>2. \A t \in Int : Local(zone, t) < lo <=> t < lo - a BY <1>0, <1>3, <2>2
    <3>3. \A t \in Int : Local(zone, t) = lo + 0 => lo - a <= t BY <1>0, <3>2
    <3> QED BY <3>1, <3>2, <3>3
  <2>3. CASE lo - b >= at /\ lo - a < at
    <3> DEFINE h == at + a - lo
    <3>1. h \in 0..3 BY <1>0, <2>3
    <3>2. Local(zone, at) = lo + h BY <1>0, <1>3
    <3> HIDE DEF h
    <3>3. h = at + a - lo BY DEF h
    <3>4. \A t \in Int : Local(zone, t) < lo <=> t < at BY <1>0, <1>3, <2>3
    <3>5. \A t \in Int : Local(zone, t) = lo + h => at <= t BY <1>0, <3>1, <3>4
    <3>6. \A k \in 0..h - 1, t \in Int : Local(zone, t) # lo + k
      BY <1>0, <1>3, <2>3, <3>1, <3>3
    <3> QED BY <1>0, <3>1, <3>2, <3>4, <3>5, <3>6
  <2> QED BY <1>0, <2>1, <2>2, <2>3
<1>6. PICK s \in Int, hour \in 0..3 :
        /\ Local(zone, s) = lo + hour
        /\ \A t \in Int : Local(zone, t) < lo <=> t < s
        /\ \A t \in Int : Local(zone, t) = lo + hour => s <= t
        /\ \A k \in 0..hour - 1, t \in Int : Local(zone, t) # lo + k
  BY <1>5
<1>7. Shows(zone, date, hour, s)
  <2>0. hour \in Int /\ Showing(zone, date, hour) = {t \in Int : Local(zone, t) = lo + hour} BY <1>4
  <2>1. s \in Showing(zone, date, hour) BY <1>6, <2>0
  <2>2. ASSUME NEW y \in Showing(zone, date, hour) PROVE s <= y
    <3>1. y \in Int /\ Local(zone, y) = lo + hour BY <2>0
    <3> QED BY <1>6, <3>1
  <2>3. ASSUME NEW k \in 0..hour - 1 PROVE Showing(zone, date, k) = {}
    <3>1. k \in Int /\ Showing(zone, date, k) = {t \in Int : Local(zone, t) = lo + k} BY <1>4
    <3>2. \A t \in Int : Local(zone, t) # lo + k BY <1>6
    <3> QED BY <3>1, <3>2
  <2> QED BY <2>1, <2>2, <2>3 DEF Shows
<1>8. StartOf(zone, date) = {s} BY <1>7, StartIs
<1>9. \A t \in Int : DateOf(zone, t) < date <=> t < s
  <2> SUFFICES ASSUME NEW t \in Int PROVE DateOf(zone, t) < date <=> t < s OBVIOUS
  <2>1. DateOf(zone, t) < date <=> Local(zone, t) < lo BY DateIs DEF lo
  <2>2. Local(zone, t) < lo <=> t < s BY <1>6
  <2> QED BY <2>1, <2>2
<1>10. DateOf(zone, s) = date
  <2>1. DateOf(zone, s) \in Int BY DateIs
  <2>2. ~(DateOf(zone, s) < date) BY <1>9
  <2>3. DateOf(zone, s) < date + 1 <=> Local(zone, s) < (date + 1) * DayHours BY DateIs
  <2>4. Local(zone, s) < (date + 1) * DayHours BY <1>0, <1>1, <1>6
  <2> QED BY <2>1, <2>2, <2>3, <2>4
<1> QED BY <1>8, <1>9, <1>10 DEF FirstInstant

LEMMA InOrder ==
  ASSUME NEW zone, Regular(zone), NEW d \in Int, NEW s, FirstInstant(zone, d, s),
         NEW t, FirstInstant(zone, d + 1, t)
  PROVE  s < t /\ \A x \in Int : DateOf(zone, x) = d <=> s <= x /\ x < t
<1>1. s \in Int /\ t \in Int BY DEF FirstInstant
<1>2. ASSUME NEW x \in Int PROVE DateOf(zone, x) = d <=> s <= x /\ x < t
  <2>1. DateOf(zone, x) \in Int BY DateIs
  <2>2. DateOf(zone, x) < d <=> x < s BY DEF FirstInstant
  <2>3. DateOf(zone, x) < d + 1 <=> x < t BY DEF FirstInstant
  <2> QED BY <1>1, <2>1, <2>2, <2>3
<1>3. DateOf(zone, s) = d BY DEF FirstInstant
<1> QED BY <1>1, <1>2, <1>3

StartAt(zone, date) == CHOOSE s : FirstInstant(zone, date, s)
DayAt(zone, date) == [start |-> StartAt(zone, date), end |-> StartAt(zone, date + 1)]

LEMMA StartsAt ==
  ASSUME NEW zone, Regular(zone), NEW date \in Int
  PROVE  FirstInstant(zone, date, StartAt(zone, date))
<1>1. \E s : FirstInstant(zone, date, s) BY DateBegins
<1> QED BY <1>1 DEF StartAt

LEMMA FromDateIs ==
  ASSUME NEW zone, Regular(zone), NEW date \in Int
  PROVE  FromDate(zone, date) = {DayAt(zone, date)}
<1>1. StartOf(zone, date) = {StartAt(zone, date)} BY StartsAt DEF FirstInstant
<1>2. StartOf(zone, date + 1) = {StartAt(zone, date + 1)}
  <2>1. date + 1 \in Int OBVIOUS
  <2>2. FirstInstant(zone, date + 1, StartAt(zone, date + 1)) BY <2>1, StartsAt
  <2> QED BY <2>2 DEF FirstInstant
<1> QED BY <1>1, <1>2 DEF FromDate, DayAt

\* The day that holds an instant.
LEMMA ContainingIs ==
  ASSUME NEW zone, Regular(zone), NEW now \in Int
  PROVE  /\ Containing(zone, now) = {DayAt(zone, DateOf(zone, now))}
         /\ DateOf(zone, now) \in Int
         /\ DateOf(zone, DayAt(zone, DateOf(zone, now)).start) = DateOf(zone, now)
         /\ InDay(DayAt(zone, DateOf(zone, now)), now)
<1> DEFINE d == DateOf(zone, now)
           s == StartAt(zone, d)
           t == StartAt(zone, d + 1)
<1>1. d \in Int /\ d + 1 \in Int BY DateIs
<1> HIDE DEF d
<1>2. FirstInstant(zone, d, s) BY <1>1, StartsAt
<1>3. FirstInstant(zone, d + 1, t) BY <1>1, StartsAt
<1>4. DateOf(zone, s) = d BY <1>2 DEF FirstInstant
<1> HIDE DEF s, t
<1>5. s <= now /\ now < t BY <1>1, <1>2, <1>3, InOrder DEF d
<1>6. FromDate(zone, d) = {DayAt(zone, d)} BY <1>1, FromDateIs
<1>7. InDay(DayAt(zone, d), now) BY <1>5 DEF InDay, DayAt, s, t
<1>8. DateOf(zone, DayAt(zone, d).start) = d BY <1>4 DEF s, DayAt
<1> QED BY <1>1, <1>6, <1>7, <1>8 DEF d, Containing

-----------------------------------------------------------------------------
(* A sequence of sequences, one after the other                            *)

Flattens(s, g) ==
    /\ g[0] = <<>> /\ \A i \in 1..Len(s) : g[i] = g[i - 1] \o s[i]
    /\ FlattenSeq(s) = g[Len(s)]

LEMMA FlattenReads ==
  ASSUME NEW T, NEW s \in Seq(Seq(T))
  PROVE  \E g : Flattens(s, g)
<1> DEFINE n == Len(s)
<1>0. n \in Nat /\ n = Len(s) /\ \A i \in 1..n : s[i] \in Seq(T) BY LenProperties
<1> HIDE DEF n
<1>1. CASE n = 0
  <2>1. s = <<>> BY <1>0, <1>1, EmptySeq
  <2>2. FlattenSeq(s) = <<>> BY <2>1 DEF FlattenSeq
  <2>3. Flattens(s, [i \in {0} |-> <<>>]) BY <1>0, <1>1, <2>2 DEF Flattens
  <2> QED BY <2>3
<1>2. CASE n > 0
  <2>1. PICK h : Reading("flatten", 0, <<>>, s, n, h) BY <1>0, ReadingExists
  <2>2. h[0] = <<>> /\ \A i \in 1..n : h[i] = h[i - 1] \o s[i]
    <3>1. h[0] = <<>> /\ \A i \in 1..n : h[i] = OneMore("flatten", 0, h[i - 1], s[i])
      <4>1. \A i \in 0..n : h[i] = IF i = 0 THEN <<>> ELSE OneMore("flatten", 0, h[i - 1], s[i])
        BY <2>1 DEF Reading
      <4> QED BY <1>0, <4>1
    <3> QED BY <3>1 DEF OneMore
  <2>3. FlattenIs(s, [i \in 1..n |-> h[i]])
    <3>1. h[1] = s[1]
      <4>0. 1 \in 1..n BY <1>0, <1>2
      <4>1. s[1] \in Seq(T) BY <1>0, <4>0
      <4>2. h[1] = h[1 - 1] \o s[1] BY <2>2, <4>0
      <4>3. 1 - 1 = 0 /\ h[0] = <<>> BY <2>2
      <4>4. <<>> \o s[1] = s[1] BY <4>1, ConcatEmptySeq
      <4> QED BY ONLY <4>2, <4>3, <4>4
    <3> DEFINE k == [i \in 1..n |-> h[i]]
    <3>2. \A i \in 1..n : k[i] = IF i = 1 THEN s[i] ELSE k[i - 1] \o s[i]
      <4> SUFFICES ASSUME NEW i \in 1..n PROVE k[i] = IF i = 1 THEN s[i] ELSE k[i - 1] \o s[i]
        OBVIOUS
      <4>1. CASE i = 1 BY <3>1, <4>1
      <4>2. CASE i # 1
        <5>1. i - 1 \in 1..n BY <1>0, <4>2
        <5>2. k[i - 1] = h[i - 1] /\ k[i] = h[i] BY <5>1
        <5> QED BY <2>2, <4>2, <5>2
      <4> QED BY <4>1, <4>2
    <3>3. k = [i \in 1..n |-> k[i]] OBVIOUS
    <3> HIDE DEF k
    <3>4. FlattenIs(s, k) BY <1>0, <3>2, <3>3 DEF FlattenIs
    <3> QED BY <3>4 DEF k
  <2> DEFINE f == CHOOSE x : FlattenIs(s, x)
  <2>4. FlattenIs(s, f) BY <2>3
  <2>5. FlattenSeq(s) = f[n] BY <1>0, <1>2 DEF FlattenSeq, FlattenIs
  <2> HIDE DEF f
  <2>6. \A i \in 1..n : f[i] = IF i = 1 THEN s[i] ELSE f[i - 1] \o s[i] BY <1>0, <2>4 DEF FlattenIs
  <2> DEFINE g == [i \in 0..n |-> IF i = 0 THEN <<>> ELSE f[i]]
  <2>7. g[0] = <<>> /\ \A i \in 1..n : g[i] = f[i] BY <1>0
  <2>8. \A i \in 1..n : g[i] = g[i - 1] \o s[i]
    <3> SUFFICES ASSUME NEW i \in 1..n PROVE g[i] = g[i - 1] \o s[i] OBVIOUS
    <3> HIDE DEF g
    <3>1. CASE i = 1
      <4>1. s[1] \in Seq(T) BY <1>0, <3>1
      <4>2. g[0] \o s[1] = s[1] BY <2>7, <4>1, ConcatEmptySeq
      <4>3. g[1] = s[1] BY <2>6, <2>7, <3>1
      <4>4. i - 1 = 0 BY <3>1
      <4> QED BY <3>1, <4>2, <4>3, <4>4
    <3>2. CASE i # 1
      <4>1. i - 1 \in 1..n BY <1>0, <3>2
      <4> QED BY <2>6, <2>7, <3>2, <4>1
    <3> QED BY <3>1, <3>2
  <2> HIDE DEF g
  <2>9. n \in 1..n BY <1>0, <1>2
  <2>10. Flattens(s, g) BY <1>0, <2>5, <2>7, <2>8, <2>9 DEF Flattens
  <2> QED BY <2>10
<1> QED BY <1>0, <1>1, <1>2

LEMMA FlattenTyped ==
  ASSUME NEW T, NEW s \in Seq(Seq(T))
  PROVE  FlattenSeq(s) \in Seq(T)
<1>0. Len(s) \in Nat /\ \A i \in 1..Len(s) : s[i] \in Seq(T) BY LenProperties
<1>a. PICK g : Flattens(s, g) BY FlattenReads
<1>1. /\ g[0] = <<>> /\ \A i \in 1..Len(s) : g[i] = g[i - 1] \o s[i]
      /\ FlattenSeq(s) = g[Len(s)]
  BY <1>a DEF Flattens
<1> DEFINE G == {i \in 0..Len(s) : g[i] \in Seq(T)}
<1>2. 0 \in G
  <2>1. g[0] \in Seq(T) BY <1>1
  <2> QED BY <1>0, <2>1
<1>3. ASSUME NEW i \in 1..Len(s), i - 1 \in G PROVE i \in G
  <2>1. g[i] = g[i - 1] \o s[i] BY <1>1
  <2>2. g[i] \in Seq(T) BY <1>0, <1>3, <2>1, ConcatProperties
  <2> QED BY <1>0, <2>2
<1>4. Climbs(G, Len(s))
  <2> HIDE DEF G
  <2> QED BY <1>2, <1>3 DEF Climbs
<1>5. Len(s) \in G
  <2> HIDE DEF G
  <2> QED BY <1>0, <1>4, Upwards
<1> QED BY <1>1, <1>5

LEMMA OneAlone ==
  ASSUME NEW x
  PROVE  SetToSeq({x}) = <<x>>
<1>1. Cardinality({x}) = 1 BY FS_Singleton
<1>2. <<x>> \in [1..1 -> {x}] /\ IsInjective(<<x>>) BY DEF IsInjective
<1>3. \A f \in [1..1 -> {x}] : f = <<x>>
  <2> SUFFICES ASSUME NEW f \in [1..1 -> {x}] PROVE f = <<x>> OBVIOUS
  <2>1. f[1] = x OBVIOUS
  <2>2. f = [i \in 1..1 |-> f[i]] OBVIOUS
  <2> QED BY <2>1, <2>2
<1> QED BY <1>1, <1>2, <1>3 DEF SetToSeq

LEMMA NoneAtAll == SetToSeq({}) = <<>>
<1>1. Cardinality({}) = 0 BY FS_EmptySet
<1>2. \A f \in [1..0 -> {}] : f = <<>>
  <2> SUFFICES ASSUME NEW f \in [1..0 -> {}] PROVE f = <<>> OBVIOUS
  <2>1. f \in Seq({}) /\ Len(f) = 0 OBVIOUS
  <2> QED BY <2>1, EmptySeq
<1>4. <<>> \in [1..0 -> {}] OBVIOUS
<1>3. IsInjective(<<>>) BY DEF IsInjective
<1> QED BY <1>1, <1>2, <1>3, <1>4 DEF SetToSeq

LEMMA FlattenOnes ==
  ASSUME NEW T, NEW x \in Seq(T)
  PROVE  FlattenSeq([i \in 1..Len(x) |-> <<x[i]>>]) = x
<1> DEFINE s == [i \in 1..Len(x) |-> <<x[i]>>]
<1>0. Len(x) \in Nat /\ \A i \in 1..Len(x) : x[i] \in T BY LenProperties
<1>1. s \in Seq(Seq(T)) /\ Len(s) = Len(x)
  <2>1. \A i \in 1..Len(x) : <<x[i]>> \in Seq(T) BY <1>0
  <2> QED BY <1>0, <2>1
<1>2. \A i \in 1..Len(x) : s[i] = <<x[i]>> OBVIOUS
<1> HIDE DEF s
<1>a. PICK g : Flattens(s, g) BY <1>1, FlattenReads
<1>3. /\ g[0] = <<>> /\ \A i \in 1..Len(s) : g[i] = g[i - 1] \o s[i]
      /\ FlattenSeq(s) = g[Len(s)]
  BY <1>a DEF Flattens
<1> DEFINE G == {i \in 0..Len(x) : g[i] = SubSeq(x, 1, i)}
<1>4. 0 \in G
  <2>1. SubSeq(x, 1, 0) = <<>> BY SubSeqEmpty
  <2>2. g[0] = <<>> BY <1>3
  <2>3. g[0] = SubSeq(x, 1, 0) BY <2>1, <2>2
  <2> QED BY <1>0, <2>3
<1>5. ASSUME NEW i \in 1..Len(x), i - 1 \in G PROVE i \in G
  <2>1. g[i] = g[i - 1] \o <<x[i]>> BY <1>1, <1>2, <1>3
  <2>2. SubSeq(x, 1, i) = SubSeq(x, 1, i - 1) \o <<x[i]>>
    <3>1. 1 \in 1..Len(x) /\ i \in 1..Len(x) BY <1>0
    <3> QED BY <3>1, SubSeqRecursiveSecond
  <2> QED BY <1>0, <1>5, <2>1, <2>2
<1>6. Climbs(G, Len(x))
  <2> HIDE DEF G
  <2> QED BY <1>4, <1>5 DEF Climbs
<1>7. Len(x) \in G
  <2> HIDE DEF G
  <2> QED BY <1>0, <1>6, Upwards
<1>8. FlattenSeq(s) = SubSeq(x, 1, Len(x)) BY <1>1, <1>3, <1>7
<1> QED BY <1>8, SubSeqFull DEF s

-----------------------------------------------------------------------------
(* The days before a day                                                   *)

LEMMA PrecedingAre ==
  ASSUME NEW zone, Regular(zone), NEW day, DateOf(zone, day.start) \in Int, NEW count \in Nat
  PROVE  /\ Preceding(zone, day, count) =
              [i \in 1..count |-> DayAt(zone, DateOf(zone, day.start) - count + i - 1)]
         /\ Preceding(zone, day, count) \in Seq([start : Int, end : Int])
<1> DEFINE first == DateOf(zone, day.start) - count
           last == DateOf(zone, day.start) - 1
           x == [i \in 1..count |-> DayAt(zone, first + i - 1)]
           T == [start : Int, end : Int]
<1>1. first \in Int /\ last - first + 1 = count OBVIOUS
<1>2. Preceding(zone, day, count) = DaysOf(zone, first, last) BY DEF Preceding
<1> HIDE DEF first, last
<1>3. \A i \in 1..count : DayAt(zone, first + i - 1) \in T
  <2> SUFFICES ASSUME NEW i \in 1..count PROVE DayAt(zone, first + i - 1) \in T OBVIOUS
  <2> DEFINE d == first + i - 1
  <2>1. d \in Int /\ d + 1 \in Int BY <1>1
  <2> HIDE DEF d
  <2>2. StartAt(zone, d) \in Int /\ StartAt(zone, d + 1) \in Int BY <2>1, StartsAt DEF FirstInstant
  <2>3. DayAt(zone, d) \in T BY <2>2 DEF DayAt
  <2> QED BY <2>3 DEF d
<1>4. x \in Seq(T) /\ Len(x) = count BY <1>3
<1>5. \A i \in 1..count : SetToSeq(FromDate(zone, first + i - 1)) = <<x[i]>>
  <2> SUFFICES ASSUME NEW i \in 1..count
               PROVE  SetToSeq(FromDate(zone, first + i - 1)) = <<x[i]>>
    OBVIOUS
  <2>1. FromDate(zone, first + i - 1) = {DayAt(zone, first + i - 1)} BY <1>1, FromDateIs
  <2>2. FromDate(zone, first + i - 1) = {x[i]} BY <2>1
  <2> HIDE DEF x
  <2> QED BY <2>2, OneAlone
<1> HIDE DEF x
<1>6. [i \in 1..(last - first + 1) |-> SetToSeq(FromDate(zone, first + i - 1))]
      = [i \in 1..Len(x) |-> <<x[i]>>]
  BY <1>1, <1>4, <1>5
<1>7. DaysOf(zone, first, last) = x BY <1>4, <1>6, FlattenOnes DEF DaysOf
<1> QED BY <1>2, <1>4, <1>7 DEF x, first

\* The present day of a scene, and the days before it.
Follow(before, count, day) ==
    /\ before \in Seq([start : Int, end : Int]) /\ Len(before) = count
    /\ \A i \in 1..count : before[i].end = IF i = count THEN day.start ELSE before[i + 1].start
    /\ \A i \in 1..count : before[i].start < before[i].end
LEMMA DaysAre ==
  ASSUME NEW zone, Regular(zone), NEW now \in Int, NEW count \in Nat, NEW day,
         day = CHOOSE d \in Containing(zone, now) : TRUE
  PROVE  /\ InDay(day, now)
         /\ day.start \in Int /\ day.end \in Int /\ day.start < day.end
         /\ Follow(Preceding(zone, day, count), count, day)
<1> DEFINE d == DateOf(zone, now)
           before == Preceding(zone, day, count)
<1>1. /\ Containing(zone, now) = {DayAt(zone, d)} /\ d \in Int
      /\ DateOf(zone, DayAt(zone, d).start) = d /\ InDay(DayAt(zone, d), now)
  BY ContainingIs
<1>2. day = DayAt(zone, d) BY <1>1
<1>3. DateOf(zone, day.start) = d BY <1>1, <1>2
<1> HIDE DEF d
<1>4. before = [i \in 1..count |-> DayAt(zone, d - count + i - 1)]
  BY <1>1, <1>3, PrecedingAre
<1>5. before \in Seq([start : Int, end : Int]) BY <1>1, <1>3, PrecedingAre
<1> HIDE DEF before
<1>6. Len(before) = count BY <1>4
<1>7. ASSUME NEW e \in Int
      PROVE  DayAt(zone, e).start \in Int /\ DayAt(zone, e).end \in Int /\ DayAt(zone, e).start < DayAt(zone, e).end
  <2>1. e + 1 \in Int OBVIOUS
  <2>2. FirstInstant(zone, e, StartAt(zone, e)) /\ FirstInstant(zone, e + 1, StartAt(zone, e + 1)) BY <2>1, StartsAt
  <2>3. StartAt(zone, e) < StartAt(zone, e + 1) BY <2>2, InOrder
  <2>4. StartAt(zone, e) \in Int /\ StartAt(zone, e + 1) \in Int BY <2>2 DEF FirstInstant
  <2> QED BY <2>3, <2>4 DEF DayAt
<1>8. ASSUME NEW i \in 1..count
      PROVE  /\ before[i].end = IF i = count THEN day.start ELSE before[i + 1].start
             /\ before[i].start < before[i].end
  <2> DEFINE e == d - count + i - 1
  <2>1. e \in Int BY <1>1
  <2>2. before[i] = DayAt(zone, e) BY <1>4
  <2>3. before[i].end = StartAt(zone, e + 1) BY <2>2 DEF DayAt
  <2>4. before[i].start < before[i].end
    <3> HIDE DEF e
    <3> QED BY <1>7, <2>1, <2>2
  <2>5. CASE i = count
    <3>1. e + 1 = d BY <1>1, <2>5
    <3>2. day.start = StartAt(zone, d) BY ONLY <1>2 DEF DayAt
    <3> QED BY <2>3, <2>4, <2>5, <3>1, <3>2
  <2>6. CASE i # count
    <3>1. i + 1 \in 1..count BY <2>6
    <3>2. before[i + 1] = DayAt(zone, d - count + (i + 1) - 1) BY <1>4, <3>1
    <3>3. d - count + (i + 1) - 1 = e + 1 BY <1>1
    <3>4. before[i + 1].start = StartAt(zone, e + 1) BY <3>2, <3>3 DEF DayAt
    <3> QED BY <2>3, <2>4, <2>6, <3>4
  <2> QED BY <2>5, <2>6
<1>9. day.start \in Int /\ day.end \in Int /\ day.start < day.end BY <1>1, <1>2, <1>7
<1>10. Follow(before, count, day) BY <1>5, <1>6, <1>8 DEF Follow
<1> QED BY <1>1, <1>2, <1>9, <1>10 DEF before

\* The day a verdict judges holds the present and the days before it follow one another up to
\* it, in every zone whose clocks do not go back past a midnight (day.rs).
THEOREM VerdictDaysTile == Spec => []DaysTile
<1>1. InScene /\ ToldRightly => DaysTile
  <2> SUFFICES ASSUME InScene, ToldRightly, Answered("verdicts") PROVE DaysTile BY DEF DaysTile
  <2> DEFINE today == CHOOSE d \in Containing(S.zone, S.now) : TRUE
             before == Preceding(S.zone, today, WindowDays)
             days == Append(before, today)
  <2>1. Regular(S.zone) /\ S.now \in Int BY ZonesAssumption DEF InScene, S
  <2>2. WindowDays \in Nat BY DashboardAssumption
  <2>3. Told.start = today.start
    <3>1. answer.body = {TodayAgainstBaseline(S.store, S.zone, S.now, WindowDays)}
      BY DEF ToldRightly, SaidOnVerdicts
    <3>2. Told = TodayAgainstBaseline(S.store, S.zone, S.now, WindowDays) BY <3>1 DEF Told
    <3>3. Told = Judged(S.store, today, before) BY <3>2 DEF TodayAgainstBaseline, DayAgainstBaseline
    <3> QED BY <3>3 DEF Judged
  <2> HIDE DEF today
  <2>a. /\ InDay(today, S.now)
        /\ today.start \in Int /\ today.end \in Int
        /\ Follow(before, WindowDays, today)
    BY <2>1, <2>2, DaysAre DEF today
  <2>4. /\ InDay(today, S.now)
        /\ today.start \in Int /\ today.end \in Int
        /\ before \in Seq([start : Int, end : Int])
        /\ Len(before) = WindowDays
        /\ \A i \in 1..WindowDays : before[i].end = IF i = WindowDays THEN today.start ELSE before[i + 1].start
    BY <2>a DEF Follow
  <2> HIDE DEF before
  <2>5. /\ Len(days) = WindowDays + 1 /\ days[WindowDays + 1] = today
        /\ \A i \in 1..WindowDays : days[i] = before[i]
    BY <2>2, <2>4
  <2> HIDE DEF days
  <2>6. \A i \in 1..WindowDays : days[i].end = days[i + 1].start
    <3> SUFFICES ASSUME NEW i \in 1..WindowDays PROVE days[i].end = days[i + 1].start OBVIOUS
    <3>1. CASE i = WindowDays BY <2>4, <2>5, <3>1
    <3>2. CASE i # WindowDays
      <4>1. i + 1 \in 1..WindowDays BY <2>2, <3>2
      <4> QED BY <2>4, <2>5, <3>2, <4>1
    <3> QED BY <3>1, <3>2
  <2> QED BY <2>3, <2>4, <2>5, <2>6 DEF DaysTile, today, before, days
<1> QED BY <1>1, ToldIsRight, StaysInScene, PTL

-----------------------------------------------------------------------------
(* What a table was up to an instant                                       *)

LEMMA WhereAgree ==
  ASSUME NEW T, NEW s \in Seq(T), NEW A, NEW B, \A x \in Range(s) : x \in A <=> x \in B
  PROVE  Where(s, A) = Where(s, B)
<1>1. Places(s, A) = Places(s, B) BY DEF Places, Range
<1> QED BY <1>1, WhereSame

\* t is s up to an instant.
UpTo(T, s, t, from) ==
    /\ s \in Seq(T) /\ t \in Seq(T) /\ Len(t) <= Len(s)
    /\ \A i \in 1..Len(t) : t[i] = s[i] /\ s[i].ts < from
    /\ \A i \in 1..Len(s) : i > Len(t) => ~(s[i].ts < from)

LEMMA UpToRange ==
  ASSUME NEW T, NEW s, NEW t, NEW from, UpTo(T, s, t, from)
  PROVE  \A x \in Range(t) : x \in Range(s) /\ x.ts < from
<1> SUFFICES ASSUME NEW x \in Range(t) PROVE x \in Range(s) /\ x.ts < from OBVIOUS
<1>0. /\ Len(s) \in Nat /\ Len(t) \in Nat /\ Len(t) <= Len(s)
      /\ DOMAIN s = 1..Len(s) /\ DOMAIN t = 1..Len(t)
  BY LenProperties DEF UpTo
<1>1. PICK i \in 1..Len(t) : x = t[i] BY <1>0 DEF Range
<1>2. x = s[i] /\ s[i].ts < from BY <1>1 DEF UpTo
<1>3. i \in DOMAIN s BY <1>0
<1> QED BY <1>2, <1>3 DEF Range

\* A filter that takes nothing from that instant on keeps the same of both.
LEMMA SameUpTo ==
  ASSUME NEW T, NEW s, NEW t, NEW from, UpTo(T, s, t, from), NEW A, NEW B,
         \A x \in Range(t) : x \in A <=> x \in B,
         \A x \in Range(s) \cap A : x.ts < from
  PROVE  Where(s, A) = Where(t, B)
<1>0. /\ Len(s) \in Nat /\ Len(t) \in Nat /\ Len(t) <= Len(s)
      /\ DOMAIN s = 1..Len(s) /\ DOMAIN t = 1..Len(t)
  BY LenProperties DEF UpTo
<1>1. ASSUME NEW i \in Places(s, A) PROVE i \in Places(t, B)
  <2>1. i \in DOMAIN s /\ s[i] \in A BY DEF Places
  <2>2. s[i].ts < from BY <2>1 DEF Range
  <2>3. i \in 1..Len(t) BY <1>0, <2>1, <2>2 DEF UpTo
  <2>4. t[i] = s[i] BY <2>3 DEF UpTo
  <2>5. t[i] \in Range(t) BY <1>0, <2>3 DEF Range
  <2> QED BY <1>0, <2>1, <2>3, <2>4, <2>5 DEF Places
<1>2. ASSUME NEW i \in Places(t, B) PROVE i \in Places(s, A) /\ s[i] = t[i]
  <2>1. i \in 1..Len(t) /\ t[i] \in B BY <1>0 DEF Places
  <2>2. t[i] = s[i] /\ i \in DOMAIN s BY <1>0, <2>1 DEF UpTo
  <2>3. t[i] \in Range(t) BY <1>0, <2>1 DEF Range
  <2> QED BY <2>1, <2>2, <2>3 DEF Places
<1>3. Places(s, A) = Places(t, B) /\ \A i \in Places(s, A) : s[i] = t[i] BY <1>1, <1>2
<1>4. s \in Seq(T) /\ t \in Seq(T) BY DEF UpTo
<1> QED BY <1>3, <1>4, WhereSame

LEMMA FirstIs ==
  ASSUME NEW T, NEW s \in Seq(T), NEW n \in Nat
  PROVE  /\ FirstOf(s, n) \in Seq(T)
         /\ Len(FirstOf(s, n)) = IF n < Len(s) THEN n ELSE Len(s)
         /\ \A i \in 1..Len(FirstOf(s, n)) : FirstOf(s, n)[i] = s[i]
<1> DEFINE m == IF n < Len(s) THEN n ELSE Len(s)
<1>0. Len(s) \in Nat /\ \A i \in 1..Len(s) : s[i] \in T BY LenProperties
<1>1. m \in Nat /\ m <= Len(s) BY <1>0
<1>2. FirstOf(s, n) = SubSeq(s, 1, m) BY DEF FirstOf
<1>3. \A i \in 1..m : s[i] \in T BY <1>0, <1>1
<1>4. m = IF n < Len(s) THEN n ELSE Len(s) OBVIOUS
<1> HIDE DEF m
<1>5. /\ SubSeq(s, 1, m) \in Seq(T)
      /\ Len(SubSeq(s, 1, m)) = IF 1 <= m THEN m - 1 + 1 ELSE 0
      /\ \A i \in 1..m - 1 + 1 : SubSeq(s, 1, m)[i] = s[1 + i - 1]
  BY <1>1, <1>3, SubSeqProperties
<1>6. Len(SubSeq(s, 1, m)) = m BY <1>1, <1>5
<1>7. \A i \in 1..m : SubSeq(s, 1, m)[i] = s[i] BY <1>1, <1>5
<1> QED BY <1>2, <1>4, <1>5, <1>6, <1>7

LEMMA FirstUpTo ==
  ASSUME NEW T, NEW s, NEW t, NEW from, UpTo(T, s, t, from), NEW n \in Nat
  PROVE  UpTo(T, FirstOf(s, n), FirstOf(t, n), from)
<1>0. /\ Len(s) \in Nat /\ Len(t) \in Nat /\ Len(t) <= Len(s) /\ s \in Seq(T) /\ t \in Seq(T)
  BY LenProperties DEF UpTo
<1> DEFINE u == FirstOf(s, n)
           v == FirstOf(t, n)
<1>1. /\ u \in Seq(T) /\ Len(u) = IF n < Len(s) THEN n ELSE Len(s)
      /\ \A i \in 1..Len(u) : u[i] = s[i]
  BY <1>0, FirstIs
<1>2. /\ v \in Seq(T) /\ Len(v) = IF n < Len(t) THEN n ELSE Len(t)
      /\ \A i \in 1..Len(v) : v[i] = t[i]
  BY <1>0, FirstIs
<1> HIDE DEF u, v
<1>3. Len(v) <= Len(u) /\ Len(v) <= Len(t) /\ Len(u) <= Len(s) /\ Len(u) \in Nat /\ Len(v) \in Nat
  BY <1>0, <1>1, <1>2
<1>4. ASSUME NEW i \in 1..Len(v) PROVE v[i] = u[i] /\ u[i].ts < from
  <2>1. i \in 1..Len(t) /\ i \in 1..Len(u) BY <1>0, <1>3
  <2>2. t[i] = s[i] /\ s[i].ts < from BY <2>1 DEF UpTo
  <2> QED BY <1>1, <1>2, <2>1, <2>2
<1>5. ASSUME NEW i \in 1..Len(u), i > Len(v) PROVE ~(u[i].ts < from)
  <2>1. i \in 1..Len(s) /\ i > Len(t) BY <1>0, <1>1, <1>2, <1>3, <1>5
  <2>2. ~(s[i].ts < from) BY <2>1 DEF UpTo
  <2> QED BY <1>1, <2>2
<1> QED BY <1>1, <1>2, <1>3, <1>4, <1>5 DEF UpTo, u, v

LEMMA WhereInTime ==
  ASSUME NEW s, Chronological(s), NEW A
  PROVE  Chronological(Where(s, A))
<1> DEFINE w == Where(s, A)
           T == Range(s)
<1>0. s \in Seq(T) /\ (\A r \in T : r.ts \in Int) /\ \A i, j \in DOMAIN s : i < j => s[i].ts <= s[j].ts
  BY DEF Chronological
<1>1. w \in Seq(T) BY <1>0, WherePicks
<1>a. PICK f : Picks(s, A, w, f)
  <2> HIDE DEF T
  <2> QED BY <1>0, WherePicks
<1>2. Lists(f, Len(w), Places(s, A)) /\ \A k \in 1..Len(w) : w[k] = s[f[k]] BY <1>a DEF Picks
<1>3. Range(w) = T \cap A
  <2> HIDE DEF T
  <2> QED BY <1>0, WhereRange DEF T
<1> HIDE DEF w
<1>4. DOMAIN w = 1..Len(w) BY <1>1, LenProperties
<1>5. ASSUME NEW i \in DOMAIN w, NEW j \in DOMAIN w, i < j PROVE w[i].ts <= w[j].ts
  <2>1. f[i] < f[j] /\ f[i] \in Places(s, A) /\ f[j] \in Places(s, A) BY <1>2, <1>4, <1>5 DEF Lists
  <2>2. s[f[i]].ts <= s[f[j]].ts BY <1>0, <2>1 DEF Places
  <2> QED BY <1>2, <1>4, <2>2
<1>6. w \in Seq(Range(w)) BY <1>1, SeqOfRange
<1> QED BY <1>0, <1>3, <1>5, <1>6 DEF Chronological, w

LEMMA WithoutIs ==
  ASSUME NEW s, Chronological(s), NEW from \in Int
  PROVE  UpTo(Range(s), s, Without(s, from), from)
<1> DEFINE T == Range(s)
           B == {r \in Range(s) : r.ts < from}
           n == Len(s)
           P == Places(s, B)
<1>0. /\ s \in Seq(T) /\ (\A r \in T : r.ts \in Int)
      /\ \A i, j \in DOMAIN s : i < j => s[i].ts <= s[j].ts
  BY DEF Chronological
<1>1. n \in Nat /\ DOMAIN s = 1..n /\ \A i \in 1..n : s[i] \in T /\ s[i].ts \in Int
  BY <1>0, LenProperties DEF Range
<1>2. \A i \in 1..n : i \in P <=> s[i].ts < from BY <1>1 DEF Places
<1>2a. P \subseteq 1..n BY <1>1 DEF Places
<1>3. \A i, j \in 1..n : i < j /\ j \in P => i \in P
  <2> SUFFICES ASSUME NEW i \in 1..n, NEW j \in 1..n, i < j, j \in P PROVE i \in P OBVIOUS
  <2>1. s[i].ts <= s[j].ts /\ s[j].ts < from /\ s[i].ts \in Int /\ s[j].ts \in Int
    BY <1>0, <1>1, <1>2
  <2> QED BY <1>2, <2>1
<1> HIDE DEF T, P, n
<1>4. \E m \in 0..n : P = 1..m
  <2>1. CASE P = 1..n BY <1>1, <2>1
  <2>2. CASE P # 1..n
    <3>1. (1..n) \ P # {} BY <1>2a, <2>2
    <3>2. PICK p \in (1..n) \ P : \A q \in (1..n) \ P : p <= q
      <4>1. (1..n) \ P \subseteq Nat BY <1>1
      <4> QED BY <3>1, <4>1, Smallest
    <3>3. ASSUME NEW q \in 1..n PROVE q \in P <=> q <= p - 1
      <4>1. CASE q <= p - 1
        <5>1. ~(p <= q) BY <4>1, <1>1
        <5> QED BY <3>2, <4>1, <5>1
      <4>2. CASE ~(q <= p - 1)
        <5>1. q = p \/ p < q BY <4>2, <1>1
        <5>2. p \in 1..n /\ p \notin P OBVIOUS
        <5> QED BY <1>3, <4>2, <5>1, <5>2
      <4> QED BY <4>1, <4>2
    <3>4. P = 1..(p - 1)
      <4>1. p \in 1..n OBVIOUS
      <4>2. ASSUME NEW q \in P PROVE q \in 1..(p - 1)
        <5>1. q \in 1..n BY <1>2a
        <5>2. q <= p - 1 BY <3>3, <5>1
        <5> QED BY <1>1, <4>1, <5>1, <5>2
      <4>3. ASSUME NEW q \in 1..(p - 1) PROVE q \in P
        <5>1. q \in 1..n /\ q <= p - 1 BY <1>1, <4>1
        <5> QED BY <3>3, <5>1
      <4> QED BY <4>2, <4>3
    <3>5. p - 1 \in 0..n BY <1>1
    <3> QED BY <3>4, <3>5
  <2> QED BY <2>1, <2>2
<1>5. PICK m \in 0..n : P = 1..m BY <1>4
<1> DEFINE w == Without(s, from)
<1>6. w \in Seq(T)
  <2>1. w = Where(s, B) BY DEF Without
  <2> HIDE DEF B, w
  <2> QED BY <1>0, <2>1, WherePicks
<1>7. PICK f : Picks(s, B, w, f)
  <2>1. w = Where(s, B) BY DEF Without
  <2> HIDE DEF B, w
  <2> QED BY <1>0, <2>1, WherePicks
<1> HIDE DEF w
<1>8. Lists(f, Len(w), P) /\ \A k \in 1..Len(w) : w[k] = s[f[k]] BY <1>7 DEF Picks, P
<1> DEFINE id == [k \in 1..m |-> k]
<1>9. Lists(id, m, P) BY <1>5 DEF Lists
<1>10. \A k \in 1..m : id[k] = k OBVIOUS
<1> HIDE DEF id
<1>11. Len(w) = m /\ \A k \in 1..Len(w) : f[k] = id[k] BY <1>8, <1>9, ListedOnce
<1>12. \A k \in 1..m : w[k] = s[k] BY <1>8, <1>10, <1>11
<1>13. m \in Nat /\ m <= n BY <1>1
<1>14. \A k \in 1..m : s[k].ts < from BY <1>2, <1>5, <1>13, <1>1
<1>15. \A k \in 1..n : k > m => ~(s[k].ts < from) BY <1>2, <1>5, <1>13, <1>1
<1>16. UpTo(T, s, w, from)
  BY <1>0, <1>6, <1>11, <1>12, <1>13, <1>14, <1>15 DEF UpTo, n
<1> QED BY <1>16 DEF T, w

\* A filter of the rows before an instant gives what was before it of those the filter keeps.
LEMMA FilterUpTo ==
  ASSUME NEW s, Chronological(s), NEW from \in Int, NEW A, NEW B,
         \A x \in Range(s) : x.ts < from => (x \in A <=> x \in B)
  PROVE  UpTo(Range(s), Where(s, A), Where(Without(s, from), B), from)
<1> DEFINE C == {r \in Range(s) : r.ts < from}
           w == Where(s, A)
           D == {r \in Range(w) : r.ts < from}
           T == Range(s)
<1>0. s \in Seq(T) BY DEF Chronological
<1> HIDE DEF T
<1>1. Without(s, from) = Where(s, C) BY DEF Without
<1>2. Where(Without(s, from), B) = Where(s, C \cap B)
  <2> HIDE DEF C
  <2> QED BY <1>0, <1>1, WhereTwice
<1>3. Range(w) = T \cap A BY <1>0, WhereRange DEF T
<1>4. Where(s, C \cap B) = Where(s, A \cap D)
  <2>1. \A x \in T : x \in C \cap B <=> x \in A \cap D BY <1>3 DEF T
  <2> HIDE DEF C, D
  <2> QED BY <1>0, <2>1, WhereAgree DEF T
<1>5. Where(s, A \cap D) = Where(w, D)
  <2> HIDE DEF D
  <2> QED BY <1>0, WhereTwice
<1>6. Where(w, D) = Without(w, from) BY DEF Without
<1>7. UpTo(Range(w), w, Without(w, from), from)
  <2>1. Chronological(w) BY WhereInTime
  <2> HIDE DEF w
  <2> QED BY <2>1, WithoutIs
<1>8. w \in Seq(T) /\ Without(w, from) \in Seq(T)
  <2>1. w \in Seq(T) BY <1>0, WherePicks
  <2> HIDE DEF w, D
  <2> QED BY <2>1, <1>6, WherePicks
<1>9. UpTo(T, w, Without(w, from), from)
  <2> HIDE DEF w
  <2> QED BY <1>7, <1>8 DEF UpTo
<1> QED BY <1>2, <1>4, <1>5, <1>6, <1>9 DEF T

-----------------------------------------------------------------------------
(* What happens today is not in the days before it                         *)

\* The rows a verdict may draw on, in one filter.
Worth(rows, metric, from, to) ==
    {r \in Range(rows) : /\ from <= r.ts /\ r.ts <= to /\ ~r.contended
                         /\ r.source = "probe" /\ metric \in DOMAIN r.metrics}

LEMMA ValuesAre ==
  ASSUME NEW T, NEW rows \in Seq(T), NEW metric, NEW from, NEW to
  PROVE  ComparableValues(rows, metric, from, to) = FirstOf(Where(rows, Worth(rows, metric, from, to)), MaxRows)
<1> DEFINE A == {r \in Range(rows) : from <= r.ts /\ r.ts <= to}
           u == Where(rows, A)
           B == {r \in Range(u) : ~r.contended}
           C == {r \in Range(rows) : r.source = "probe" /\ metric \in DOMAIN r.metrics}
<1>1. Comparable(Between(rows, from, to), TRUE) = Where(u, B)
  <2>1. {r \in Range(u) : TRUE => ~r.contended} = B OBVIOUS
  <2>2. Comparable(u, TRUE) = Where(u, {r \in Range(u) : TRUE => ~r.contended}) BY DEF Comparable
  <2>3. Between(rows, from, to) = u BY DEF Between
  <2> HIDE DEF u, B
  <2> QED BY <2>1, <2>2, <2>3
<1>2. ComparableValues(rows, metric, from, to) = FirstOf(Where(Where(u, B), C), MaxRows)
  <2> HIDE DEF u, B
  <2> QED BY <1>1 DEF ComparableValues
<1>3. Where(u, B) = Where(rows, A \cap B)
  <2> HIDE DEF A, B
  <2> QED BY WhereTwice
<1>4. Where(Where(rows, A \cap B), C) = Where(rows, (A \cap B) \cap C)
  <2> HIDE DEF A, B, C
  <2> QED BY WhereTwice
<1>5. Range(u) = Range(rows) \cap A
  <2> HIDE DEF A
  <2> QED BY WhereRange
<1>6. (A \cap B) \cap C = Worth(rows, metric, from, to)
  <2> HIDE DEF u
  <2> QED BY <1>5 DEF Worth
<1> QED BY <1>2, <1>3, <1>4, <1>6

\* A day before from.
Earlier(day, from) == \A t \in Int : InDay(day, t) => t < from

LEMMA DayOfProbes ==
  ASSUME NEW rows, Chronological(rows), NEW start \in Int, NEW metric, NEW from, NEW to,
         NEW day, Earlier(day, start)
  PROVE  WithinDay(ComparableValues(Without(rows, start), metric, from, to), day)
         = WithinDay(ComparableValues(rows, metric, from, to), day)
<1> DEFINE T == Range(rows)
           old == Without(rows, start)
           A == Worth(rows, metric, from, to)
           B == Worth(old, metric, from, to)
           s == FirstOf(Where(rows, A), MaxRows)
           t == FirstOf(Where(old, B), MaxRows)
<1>0. rows \in Seq(T) /\ \A r \in T : r.ts \in Int BY DEF Chronological
<1>1. UpTo(T, rows, old, start) BY WithoutIs
<1> HIDE DEF T, old
<1>2. old \in Seq(T) BY <1>1 DEF UpTo
<1>3. \A x \in T : x.ts < start => (x \in A <=> x \in B)
  <2>1. Range(old) = T \cap {r \in T : r.ts < start} BY <1>0, WhereRange DEF old, Without, T
  <2> QED BY <2>1 DEF Worth, T
<1> HIDE DEF A, B
<1>4. UpTo(T, Where(rows, A), Where(old, B), start)
  <2>1. \A x \in Range(rows) : x.ts < start => (x \in A <=> x \in B) BY <1>3 DEF T
  <2> QED BY <2>1, FilterUpTo DEF T, old
<1>5. UpTo(T, s, t, start) BY <1>4, FirstUpTo, QueriesAssumption
<1>6. ComparableValues(rows, metric, from, to) = s BY <1>0, ValuesAre DEF A
<1>7. ComparableValues(old, metric, from, to) = t BY <1>2, ValuesAre DEF B
<1> HIDE DEF s, t
<1> DEFINE D == {r \in Range(s) : InDay(day, r.ts)}
           E == {r \in Range(t) : InDay(day, r.ts)}
<1>8. \A x \in Range(t) : x \in D <=> x \in E BY <1>5, UpToRange
<1>9. \A x \in Range(s) \cap D : x.ts < start
  <2> SUFFICES ASSUME NEW x \in Range(s), InDay(day, x.ts) PROVE x.ts < start OBVIOUS
  <2>1. x \in T
    <3>1. s \in Seq(T) BY <1>5 DEF UpTo
    <3> QED BY <3>1, RangeOfSeq
  <2> QED BY <1>0, <2>1 DEF Earlier
<1>10. Where(s, D) = Where(t, E)
  <2> HIDE DEF D, E
  <2> QED BY <1>5, <1>8, <1>9, SameUpTo
<1> QED BY <1>6, <1>7, <1>10 DEF WithinDay, old

\* The calls the subject of a session is about, as rows of its stream.
Answering(calls) == Where(calls, {r \in Range(calls) : r.ok /\ r.tool \in {"Read"}})
AsRows(calls) == [i \in 1..Len(calls) |-> Weighed(calls[i], calls[i].ms, 1)]
AsRow(T) == {Weighed(r, r.ms, 1) : r \in T}

LEMMA AsRowsTyped ==
  ASSUME NEW T, NEW calls \in Seq(T)
  PROVE  AsRows(calls) \in Seq(AsRow(T)) /\ Len(AsRows(calls)) = Len(calls)
<1>1. Len(calls) \in Nat /\ \A i \in 1..Len(calls) : calls[i] \in T BY LenProperties
<1>2. \A i \in 1..Len(calls) : Weighed(calls[i], calls[i].ms, 1) \in AsRow(T) BY <1>1 DEF AsRow
<1> QED BY <1>1, <1>2 DEF AsRows

LEMMA ToolRows ==
  ASSUME NEW T, NEW store, store.calls \in Seq(T)
  PROVE  SessionRows(store, "tool_read_ms") = AsRows(Answering(store.calls))
<1> DEFINE w == Answering(store.calls)
<1>1. "tool_read_ms" \in DOMAIN Tools /\ Tools["tool_read_ms"] = {"Read"} BY DEF Tools
<1>2. w \in Seq(T)
  <2> DEFINE A == {r \in Range(store.calls) : r.ok /\ r.tool \in {"Read"}}
  <2>1. w = Where(store.calls, A) BY DEF Answering
  <2> HIDE DEF A
  <2> QED BY <2>1, WherePicks
<1>3. SessionRows(store, "tool_read_ms") = <<>> \o AsRows(w)
  BY <1>1 DEF SessionRows, Each, AsRows, Answering
<1> HIDE DEF w
<1>4. AsRows(w) \in Seq(AsRow(T)) BY <1>2, AsRowsTyped
<1> QED BY <1>3, <1>4, ConcatEmptySeq DEF w

LEMMA RowsUpTo ==
  ASSUME NEW T, NEW s, NEW t, NEW from, UpTo(T, s, t, from)
  PROVE  UpTo(AsRow(T), AsRows(s), AsRows(t), from)
<1>0. /\ Len(s) \in Nat /\ Len(t) \in Nat /\ Len(t) <= Len(s) /\ s \in Seq(T) /\ t \in Seq(T)
  BY LenProperties DEF UpTo
<1>1. /\ AsRows(s) \in Seq(AsRow(T)) /\ Len(AsRows(s)) = Len(s)
      /\ AsRows(t) \in Seq(AsRow(T)) /\ Len(AsRows(t)) = Len(t)
  BY <1>0, AsRowsTyped
<1>2. ASSUME NEW r, NEW v, NEW k PROVE Weighed(r, v, k).ts = r.ts BY DEF Weighed
<1>3. ASSUME NEW i \in 1..Len(t) PROVE AsRows(t)[i] = AsRows(s)[i] /\ AsRows(s)[i].ts < from
  <2>1. i \in 1..Len(s) BY <1>0
  <2>2. t[i] = s[i] /\ s[i].ts < from BY DEF UpTo
  <2>3. AsRows(s)[i] = Weighed(s[i], s[i].ms, 1) /\ AsRows(t)[i] = Weighed(t[i], t[i].ms, 1)
    BY <2>1 DEF AsRows
  <2> QED BY <1>2, <2>2, <2>3
<1>4. ASSUME NEW i \in 1..Len(s), i > Len(t) PROVE ~(AsRows(s)[i].ts < from)
  <2>1. ~(s[i].ts < from) BY <1>4 DEF UpTo
  <2>2. AsRows(s)[i] = Weighed(s[i], s[i].ms, 1) BY DEF AsRows
  <2> QED BY <1>2, <2>1, <2>2
<1> QED BY <1>0, <1>1, <1>3, <1>4 DEF UpTo

LEMMA DayOfCalls ==
  ASSUME NEW store, NEW old, NEW start \in Int, Chronological(store.calls),
         old.calls = Without(store.calls, start),
         NEW day, day.end \in Int, Earlier(day, start)
  PROVE  Between(SessionRows(old, "tool_read_ms"), day.start, day.end - 1)
         = Between(SessionRows(store, "tool_read_ms"), day.start, day.end - 1)
<1> DEFINE T == Range(store.calls)
           w == Answering(store.calls)
           v == Answering(old.calls)
           s == AsRows(w)
           t == AsRows(v)
           D == {r \in Range(s) : day.start <= r.ts /\ r.ts <= day.end - 1}
           E == {r \in Range(t) : day.start <= r.ts /\ r.ts <= day.end - 1}
<1>0. store.calls \in Seq(T) /\ \A r \in T : r.ts \in Int BY DEF Chronological
<1>1. UpTo(T, store.calls, old.calls, start) BY WithoutIs
<1>2. old.calls \in Seq(T) BY <1>1 DEF UpTo
<1>3. UpTo(T, w, v, start)
  <2> DEFINE A == {r \in Range(store.calls) : r.ok /\ r.tool \in {"Read"}}
             B == {r \in Range(old.calls) : r.ok /\ r.tool \in {"Read"}}
  <2>1. w = Where(store.calls, A) /\ v = Where(old.calls, B) BY DEF Answering
  <2>2. Range(old.calls) = T \cap {r \in T : r.ts < start} BY <1>0, WhereRange DEF Without
  <2>3. \A x \in T : x.ts < start => (x \in A <=> x \in B) BY <2>2
  <2> HIDE DEF A, B, w, v
  <2> QED BY <2>1, <2>3, FilterUpTo
<1> HIDE DEF T, w, v
<1>4. UpTo(AsRow(T), s, t, start) BY <1>3, RowsUpTo
<1>5. \A x \in AsRow(T) : x.ts \in Int BY <1>0 DEF AsRow, Weighed
<1>6. SessionRows(store, "tool_read_ms") = s BY <1>0, ToolRows DEF w
<1>7. SessionRows(old, "tool_read_ms") = t BY <1>2, ToolRows DEF v
<1> HIDE DEF s, t
<1>8. \A x \in Range(t) : x \in D <=> x \in E BY <1>4, UpToRange
<1>9. \A x \in Range(s) \cap D : x.ts < start
  <2> SUFFICES ASSUME NEW x \in Range(s), day.start <= x.ts, x.ts <= day.end - 1 PROVE x.ts < start
    OBVIOUS
  <2>1. x.ts \in Int
    <3>1. s \in Seq(AsRow(T)) BY <1>4 DEF UpTo
    <3>2. x \in AsRow(T) BY <3>1, RangeOfSeq
    <3> QED BY <1>5, <3>2
  <2>2. x.ts < day.end BY <2>1
  <2>3. InDay(day, x.ts) BY <2>2 DEF InDay
  <2> QED BY <2>1, <2>3 DEF Earlier
<1>10. Where(s, D) = Where(t, E)
  <2> HIDE DEF D, E
  <2> QED BY <1>4, <1>8, <1>9, SameUpTo
<1> QED BY <1>6, <1>7, <1>10 DEF Between

\* The values of the days of a window, of a probe and of a tool.
ProbeValue(rows, metric, from, to, day) ==
    ReduceDay(Each(LAMBDA r : r.metrics[metric], WithinDay(ComparableValues(rows, metric, from, to), day)))
ToolValue(store, day) == DayOf(SessionBuckets(store, "tool_read_ms", day.start, day.end - 1, LengthOf(day)))
EvidenceFrom(today, window) == IF window = <<>> THEN today.start ELSE window[1].start
ProbeDays(rows, metric, today, window) ==
    FlattenSeq([i \in 1..Len(window) |->
        SetToSeq(ProbeValue(rows, metric, EvidenceFrom(today, window), today.end - 1, window[i]))])
ToolDays(store, window) ==
    FlattenSeq([i \in 1..Len(window) |-> SetToSeq(ToolValue(store, window[i]))])

LEMMA ProbesBehind ==
  ASSUME NEW store, NEW subject, subject.probe, NEW today, NEW window
  PROVE  Gather(store, subject, today, window).window = ProbeDays(store.probes, subject.metric, today, window)
<1>1. Gather(store, subject, today, window) = ProbeEvidence(store, subject.metric, today, window)
  BY DEF Gather
<1>2. ProbeEvidence(store, subject.metric, today, window).window
      = ProbeDays(store.probes, subject.metric, today, window)
  BY DEF ProbeEvidence, DayValues, ProbeDays, ProbeValue, EvidenceFrom
<1> QED BY <1>1, <1>2

LEMMA ToolsBehind ==
  ASSUME NEW store, NEW subject, ~subject.probe, subject.metric = "tool_read_ms", NEW today, NEW window
  PROVE  Gather(store, subject, today, window).window = ToolDays(store, window)
<1>1. Gather(store, subject, today, window) = SessionEvidence(store, "tool_read_ms", today, window)
  BY DEF Gather
<1>2. SessionEvidence(store, "tool_read_ms", today, window).window = ToolDays(store, window)
  BY DEF SessionEvidence, DayValues, ToolDays, ToolValue
<1> QED BY <1>1, <1>2

LEMMA SubjectsAre ==
  \A i \in 1..5 : SUBJECTS[i].probe \/ (~SUBJECTS[i].probe /\ SUBJECTS[i].metric = "tool_read_ms")
BY DEF SUBJECTS, Subject

\* The days behind the band of a subject.
Behind(store, i, today, window) == Gather(store, SUBJECTS[i], today, window).window

LEMMA BehindAre ==
  ASSUME NEW store, NEW today, NEW i \in 1..5
  PROVE  DaysBehind(store, today)[i] = Behind(store, i, today, Preceding(S.zone, today, WindowDays))
<1> DEFINE window == Preceding(S.zone, today, WindowDays)
           d == [k \in DOMAIN SUBJECTS |-> Gather(store, SUBJECTS[k], today, window).window]
           T == {Gather(store, SUBJECTS[k], today, window).window : k \in 1..5}
<1>1. DOMAIN SUBJECTS = 1..5 BY DEF SUBJECTS
<1>2. DaysBehind(store, today) = <<>> \o d BY DEF DaysBehind
<1> HIDE DEF window
<1>3. d \in Seq(T)
  <2>1. \A k \in 1..5 : Gather(store, SUBJECTS[k], today, window).window \in T OBVIOUS
  <2>2. d = [k \in 1..5 |-> Gather(store, SUBJECTS[k], today, window).window] BY <1>1
  <2> HIDE DEF d, T
  <2> QED BY <2>1, <2>2
<1>4. d[i] = Behind(store, i, today, window) BY <1>1 DEF Behind
<1> HIDE DEF d, T
<1>5. <<>> \o d = d BY <1>3, ConcatEmptySeq
<1> QED BY <1>2, <1>4, <1>5 DEF window

LEMMA BandsToldAre ==
  ASSUME NEW store, NEW today, NEW window, NEW i \in 1..5
  PROVE  Judged(store, today, window).comparisons[i].band = Baseline(Behind(store, i, today, window))
<1>1. DOMAIN SUBJECTS = 1..5 BY DEF SUBJECTS
<1>2. Judged(store, today, window).comparisons[i]
      = Judge(Gather(store, SUBJECTS[i], today, window), SUBJECTS[i].lowerIsBetter)
  BY <1>1 DEF Judged
<1>3. ASSUME NEW evidence, NEW lower PROVE Judge(evidence, lower).band = Baseline(evidence.window)
  BY DEF Judge, Against, Judgement
<1> QED BY <1>2, <1>3 DEF Behind

LEMMA SameBehind ==
  ASSUME NEW store, NEW old, NEW today, today.start \in Int, NEW count \in Nat, NEW window, Follow(window, count, today),
         Chronological(store.probes), Chronological(store.calls),
         old.probes = Without(store.probes, today.start), old.calls = Without(store.calls, today.start),
         NEW i \in 1..5
  PROVE  Behind(old, i, today, window) = Behind(store, i, today, window)
<1>1. /\ window \in Seq([start : Int, end : Int]) /\ Len(window) = count
      /\ \A k \in 1..count : window[k].end = IF k = count THEN today.start ELSE window[k + 1].start
      /\ \A k \in 1..count : window[k].start < window[k].end
  BY DEF Follow
<1>2. \A k \in 1..count : window[k].start \in Int /\ window[k].end \in Int
  <2>1. window \in [1..count -> [start : Int, end : Int]] BY <1>1, LenProperties
  <2> QED BY <2>1
<1>3. \A k \in 1..count : window[k].end <= today.start
  <2> DEFINE G == {m \in 0..count : m = count \/ window[count - m].end <= today.start}
  <2>1. 0 \in G
    <3>1. count = 0 \/ count \in 1..count OBVIOUS
    <3>2. count \in 1..count => window[count - 0].end <= today.start BY <1>1, <1>2
    <3> QED BY <3>1, <3>2
  <2>2. ASSUME NEW m \in 1..count, m - 1 \in G PROVE m \in G
    <3>1. CASE m = count BY <3>1
    <3>2. CASE m # count
      <4> DEFINE k == count - m
      <4>1. k \in 1..count /\ k + 1 \in 1..count /\ k # count /\ count - (m - 1) = k + 1 BY <3>2
      <4> HIDE DEF k
      <4>2. window[k + 1].end <= today.start BY <2>2, <3>2, <4>1
      <4>3. window[k].end = window[k + 1].start /\ window[k + 1].start < window[k + 1].end BY <1>1, <4>1
      <4>4. window[k].end <= today.start BY <1>2, <4>1, <4>2, <4>3
      <4> QED BY <4>4 DEF k
    <3> QED BY <3>1, <3>2
  <2> HIDE DEF G
  <2>3. Climbs(G, count) BY <2>1, <2>2 DEF Climbs
  <2>4. \A m \in 0..count : m \in G BY <2>3, Upwards
  <2> SUFFICES ASSUME NEW k \in 1..count PROVE window[k].end <= today.start OBVIOUS
  <2>5. count - k \in 0..count /\ count - k # count /\ count - (count - k) = k OBVIOUS
  <2>6. count - k \in G BY <2>4, <2>5
  <2> QED BY <2>5, <2>6 DEF G
<1>4. ASSUME NEW k \in 1..count PROVE Earlier(window[k], today.start)
  <2>1. window[k].end <= today.start /\ window[k].end \in Int BY <1>2, <1>3
  <2> QED BY <2>1 DEF Earlier, InDay
<1>5. CASE SUBJECTS[i].probe
  <2> DEFINE m == SUBJECTS[i].metric
             from == EvidenceFrom(today, window)
             to == today.end - 1
  <2>1. Behind(store, i, today, window) = ProbeDays(store.probes, m, today, window)
    BY <1>5, ProbesBehind DEF Behind
  <2>2. Behind(old, i, today, window) = ProbeDays(old.probes, m, today, window)
    BY <1>5, ProbesBehind DEF Behind
  <2>3. ASSUME NEW k \in 1..count
        PROVE  ProbeValue(old.probes, m, from, to, window[k]) = ProbeValue(store.probes, m, from, to, window[k])
    <3> HIDE DEF m, from, to
    <3>1. WithinDay(ComparableValues(old.probes, m, from, to), window[k])
          = WithinDay(ComparableValues(store.probes, m, from, to), window[k])
      BY <1>4, DayOfProbes
    <3> QED BY <3>1 DEF ProbeValue
  <2>4. ProbeDays(old.probes, m, today, window) = ProbeDays(store.probes, m, today, window)
    BY <1>1, <2>3 DEF ProbeDays
  <2> QED BY <2>1, <2>2, <2>4
<1>6. CASE ~SUBJECTS[i].probe
  <2>0. SUBJECTS[i].metric = "tool_read_ms" BY <1>6, SubjectsAre
  <2>1. Behind(store, i, today, window) = ToolDays(store, window)
    BY <1>6, <2>0, ToolsBehind DEF Behind
  <2>2. Behind(old, i, today, window) = ToolDays(old, window)
    BY <1>6, <2>0, ToolsBehind DEF Behind
  <2>3. ASSUME NEW k \in 1..count PROVE ToolValue(old, window[k]) = ToolValue(store, window[k])
    <3>1. Between(SessionRows(old, "tool_read_ms"), window[k].start, window[k].end - 1)
          = Between(SessionRows(store, "tool_read_ms"), window[k].start, window[k].end - 1)
      BY <1>2, <1>4, DayOfCalls
    <3> QED BY <3>1 DEF ToolValue, SessionBuckets
  <2>4. ToolDays(old, window) = ToolDays(store, window) BY <1>1, <2>3 DEF ToolDays
  <2> QED BY <2>1, <2>2, <2>4
<1> QED BY <1>5, <1>6

\* What a page that was told its verdicts was told.
PresentDay == CHOOSE d \in Containing(S.zone, S.now) : TRUE
Window == Preceding(S.zone, PresentDay, WindowDays)

LEMMA VerdictsTold ==
  ASSUME InScene, ToldRightly, Answered("verdicts")
  PROVE  /\ Told = Judged(S.store, PresentDay, Window) /\ Told.start = PresentDay.start
         /\ PresentDay.start \in Int /\ Follow(Window, WindowDays, PresentDay) /\ WindowDays \in Nat
<1>1. Regular(S.zone) /\ S.now \in Int BY ZonesAssumption DEF InScene, S
<1>2. WindowDays \in Nat BY DashboardAssumption
<1>3. answer.body = {TodayAgainstBaseline(S.store, S.zone, S.now, WindowDays)}
  BY DEF ToldRightly, SaidOnVerdicts
<1>4. Told = TodayAgainstBaseline(S.store, S.zone, S.now, WindowDays) BY <1>3 DEF Told
<1>5. Told = Judged(S.store, PresentDay, Window)
  BY <1>4 DEF TodayAgainstBaseline, DayAgainstBaseline, PresentDay, Window
<1>6. PresentDay.start \in Int /\ Follow(Window, WindowDays, PresentDay)
  BY <1>1, <1>2, DaysAre DEF PresentDay, Window
<1> QED BY <1>2, <1>5, <1>6 DEF Judged

LEMMA TablesAre ==
  ASSUME InScene, NEW table \in {"samples", "rollup", "probes", "turns", "calls"}
  PROVE  table \in DOMAIN S.store /\ Chronological(S.store[table])
BY StoresAssumption DEF InScene, S

LEMMA NothingOfToday ==
  ASSUME InScene, ToldRightly
  PROVE  TodayJudgesNotItself
<1> SUFFICES ASSUME Answered("verdicts"), NEW i \in 1..5
             PROVE  Told.comparisons[i].band = Baseline(BandDays(Yesterday)[i])
  <2>1. DOMAIN SUBJECTS = 1..5 BY DEF SUBJECTS
  <2> QED BY <2>1 DEF TodayJudgesNotItself, BandsAre
<1>1. /\ Told = Judged(S.store, PresentDay, Window) /\ Told.start = PresentDay.start
      /\ PresentDay.start \in Int /\ Follow(Window, WindowDays, PresentDay) /\ WindowDays \in Nat
  BY VerdictsTold
<1>2. Told.comparisons[i].band = Baseline(Behind(S.store, i, PresentDay, Window))
  BY <1>1, BandsToldAre
<1>3. BandDays(Yesterday)[i] = Behind(Yesterday, i, PresentDay, Window)
  BY BehindAre DEF BandDays, PresentDay, Window
<1>4. Behind(Yesterday, i, PresentDay, Window) = Behind(S.store, i, PresentDay, Window)
  <2>1. /\ Chronological(S.store.probes) /\ Chronological(S.store.calls)
        /\ {"probes", "turns", "calls"} \subseteq DOMAIN S.store
    BY TablesAre
  <2>2. /\ Yesterday.probes = Without(S.store.probes, PresentDay.start)
        /\ Yesterday.calls = Without(S.store.calls, PresentDay.start)
    BY <1>1, <2>1 DEF Yesterday
  <2> QED BY <1>1, <2>1, <2>2, SameBehind
<1> QED BY <1>2, <1>3, <1>4

-----------------------------------------------------------------------------
(* What comes at a place among values                                      *)

Below(values, v) == {i \in DOMAIN values : values[i] < v}
UpToValue(values, v) == {i \in DOMAIN values : values[i] <= v}
Ranks(values, at, v) ==
    /\ v \in Range(values) /\ v \in Int
    /\ Cardinality(Below(values, v)) <= at /\ Cardinality(UpToValue(values, v)) > at

LEMMA Finite ==
  ASSUME NEW values \in Seq(Int), NEW P \in SUBSET DOMAIN values
  PROVE  IsFiniteSet(P) /\ Cardinality(P) \in Nat
<1>1. DOMAIN values = 1..Len(values) /\ Len(values) \in Nat BY LenProperties
<1>2. IsFiniteSet(1..Len(values)) BY <1>1, FS_Interval
<1>3. IsFiniteSet(P) BY <1>1, <1>2, FS_Subset
<1> QED BY <1>3, FS_CardinalityType

\* A set that lacks an element of a finite set it is part of has fewer.
LEMMA Fewer ==
  ASSUME NEW values \in Seq(Int), NEW P \in SUBSET DOMAIN values, NEW Q \in SUBSET P, NEW x \in P, x \notin Q
  PROVE  Cardinality(Q) < Cardinality(P)
<1>1. IsFiniteSet(P) /\ Cardinality(P) \in Nat BY Finite
<1>2. Q \subseteq DOMAIN values OBVIOUS
<1>3. Cardinality(Q) \in Nat BY <1>2, Finite
<1>4. Cardinality(Q) <= Cardinality(P) /\ Cardinality(P) # Cardinality(Q) BY <1>1, FS_Subset
<1> QED BY <1>1, <1>3, <1>4

LEMMA Greatest ==
  ASSUME NEW values \in Seq(Int), NEW P \in SUBSET DOMAIN values, P # {}
  PROVE  \E i \in P : \A j \in P : values[j] <= values[i]
<1> DEFINE above(i) == {j \in P : values[i] < values[j]}
           N == {Cardinality(above(i)) : i \in P}
<1>0. \A i \in P : values[i] \in Int BY LenProperties
<1>1. N \subseteq Nat
  <2> SUFFICES ASSUME NEW i \in P PROVE Cardinality(above(i)) \in Nat OBVIOUS
  <2>1. above(i) \in SUBSET DOMAIN values OBVIOUS
  <2> HIDE DEF above
  <2> QED BY <2>1, Finite
<1>2. N # {} OBVIOUS
<1> HIDE DEF above
<1>3. PICK x \in N : \A y \in N : x <= y
  <2> HIDE DEF N
  <2> QED BY <1>1, <1>2, Smallest
<1>4. PICK i \in P : x = Cardinality(above(i)) OBVIOUS
<1>5. ASSUME NEW j \in P, ~(values[j] <= values[i]) PROVE FALSE
  <2>1. values[i] < values[j] BY <1>0, <1>5
  <2>2. above(j) \subseteq above(i)
    <3> SUFFICES ASSUME NEW k \in P, values[j] < values[k] PROVE values[i] < values[k] BY DEF above
    <3> QED BY <1>0, <2>1
  <2>3. j \in above(i) BY <2>1 DEF above
  <2>4. j \notin above(j) BY <1>0 DEF above
  <2>5. above(i) \subseteq DOMAIN values BY DEF above
  <2>6. Cardinality(above(j)) < Cardinality(above(i)) BY <2>2, <2>3, <2>4, <2>5, Fewer
  <2>7. Cardinality(above(j)) \in N OBVIOUS
  <2>8. Cardinality(above(i)) <= Cardinality(above(j)) BY <1>3, <1>4, <2>7
  <2>9. Cardinality(above(i)) \in Nat /\ Cardinality(above(j)) \in Nat BY <1>1
  <2> QED BY <2>6, <2>8, <2>9
<1> QED BY <1>5

LEMMA RankExists ==
  ASSUME NEW values \in Seq(Int), NEW at \in Nat, at < Len(values)
  PROVE  \E v : Ranks(values, at, v)
<1> DEFINE upTo(i) == UpToValue(values, values[i])
           P == {i \in DOMAIN values : Cardinality(upTo(i)) > at}
           N == {Cardinality(upTo(i)) : i \in P}
<1>0. DOMAIN values = 1..Len(values) /\ Len(values) \in Nat /\ \A i \in DOMAIN values : values[i] \in Int
  BY LenProperties
<1>1. ASSUME NEW i \in DOMAIN values PROVE upTo(i) \in SUBSET DOMAIN values /\ Cardinality(upTo(i)) \in Nat
  <2>1. upTo(i) \in SUBSET DOMAIN values BY DEF UpToValue
  <2> HIDE DEF upTo
  <2> QED BY <2>1, Finite
<1>2. P # {}
  <2>1. DOMAIN values # {}
    <3>1. 1 \in 1..Len(values) BY <1>0
    <3> QED BY <1>0, <3>1
  <2>2. PICK i \in DOMAIN values : \A j \in DOMAIN values : values[j] <= values[i]
    <3>1. DOMAIN values \in SUBSET DOMAIN values OBVIOUS
    <3> QED BY <2>1, <3>1, Greatest
  <2>3. upTo(i) = 1..Len(values) BY <1>0, <2>2 DEF UpToValue
  <2>4. Cardinality(1..Len(values)) = Len(values)
    <3> DEFINE n == Len(values)
    <3>1. n \in Int /\ 1 \in Int /\ n >= 1 BY <1>0
    <3>2. Cardinality(1..n) = IF 1 > n THEN 0 ELSE n - 1 + 1 BY <3>1, FS_Interval
    <3> QED BY <3>1, <3>2
  <2>5. Cardinality(upTo(i)) > at BY <1>0, <2>3, <2>4
  <2> QED BY <2>5
<1> HIDE DEF upTo
<1>3. N \subseteq Nat BY <1>1
<1>4. N # {} BY <1>2
<1>5. PICK x \in N : \A y \in N : x <= y
  <2> HIDE DEF N
  <2> QED BY <1>3, <1>4, Smallest
<1>6. PICK i \in P : x = Cardinality(upTo(i)) OBVIOUS
<1> DEFINE I == Below(values, values[i])
<1>7. I \in SUBSET DOMAIN values BY DEF Below
<1>8. Cardinality(I) <= at
  <2>0. Cardinality(I) \in Nat
    <3> HIDE DEF I
    <3> QED BY <1>7, Finite
  <2>1. CASE I = {} BY <2>1, FS_EmptySet
  <2>2. CASE I # {}
    <3>1. PICK u \in I : \A j \in I : values[j] <= values[u]
      <4> HIDE DEF I
      <4> QED BY <1>7, <2>2, Greatest
    <3>2. u \in DOMAIN values /\ values[u] < values[i] BY <3>1 DEF Below
    <3>3. upTo(u) = I
      <4>1. ASSUME NEW j \in DOMAIN values PROVE values[j] <= values[u] <=> values[j] < values[i]
        <5>1. values[j] \in Int /\ values[u] \in Int /\ values[i] \in Int BY <1>0, <3>2
        <5>2. values[j] < values[i] => values[j] <= values[u] BY <3>1 DEF Below
        <5> QED BY <3>2, <5>1, <5>2
      <4> QED BY <4>1 DEF upTo, UpToValue, Below
    <3>4. I \subseteq upTo(i) /\ i \in upTo(i) /\ i \notin I
      <4>1. values[i] \in Int /\ \A j \in DOMAIN values : values[j] \in Int BY <1>0
      <4> QED BY <4>1 DEF upTo, UpToValue, Below
    <3>5. Cardinality(I) < Cardinality(upTo(i))
      <4>1. upTo(i) \in SUBSET DOMAIN values BY <1>1
      <4> HIDE DEF I
      <4> QED BY <3>4, <4>1, Fewer
    <3>6. ASSUME Cardinality(I) > at PROVE FALSE
      <4>1. u \in P BY <3>2, <3>3, <3>6
      <4>2. Cardinality(upTo(u)) \in N BY <4>1
      <4>3. Cardinality(upTo(i)) <= Cardinality(I) BY <1>5, <1>6, <3>3, <4>2
      <4>4. Cardinality(upTo(i)) \in Nat BY <1>1
      <4> HIDE DEF I
      <4> QED BY <2>0, <3>5, <4>3, <4>4
    <3> HIDE DEF I
    <3> QED BY <2>0, <3>6
  <2> QED BY <2>1, <2>2
<1>9. Ranks(values, at, values[i])
  <2>1. i \in DOMAIN values /\ Cardinality(upTo(i)) > at OBVIOUS
  <2>2. values[i] \in Range(values) /\ values[i] \in Int BY <1>0, <2>1 DEF Range
  <2> QED BY <1>8, <2>1, <2>2 DEF Ranks, upTo
<1> QED BY <1>9

LEMMA RankedIs ==
  ASSUME NEW values \in Seq(Int), NEW at \in Nat, at < Len(values)
  PROVE  Ranks(values, at, Ranked(values, at))
<1>1. PICK v : Ranks(values, at, v) BY RankExists
<1>2. \A w \in Range(values) : w \in Int
  <2>1. Range(values) \subseteq Int BY RangeOfSeq
  <2> QED BY <2>1
<1> DEFINE c == Ranked(values, at)
<1>3. /\ c \in Range(values) /\ Cardinality({i \in DOMAIN values : values[i] < c}) <= at
      /\ Cardinality({i \in DOMAIN values : values[i] <= c}) > at
  BY <1>1 DEF Ranked, Ranks, Below, UpToValue
<1> HIDE DEF c
<1>4. Ranks(values, at, c) BY <1>2, <1>3 DEF Ranks, Below, UpToValue
<1> QED BY <1>4 DEF c

\* Among as many places as two there is another than any one.
LEMMA AnotherOne ==
  ASSUME NEW values \in Seq(Int), NEW P \in SUBSET DOMAIN values, Cardinality(P) > 1
  PROVE  \A k : \E j \in P : j # k
<1> SUFFICES ASSUME NEW k PROVE \E j \in P : j # k OBVIOUS
<1>1. SUFFICES ASSUME \A j \in P : j = k PROVE FALSE OBVIOUS
<1>2. P \subseteq {k} BY <1>1
<1>3. IsFiniteSet({k}) /\ Cardinality({k}) = 1 BY FS_Singleton
<1>4. Cardinality(P) <= 1 BY <1>2, <1>3, FS_Subset
<1>5. Cardinality(P) \in Nat BY Finite
<1> QED BY <1>4, <1>5

LEMMA MedianIs ==
  ASSUME NEW values \in Seq(Int)
  PROVE  /\ Median(values) \in Int
         /\ Len(values) > 0 => Median(values) = Ranked(values, Len(values) \div 2)
<1> DEFINE n == Len(values)
<1>0. n \in Nat BY LenProperties
<1>1. CASE values = <<>> BY <1>1 DEF Median
<1>2. CASE values # <<>>
  <2>1. n > 0 BY <1>0, <1>2, EmptySeq
  <2>2. (2 * (n - 1) * 50 + 100) \div 200 = n \div 2
    <3> HIDE DEF n
    <3>1. 2 * (n - 1) * 50 + 100 = 100 * n BY <1>0
    <3>2. (100 * n) \div 200 = n \div 2 BY <1>0
    <3> QED BY <3>1, <3>2
  <2>3. Percentile(values, 50) = {Ranked(values, n \div 2)} BY <1>2, <2>2 DEF Percentile
  <2>4. Median(values) = Ranked(values, n \div 2) BY <1>2, <2>3 DEF Median
  <2>5. n \div 2 \in Nat /\ n \div 2 < n BY <1>0, <2>1
  <2>6. Ranked(values, n \div 2) \in Int BY <2>5, RankedIs DEF Ranks
  <2> QED BY <2>4, <2>6
<1> QED BY <1>1, <1>2

LEMMA NotOneAlone ==
  ASSUME NEW values \in Seq(Int), Len(values) >= 4, NEW k
  PROVE  /\ \E j \in DOMAIN values : j # k /\ values[j] <= Median(values)
         /\ \E j \in DOMAIN values : j # k /\ values[j] >= Median(values)
<1> DEFINE n == Len(values)
           m == Median(values)
           below == Below(values, m)
           upTo == UpToValue(values, m)
           above == DOMAIN values \ below
<1>0. n \in Nat /\ DOMAIN values = 1..n /\ \A i \in DOMAIN values : values[i] \in Int BY LenProperties
<1>1. m = Ranked(values, n \div 2) /\ m \in Int BY <1>0, MedianIs
<1>2. n \div 2 \in Nat /\ n \div 2 < n /\ n \div 2 > 1 /\ n - (n \div 2) > 1 BY <1>0
<1>3. Ranks(values, n \div 2, m) BY <1>1, <1>2, RankedIs
<1> HIDE DEF m
<1>4. Cardinality(below) <= n \div 2 /\ Cardinality(upTo) > n \div 2 BY <1>3 DEF Ranks
<1>5. below \in SUBSET DOMAIN values /\ upTo \in SUBSET DOMAIN values /\ above \in SUBSET DOMAIN values
  BY DEF Below, UpToValue
<1>6. \A j \in upTo : values[j] <= m BY DEF UpToValue
<1>7. \A j \in above : values[j] >= m BY <1>0, <1>1 DEF Below
<1> HIDE DEF upTo, below
<1>8. Cardinality(above) > 1
  <2>1. /\ IsFiniteSet(below) /\ Cardinality(below) \in Nat
        /\ IsFiniteSet(above) /\ Cardinality(above) \in Nat
    <3> HIDE DEF above
    <3> QED BY <1>5, Finite
  <2>2. Cardinality(DOMAIN values) = n
    <3>1. n \in Int /\ 1 \in Int /\ n >= 1 BY <1>0
    <3>2. Cardinality(1..n) = IF 1 > n THEN 0 ELSE n - 1 + 1 BY <3>1, FS_Interval
    <3>3. Cardinality(1..n) = n BY <3>1, <3>2
    <3> QED BY <1>0, <3>3
  <2>3. DOMAIN values \in SUBSET DOMAIN values OBVIOUS
  <2>4. IsFiniteSet(DOMAIN values) BY <2>3, Finite
  <2>5. Cardinality(above) = Cardinality(DOMAIN values) - Cardinality(DOMAIN values \cap below)
    BY <2>4, FS_Difference
  <2>6. DOMAIN values \cap below = below BY <1>5
  <2> HIDE DEF above, n
  <2>7. Cardinality(above) = n - Cardinality(below) BY <2>2, <2>5, <2>6
  <2> QED BY ONLY <1>0, <1>2, <1>4, <2>1, <2>7
<1>9. Cardinality(upTo) > 1
  <2>1. Cardinality(upTo) \in Nat BY <1>5, Finite
  <2> HIDE DEF n
  <2> QED BY <1>0, <1>2, <1>4, <2>1
<1> HIDE DEF above
<1>10. \A x : \E j \in upTo : j # x BY <1>5, <1>9, AnotherOne
<1>11. \A x : \E j \in above : j # x BY <1>5, <1>8, AnotherOne
<1> QED BY <1>5, <1>6, <1>7, <1>10, <1>11 DEF m

-----------------------------------------------------------------------------
(* What a day's value is                                                   *)

WorthOfDay == [value : Int, n : Nat]
AtMostOne(X, T) == X = {} \/ \E x \in T : X = {x}

LEMMA AtMostOneListed ==
  ASSUME NEW T, NEW X, AtMostOne(X, T)
  PROVE  SetToSeq(X) \in Seq(T)
<1>1. CASE X = {}
  <2>1. <<>> \in Seq(T) OBVIOUS
  <2> QED BY <1>1, <2>1, NoneAtAll
<1>2. CASE X # {}
  <2>1. PICK x \in T : X = {x} BY <1>2 DEF AtMostOne
  <2>2. SetToSeq(X) = <<x>> BY <2>1, OneAlone
  <2> QED BY <2>2
<1> QED BY <1>1, <1>2

LEMMA TotalTyped ==
  ASSUME NEW s \in Seq(Nat)
  PROVE  Total(s) \in Nat
<1>0. Len(s) \in Nat /\ \A i \in 1..Len(s) : s[i] \in Nat BY LenProperties
<1>1. PICK f : TotalIs(s, f) /\ Total(s) = f[Len(s)] BY <1>0, TotalReads
<1>2. \A i \in 0..Len(s) : f[i] = IF i = 0 THEN 0 ELSE f[i - 1] + s[i] BY <1>1 DEF TotalIs
<1> DEFINE G == {i \in 0..Len(s) : f[i] \in Nat}
<1>3. 0 \in G BY <1>0, <1>2
<1>4. ASSUME NEW i \in 1..Len(s), i - 1 \in G PROVE i \in G
  <2>1. f[i] = f[i - 1] + s[i] BY <1>2
  <2> QED BY <1>0, <1>4, <2>1
<1> HIDE DEF G
<1>5. Climbs(G, Len(s)) BY <1>3, <1>4 DEF Climbs
<1>6. Len(s) \in G BY <1>0, <1>5, Upwards
<1> QED BY <1>1, <1>6 DEF G

\* The median of each day's probe runs.
LEMMA ProbeValueTyped ==
  ASSUME NEW rows, Chronological(rows), \A r \in Range(rows) : \A m \in DOMAIN r.metrics : r.metrics[m] \in Int,
         NEW metric, NEW from, NEW to, NEW day
  PROVE  AtMostOne(ProbeValue(rows, metric, from, to, day), WorthOfDay)
<1> DEFINE A == Worth(rows, metric, from, to)
           w == Where(rows, A)
           s == FirstOf(w, MaxRows)
           D == {r \in Range(s) : InDay(day, r.ts)}
           d == Where(s, D)
           v == [i \in 1..Len(d) |-> d[i].metrics[metric]]
<1>0. rows \in Seq(Range(rows)) BY DEF Chronological
<1>1. ComparableValues(rows, metric, from, to) = s
  <2> DEFINE T == Range(rows)
  <2>1. rows \in Seq(T) BY <1>0
  <2> HIDE DEF T
  <2> QED BY <2>1, ValuesAre
<1>2. \A r \in A : r.metrics[metric] \in Int BY DEF Worth
<1> HIDE DEF A
<1>3. w \in Seq(A)
  <2> DEFINE T == Range(rows)
  <2>1. rows \in Seq(T) BY <1>0
  <2> HIDE DEF T
  <2>2. w \in Seq(T) /\ Range(w) = Range(rows) \cap A BY <2>1, WherePicks, WhereRange
  <2>3. w \in Seq(Range(w)) BY <2>2, SeqOfRange
  <2>4. Len(w) \in Nat /\ w = [i \in 1..Len(w) |-> w[i]] /\ \A i \in 1..Len(w) : w[i] \in Range(w)
    BY <2>3, LenProperties
  <2>5. \A i \in 1..Len(w) : w[i] \in A BY <2>2, <2>4
  <2> HIDE DEF w
  <2> QED BY <2>4, <2>5
<1> HIDE DEF w
<1>4. s \in Seq(A) BY <1>3, FirstIs, QueriesAssumption
<1> HIDE DEF s
<1>5. d \in Seq(A)
  <2> HIDE DEF D
  <2> QED BY <1>4, WherePicks
<1>6. ProbeValue(rows, metric, from, to, day) = ReduceDay(<<>> \o v)
  BY <1>1 DEF ProbeValue, Each, WithinDay
<1> HIDE DEF d
<1>7. v \in Seq(Int) /\ Len(d) \in Nat
  <2>1. Len(d) \in Nat /\ \A i \in 1..Len(d) : d[i] \in A BY <1>5, LenProperties
  <2>2. \A i \in 1..Len(d) : d[i].metrics[metric] \in Int BY <1>2, <2>1
  <2> QED BY <2>1, <2>2
<1> HIDE DEF v
<1>8. <<>> \o v = v BY <1>7, ConcatEmptySeq
<1>9. Median(v) \in Int /\ Len(v) \in Nat BY <1>7, MedianIs, LenProperties
<1>10. [value |-> Median(v), n |-> Len(v)] \in WorthOfDay BY <1>9 DEF WorthOfDay
<1> QED BY <1>6, <1>8, <1>10 DEF ReduceDay, AtMostOne

-----------------------------------------------------------------------------
(* What a bucket is                                                        *)

LEMMA LastIs ==
  ASSUME NEW T, NEW s \in Seq(T), NEW n \in Nat
  PROVE  /\ LastOf(s, n) \in Seq(T)
         /\ Len(LastOf(s, n)) = IF n < Len(s) THEN n ELSE Len(s)
         /\ \A i \in 1..Len(LastOf(s, n)) : LastOf(s, n)[i] = s[Len(s) - Len(LastOf(s, n)) + i]
<1> DEFINE m == IF n < Len(s) THEN Len(s) - n + 1 ELSE 1
           l == Len(s)
           u == LastOf(s, n)
<1>0. l \in Nat /\ \A i \in 1..l : s[i] \in T BY LenProperties
<1>1. m \in Nat /\ m >= 1 /\ m <= l + 1 BY <1>0
<1>2. u = SubSeq(s, m, l) BY DEF LastOf
<1>3. \A i \in m..l : s[i] \in T BY <1>0, <1>1
<1>4. l - m + 1 = IF n < l THEN n ELSE l BY <1>0
<1> HIDE DEF m, l, u
<1>5. /\ u \in Seq(T) /\ Len(u) = (IF m <= l THEN l - m + 1 ELSE 0)
      /\ \A i \in 1..l - m + 1 : u[i] = s[m + i - 1]
  <2>1. l \in Int /\ m \in Int BY <1>0, <1>1
  <2> QED BY <1>2, <1>3, <2>1, SubSeqProperties
<1>6. Len(u) = l - m + 1 BY <1>0, <1>1, <1>5
<1>7. Len(u) = IF n < l THEN n ELSE l BY <1>4, <1>6
<1>8. ASSUME NEW i \in 1..Len(u) PROVE u[i] = s[l - Len(u) + i]
  <2>1. u[i] = s[m + i - 1] BY <1>5, <1>6
  <2>2. m + i - 1 = l - Len(u) + i BY <1>0, <1>1, <1>6
  <2> QED BY <2>1, <2>2
<1> QED BY <1>5, <1>7, <1>8 DEF u, l

\* Rows of a stream, and the buckets made of them.
Streamed(T) == \A x \in T : x.ts \in Int /\ x.value \in Int
Bucketed == [ts : Int, n : Nat, value : Int]
Stream(T) == [points : Seq(Bucketed), bucket : Int, rows : Seq(T)]

LEMMA ReduceTyped ==
  ASSUME NEW T, Streamed(T), NEW rows \in Seq(T), NEW bucket \in Int
  PROVE  Reduce(bucket, rows, "median") \in Bucketed
<1> DEFINE v == [i \in 1..Len(rows) |-> rows[i].value]
<1>0. Len(rows) \in Nat /\ \A i \in 1..Len(rows) : rows[i] \in T BY LenProperties
<1>1. v \in Seq(Int)
  <2>1. \A i \in 1..Len(rows) : rows[i].value \in Int BY <1>0 DEF Streamed
  <2> QED BY <1>0, <2>1
<1>2. Reduce(bucket, rows, "median") = [ts |-> bucket, n |-> Len(rows), value |-> Median(<<>> \o v)]
  BY DEF Reduce, Reduced, Each
<1> HIDE DEF v
<1>3. <<>> \o v = v BY <1>1, ConcatEmptySeq
<1>4. Median(v) \in Int BY <1>1, MedianIs
<1> QED BY <1>0, <1>2, <1>3, <1>4 DEF Bucketed

LEMMA ClosedTyped ==
  ASSUME NEW T, Streamed(T), NEW acc \in Stream(T)
  PROVE  Closed(acc, "median") \in Seq(Bucketed)
<1>1. acc.points \in Seq(Bucketed) /\ acc.bucket \in Int /\ acc.rows \in Seq(T) BY DEF Stream
<1>2. Reduce(acc.bucket, acc.rows, "median") \in Bucketed BY <1>1, ReduceTyped
<1> QED BY <1>1, <1>2, AppendProperties DEF Closed

LEMMA NextTyped ==
  ASSUME NEW T, Streamed(T), NEW acc \in Stream(T), NEW row \in T, NEW width \in Nat \ {0}
  PROVE  NextBucket(acc, row, width, "median") \in Stream(T)
<1> DEFINE start == (row.ts \div width) * width
<1>1. acc.points \in Seq(Bucketed) /\ acc.bucket \in Int /\ acc.rows \in Seq(T) BY DEF Stream
<1>2. start \in Int
  <2>1. row.ts \in Int BY DEF Streamed
  <2>2. row.ts \div width \in Int BY <2>1
  <2> QED BY <2>2
<1>3. Closed(acc, "median") \in Seq(Bucketed) BY ClosedTyped
<1>4. Append(acc.rows, row) \in Seq(T) /\ <<row>> \in Seq(T) BY <1>1, AppendProperties
<1>5. [acc EXCEPT !.rows = Append(@, row)] \in Stream(T) BY <1>4 DEF Stream
<1>6. [points |-> Closed(acc, "median"), bucket |-> start, rows |-> <<row>>] \in Stream(T)
  <2> HIDE DEF start
  <2> QED BY <1>2, <1>3, <1>4 DEF Stream
<1> QED BY <1>5, <1>6 DEF NextBucket

LEMMA BucketsTyped ==
  ASSUME NEW T, Streamed(T), NEW s \in Seq(T), NEW width \in Nat \ {0}
  PROVE  Buckets(s, width, "median") \in Seq(Bucketed)
<1>0. Len(s) \in Nat /\ \A i \in 1..Len(s) : s[i] \in T BY LenProperties
<1>1. PICK f : BucketsAre(s, width, "median", f) /\ Buckets(s, width, "median") = Closed(f[Len(s)], "median")
  BY <1>0, BucketsRead
<1>2. /\ f[0] = [points |-> <<>>, bucket |-> -width, rows |-> <<>>]
      /\ \A i \in 1..Len(s) : f[i] = NextBucket(f[i - 1], s[i], width, "median")
  BY <1>0, <1>1 DEF BucketsAre
<1> DEFINE G == {i \in 0..Len(s) : f[i] \in Stream(T)}
<1>3. 0 \in G
  <2>1. <<>> \in Seq(T) /\ <<>> \in Seq(Bucketed) /\ -width \in Int OBVIOUS
  <2>2. f[0] \in Stream(T) BY <1>2, <2>1 DEF Stream
  <2> QED BY <1>0, <2>2
<1>4. ASSUME NEW i \in 1..Len(s), i - 1 \in G PROVE i \in G
  <2>1. f[i - 1] \in Stream(T) /\ s[i] \in T BY <1>0, <1>4
  <2>2. f[i] \in Stream(T) BY <1>2, <2>1, NextTyped
  <2> QED BY <1>0, <2>2
<1> HIDE DEF G
<1>5. Climbs(G, Len(s)) BY <1>3, <1>4 DEF Climbs
<1>6. Len(s) \in G BY <1>0, <1>5, Upwards
<1>7. f[Len(s)] \in Stream(T) BY <1>6 DEF G
<1> QED BY <1>1, <1>7, ClosedTyped

\* The median of each day's calls.
LEMMA ToolValueTyped ==
  ASSUME NEW store, Chronological(store.calls), \A r \in Range(store.calls) : r.ms \in Int,
         NEW day, day.start \in Int, day.end \in Int
  PROVE  AtMostOne(ToolValue(store, day), WorthOfDay)
<1> DEFINE T == Range(store.calls)
           a == Answering(store.calls)
           U == AsRow(T)
           s == AsRows(a)
           D == {r \in Range(s) : day.start <= r.ts /\ r.ts <= day.end - 1}
           b == LastOf(Where(s, D), MaxRows)
           width == Larger(LengthOf(day), 1)
           k == Buckets(b, width, "median")
           ns == [i \in 1..Len(k) |-> k[i].n]
           vs == [i \in 1..Len(k) |-> k[i].value]
<1>0. store.calls \in Seq(T) /\ (\A r \in T : r.ts \in Int) /\ \A r \in T : r.ms \in Int BY DEF Chronological
<1> HIDE DEF T
<1>1. a \in Seq(T)
  <2> DEFINE A == {r \in Range(store.calls) : r.ok /\ r.tool \in {"Read"}}
  <2>1. a = Where(store.calls, A) BY DEF Answering
  <2> HIDE DEF A, a
  <2> QED BY <1>0, <2>1, WherePicks
<1>2. SessionRows(store, "tool_read_ms") = s BY <1>0, ToolRows
<1> HIDE DEF a
<1>3. Streamed(U) BY <1>0 DEF Streamed, AsRow, Weighed
<1>4. s \in Seq(U) BY <1>1, AsRowsTyped
<1> HIDE DEF U, s
<1>5. Between(SessionRows(store, "tool_read_ms"), day.start, day.end - 1) = Where(s, D)
  BY <1>2 DEF Between
<1>6. Where(s, D) \in Seq(U)
  <2> HIDE DEF D
  <2> QED BY <1>4, WherePicks
<1>7. b \in Seq(U)
  <2> HIDE DEF D
  <2> DEFINE w == Where(s, D)
  <2>1. w \in Seq(U) BY <1>6
  <2> HIDE DEF w
  <2>2. LastOf(w, MaxRows) \in Seq(U) BY <2>1, LastIs, QueriesAssumption
  <2> QED BY <2>2 DEF w
<1>8. width \in Nat \ {0}
  <2>1. LengthOf(day) \in Int BY DEF LengthOf
  <2> QED BY <2>1 DEF Larger
<1>9. Aggregation("tool_read_ms") = "median"
  <2> DEFINE f == [x \in DOMAIN Tools \cup {"first_response_ms"} |-> "ms"]
             g == [output_tokens |-> "tokens", output_tokens_per_s |-> "tokens/s", cache_hit_ratio |-> "ratio"]
  <2>1. "tool_read_ms" \in DOMAIN Tools BY DEF Tools
  <2>2. "tool_read_ms" \in DOMAIN f /\ f["tool_read_ms"] = "ms" BY <2>1
  <2>3. SessionUnit = Extended(f, g) BY DEF SessionUnit
  <2> HIDE DEF f, g
  <2>4. SessionUnit["tool_read_ms"] = "ms" BY <2>2, <2>3 DEF Extended
  <2> QED BY <2>4 DEF Aggregation
<1>10. SessionBuckets(store, "tool_read_ms", day.start, day.end - 1, LengthOf(day)) = k
  BY <1>5, <1>9 DEF SessionBuckets
<1> HIDE DEF b, width
<1>11. k \in Seq(Bucketed) BY <1>3, <1>7, <1>8, BucketsTyped
<1>12. ToolValue(store, day) = DayOf(k) BY <1>10 DEF ToolValue
<1> HIDE DEF k
<1>13. DayOf(k) = LET total == Total(<<>> \o ns)
                  IN  IF total < MIN_OBSERVATIONS_PER_DAY THEN {}
                      ELSE {[value |-> Median(<<>> \o vs), n |-> total]}
  BY DEF DayOf, Each
<1>14. ns \in Seq(Nat) /\ vs \in Seq(Int)
  <2>1. Len(k) \in Nat /\ \A i \in 1..Len(k) : k[i] \in Bucketed BY <1>11, LenProperties
  <2>2. \A i \in 1..Len(k) : k[i].n \in Nat /\ k[i].value \in Int BY <2>1 DEF Bucketed
  <2> QED BY <2>1, <2>2
<1> HIDE DEF ns, vs
<1>15. <<>> \o ns = ns /\ <<>> \o vs = vs BY <1>14, ConcatEmptySeq
<1>16. Total(ns) \in Nat /\ Median(vs) \in Int BY <1>14, TotalTyped, MedianIs
<1>17. [value |-> Median(vs), n |-> Total(ns)] \in WorthOfDay BY <1>16 DEF WorthOfDay
<1>18. DayOf(k) = {} \/ DayOf(k) = {[value |-> Median(vs), n |-> Total(ns)]} BY <1>13, <1>15
<1> QED BY <1>12, <1>17, <1>18 DEF AtMostOne

\* The days behind a band each have a value.
LEMMA BehindTyped ==
  ASSUME NEW store, Chronological(store.probes), Chronological(store.calls),
         \A r \in Range(store.probes) : \A m \in DOMAIN r.metrics : r.metrics[m] \in Int,
         \A r \in Range(store.calls) : r.ms \in Int,
         NEW today, NEW window \in Seq([start : Int, end : Int]), NEW i \in 1..5
  PROVE  Behind(store, i, today, window) \in Seq(WorthOfDay)
<1>0. Len(window) \in Nat /\ \A k \in 1..Len(window) : window[k].start \in Int /\ window[k].end \in Int
  <2>1. Len(window) \in Nat /\ \A k \in 1..Len(window) : window[k] \in [start : Int, end : Int]
    BY LenProperties
  <2> QED BY <2>1
<1>1. CASE SUBJECTS[i].probe
  <2> DEFINE m == SUBJECTS[i].metric
             from == EvidenceFrom(today, window)
             to == today.end - 1
             of(k) == SetToSeq(ProbeValue(store.probes, m, from, to, window[k]))
             all == [k \in 1..Len(window) |-> of(k)]
  <2>1. Behind(store, i, today, window) = ProbeDays(store.probes, m, today, window)
    BY <1>1, ProbesBehind DEF Behind
  <2>2. ProbeDays(store.probes, m, today, window) = FlattenSeq(all) BY DEF ProbeDays
  <2> HIDE DEF m, from, to
  <2>3. ASSUME NEW k \in 1..Len(window) PROVE of(k) \in Seq(WorthOfDay)
    <3>1. AtMostOne(ProbeValue(store.probes, m, from, to, window[k]), WorthOfDay) BY ProbeValueTyped
    <3> QED BY <3>1, AtMostOneListed
  <2> HIDE DEF of
  <2>4. all \in Seq(Seq(WorthOfDay)) BY <1>0, <2>3
  <2> HIDE DEF all
  <2>5. FlattenSeq(all) \in Seq(WorthOfDay) BY <2>4, FlattenTyped
  <2> QED BY <2>1, <2>2, <2>5
<1>2. CASE ~SUBJECTS[i].probe
  <2> DEFINE of(k) == SetToSeq(ToolValue(store, window[k]))
             all == [k \in 1..Len(window) |-> of(k)]
  <2>0. SUBJECTS[i].metric = "tool_read_ms" BY <1>2, SubjectsAre
  <2>1. Behind(store, i, today, window) = ToolDays(store, window) BY <1>2, <2>0, ToolsBehind DEF Behind
  <2>2. ToolDays(store, window) = FlattenSeq(all) BY DEF ToolDays
  <2>3. ASSUME NEW k \in 1..Len(window) PROVE of(k) \in Seq(WorthOfDay)
    <3>1. AtMostOne(ToolValue(store, window[k]), WorthOfDay) BY <1>0, ToolValueTyped
    <3> QED BY <3>1, AtMostOneListed
  <2> HIDE DEF of
  <2>4. all \in Seq(Seq(WorthOfDay)) BY <1>0, <2>3
  <2> HIDE DEF all
  <2>5. FlattenSeq(all) \in Seq(WorthOfDay) BY <2>4, FlattenTyped
  <2> QED BY <2>1, <2>2, <2>5
<1> QED BY <1>1, <1>2

LEMMA BaselineIs ==
  ASSUME NEW days \in Seq(WorthOfDay), NEW b \in Baseline(days), NEW k
  PROVE  /\ \E j \in DOMAIN days : j # k /\ days[j].value <= b.median
         /\ \E j \in DOMAIN days : j # k /\ days[j].value >= b.median
<1> DEFINE v == [i \in 1..Len(days) |-> days[i].value]
           f == BandAround(<<>> \o v)
           g == [days |-> Len(days), observations |-> Total(Each(LAMBDA d : d.n, days))]
<1>0. Len(days) \in Nat /\ DOMAIN days = 1..Len(days) /\ \A i \in 1..Len(days) : days[i] \in WorthOfDay
  BY LenProperties
<1>1. v \in Seq(Int) /\ Len(v) = Len(days)
  <2>1. \A i \in 1..Len(days) : days[i].value \in Int BY <1>0 DEF WorthOfDay
  <2> QED BY <1>0, <2>1
<1>2. Len(days) >= 4 /\ b = Extended(f, g)
  <2>1. Baseline(days) = IF Len(days) < MIN_DAYS THEN {} ELSE {Extended(f, g)} BY DEF Baseline, Each
  <2> HIDE DEF f, g
  <2> QED BY <1>0, <2>1 DEF MIN_DAYS
<1>3. \A j \in 1..Len(days) : v[j] = days[j].value OBVIOUS
<1> HIDE DEF v
<1>4. <<>> \o v = v BY <1>1, ConcatEmptySeq
<1>5. "median" \in DOMAIN f /\ f["median"] = Median(v)
  <2>1. f = BandAround(v) BY <1>4
  <2> DEFINE m == Median(v)
             mad == Median(Each(LAMBDA x : Abs(x - m), v))
  <2>2. BandAround(v) = BandOf(m, mad) BY DEF BandAround, Around
  <2> HIDE DEF m, mad
  <2>3. "median" \in DOMAIN BandOf(m, mad) /\ BandOf(m, mad)["median"] = m BY DEF BandOf
  <2> HIDE DEF f
  <2> QED BY <2>1, <2>2, <2>3 DEF m
<1>6. b.median = Median(v)
  <2> HIDE DEF f, g
  <2>1. Extended(f, g)["median"] = f["median"] BY <1>5 DEF Extended
  <2> QED BY <1>2, <1>5, <2>1
<1>7. /\ \E j \in DOMAIN v : j # k /\ v[j] <= Median(v)
      /\ \E j \in DOMAIN v : j # k /\ v[j] >= Median(v)
  BY <1>1, <1>2, NotOneAlone
<1>8. DOMAIN v = 1..Len(days) BY <1>1, LenProperties
<1> QED BY <1>0, <1>3, <1>6, <1>7, <1>8

LEMMA NoOneDay ==
  ASSUME InScene, ToldRightly
  PROVE  OneDayIsNotTheNorm
<1> SUFFICES ASSUME Answered("verdicts"), NEW i \in 1..5, NEW b \in Told.comparisons[i].band,
                    NEW k \in DOMAIN BandDays(S.store)[i]
             PROVE  /\ \E j \in DOMAIN BandDays(S.store)[i] \ {k} : BandDays(S.store)[i][j].value <= b.median
                    /\ \E j \in DOMAIN BandDays(S.store)[i] \ {k} : BandDays(S.store)[i][j].value >= b.median
  <2>1. DOMAIN SUBJECTS = 1..5 BY DEF SUBJECTS
  <2> QED BY <2>1 DEF OneDayIsNotTheNorm, Outvoted
<1> DEFINE days == Behind(S.store, i, PresentDay, Window)
<1>1. /\ Told = Judged(S.store, PresentDay, Window) /\ Follow(Window, WindowDays, PresentDay)
  BY VerdictsTold
<1>2. Told.comparisons[i].band = Baseline(days) BY <1>1, BandsToldAre
<1>3. BandDays(S.store)[i] = days BY BehindAre DEF BandDays, PresentDay, Window
<1>4. /\ Chronological(S.store.probes) /\ Chronological(S.store.calls)
      /\ \A r \in Range(S.store.probes) : \A m \in DOMAIN r.metrics : r.metrics[m] \in Int
      /\ \A r \in Range(S.store.calls) : r.ms \in Int
  BY StoresAssumption DEF InScene, S
<1>5. Window \in Seq([start : Int, end : Int]) BY <1>1 DEF Follow
<1>6. days \in Seq(WorthOfDay) BY <1>4, <1>5, BehindTyped
<1> HIDE DEF days
<1>7. b \in Baseline(days) BY <1>2
<1>8. /\ \E j \in DOMAIN days : j # k /\ days[j].value <= b.median
      /\ \E j \in DOMAIN days : j # k /\ days[j].value >= b.median
  BY <1>6, <1>7, BaselineIs
<1> QED BY <1>3, <1>8

\* What is normal is decided by the days before today, and by no single one of them: today's
\* rows never reach the band they are judged against, and whichever day is set aside, the
\* band's middle stays among the values of the others (comparison/mod.rs, baseline.rs).
THEOREM BandIsNorm == Spec => []BandIsTheNorm
<1>1. InScene /\ ToldRightly => BandIsTheNorm BY NothingOfToday, NoOneDay DEF BandIsTheNorm
<1> QED BY <1>1, ToldIsRight, StaysInScene, PTL

-----------------------------------------------------------------------------
(* The recent end of a chart                                               *)

\* Later in a sequence is later in time.
Rising(s) ==
    /\ s \in Seq(Range(s)) /\ \A r \in Range(s) : r.ts \in Int
    /\ \A i, j \in DOMAIN s : i < j => s[i].ts < s[j].ts

LEMMA TableRises ==
  ASSUME NEW s, Chronological(s), OnePerInstant(s)
  PROVE  Rising(s)
<1>1. s \in Seq(Range(s)) /\ (\A r \in Range(s) : r.ts \in Int) BY DEF Chronological
<1>2. ASSUME NEW i \in DOMAIN s, NEW j \in DOMAIN s, i < j PROVE s[i].ts < s[j].ts
  <2>1. s[i].ts <= s[j].ts BY <1>2 DEF Chronological
  <2>2. i # j
    <3>1. i \in Int /\ j \in Int BY <1>1, LenProperties
    <3> QED BY <3>1, <1>2
  <2>3. s[i].ts # s[j].ts BY <2>2 DEF OnePerInstant
  <2>4. s[i].ts \in Int /\ s[j].ts \in Int BY <1>1 DEF Range
  <2> QED BY <2>1, <2>3, <2>4
<1> QED BY <1>1, <1>2 DEF Rising

LEMMA WhereRises ==
  ASSUME NEW s, Rising(s), NEW A
  PROVE  Rising(Where(s, A)) /\ Range(Where(s, A)) = Range(s) \cap A
<1> DEFINE w == Where(s, A)
           T == Range(s)
<1>0. s \in Seq(T) /\ (\A r \in T : r.ts \in Int) /\ \A i, j \in DOMAIN s : i < j => s[i].ts < s[j].ts
  BY DEF Rising
<1>1. w \in Seq(T) BY <1>0, WherePicks
<1>a. PICK f : Picks(s, A, w, f)
  <2> HIDE DEF T
  <2> QED BY <1>0, WherePicks
<1>2. Lists(f, Len(w), Places(s, A)) /\ \A k \in 1..Len(w) : w[k] = s[f[k]] BY <1>a DEF Picks
<1>3. Range(w) = T \cap A
  <2> HIDE DEF T
  <2> QED BY <1>0, WhereRange DEF T
<1> HIDE DEF w
<1>4. DOMAIN w = 1..Len(w) BY <1>1, LenProperties
<1>5. ASSUME NEW i \in DOMAIN w, NEW j \in DOMAIN w, i < j PROVE w[i].ts < w[j].ts
  <2>1. f[i] < f[j] /\ f[i] \in Places(s, A) /\ f[j] \in Places(s, A) BY <1>2, <1>4, <1>5 DEF Lists
  <2>2. s[f[i]].ts < s[f[j]].ts BY <1>0, <2>1 DEF Places
  <2> QED BY <1>2, <1>4, <2>2
<1>6. w \in Seq(Range(w)) BY <1>1, SeqOfRange
<1> QED BY <1>0, <1>3, <1>5, <1>6 DEF Rising, w

\* What is drawn of each row, at the row's instant.
LEMMA PointsRise ==
  ASSUME NEW s, Rising(s), NEW pt, \A x \in Range(s) : pt[x].ts = x.ts, NEW p,
         p = [i \in 1..Len(s) |-> pt[s[i]]]
  PROVE  Rising(<<>> \o p) /\ Range(<<>> \o p) = {pt[x] : x \in Range(s)}
<1> DEFINE T == Range(s)
           P == {pt[x] : x \in T}
<1>0. s \in Seq(T) /\ (\A r \in T : r.ts \in Int) /\ \A i, j \in DOMAIN s : i < j => s[i].ts < s[j].ts
  BY DEF Rising
<1>1. Len(s) \in Nat /\ DOMAIN s = 1..Len(s) /\ \A i \in 1..Len(s) : s[i] \in T
  <2> HIDE DEF T
  <2> QED BY <1>0, LenProperties
<1>2. \A i \in 1..Len(s) : p[i] = pt[s[i]] OBVIOUS
<1>3. p \in Seq(P) /\ Len(p) = Len(s) /\ DOMAIN p = 1..Len(s)
  <2>1. \A i \in 1..Len(s) : pt[s[i]] \in P BY <1>1
  <2> HIDE DEF P, T
  <2> QED BY <1>1, <2>1
<1>4. <<>> \o p = p
  <2> HIDE DEF P
  <2> QED BY <1>3, ConcatEmptySeq
<1>5. Range(p) = P
  <2>1. \A i \in 1..Len(s) : p[i] \in P BY <1>1, <1>2
  <2>2. ASSUME NEW x \in T PROVE pt[x] \in Range(p)
    <3>1. PICK i \in 1..Len(s) : x = s[i] BY <1>1 DEF Range
    <3>2. p[i] = pt[x] BY <1>2, <3>1
    <3> QED BY <1>3, <3>2 DEF Range
  <2>3. \A x \in P : x \in Range(p) BY <2>2
  <2> HIDE DEF P
  <2>4. \A x \in Range(p) : x \in P BY <1>3, <2>1 DEF Range
  <2> QED BY <2>3, <2>4
<1>6. ASSUME NEW i \in DOMAIN p, NEW j \in DOMAIN p, i < j PROVE p[i].ts < p[j].ts
  <2>1. s[i].ts < s[j].ts BY <1>0, <1>1, <1>3, <1>6
  <2>2. p[i].ts = s[i].ts /\ p[j].ts = s[j].ts BY <1>1, <1>2, <1>3
  <2> QED BY <2>1, <2>2
<1>7. \A x \in P : x.ts \in Int BY <1>0
<1> HIDE DEF P
<1>8. p \in Seq(Range(p)) BY <1>3, SeqOfRange
<1> QED BY <1>4, <1>5, <1>6, <1>7, <1>8 DEF Rising, P

\* points are some of rows, each once and in order, and the most recent of them.
RecentEnd(points, truncated, rows) ==
    /\ Range(points) \subseteq rows
    /\ \A i, j \in DOMAIN points : i < j => points[i].ts < points[j].ts
    /\ \A r \in rows \ Range(points), p \in Range(points) : r.ts < p.ts
    /\ truncated <=> rows # Range(points)

LEMMA LastRecent ==
  ASSUME NEW s, Rising(s), NEW limit \in Nat
  PROVE  RecentEnd(LastOf(s, limit), Len(s) > limit, Range(s))
<1> DEFINE T == Range(s)
           u == LastOf(s, limit)
           n == Len(s)
           m == Len(u)
<1>0. s \in Seq(T) /\ (\A r \in T : r.ts \in Int) /\ \A i, j \in DOMAIN s : i < j => s[i].ts < s[j].ts
  BY DEF Rising
<1>1. n \in Nat /\ DOMAIN s = 1..n /\ \A i \in 1..n : s[i] \in T
  <2> HIDE DEF T
  <2> QED BY <1>0, LenProperties
<1>2. u \in Seq(T) /\ m = (IF limit < n THEN limit ELSE n) /\ \A i \in 1..m : u[i] = s[n - m + i]
  <2> HIDE DEF T
  <2> QED BY <1>0, LastIs
<1> HIDE DEF u
<1>3. DOMAIN u = 1..m /\ m \in Nat /\ m <= n
  <2> HIDE DEF T
  <2> QED BY <1>1, <1>2, LenProperties
<1> HIDE DEF m, n
<1>a. \A i \in 1..m : n - m + i \in 1..n BY <1>1, <1>3
<1>4. Range(u) \subseteq T
  <2> SUFFICES ASSUME NEW i \in 1..m PROVE u[i] \in T BY <1>3 DEF Range
  <2> QED BY <1>1, <1>2, <1>a
<1>5. ASSUME NEW i \in 1..m, NEW j \in 1..m, i < j PROVE u[i].ts < u[j].ts
  <2>1. n - m + i < n - m + j BY <1>1, <1>3, <1>5
  <2>2. s[n - m + i].ts < s[n - m + j].ts BY <1>0, <1>1, <1>a, <2>1
  <2> QED BY <1>2, <2>2
\* What is left out is what comes before the last m.
<1>6. ASSUME NEW k \in 1..n, k > n - m PROVE s[k] \in Range(u)
  <2>1. k - (n - m) \in 1..m /\ n - m + (k - (n - m)) = k BY <1>1, <1>3, <1>6
  <2>2. u[k - (n - m)] = s[k] BY <1>2, <2>1
  <2> QED BY <1>3, <2>1, <2>2 DEF Range
<1>7. ASSUME NEW r \in T \ Range(u), NEW p \in Range(u) PROVE r.ts < p.ts
  <2>1. PICK k \in 1..n : r = s[k] BY <1>1 DEF Range
  <2>2. k <= n - m BY <1>1, <1>3, <1>6, <2>1
  <2>3. PICK i \in 1..m : p = u[i] BY <1>3 DEF Range
  <2>4. k < n - m + i BY <1>1, <1>3, <2>2
  <2>5. s[k].ts < s[n - m + i].ts BY <1>0, <1>1, <1>a, <2>4
  <2> QED BY <1>2, <2>1, <2>3, <2>5
<1>8. n > limit <=> m < n BY <1>1, <1>2, <1>3
<1>9. ASSUME m = n PROVE T = Range(u)
  <2>1. \A k \in 1..n : s[k] \in Range(u) BY <1>1, <1>3, <1>6, <1>9
  <2>2. \A r \in T : r \in Range(u) BY <1>1, <2>1 DEF Range
  <2> QED BY <1>4, <2>2
<1>10. ASSUME m < n PROVE s[1] \in T \ Range(u)
  <2>1. 1 \in 1..n BY <1>1, <1>3, <1>10
  <2>2. ASSUME NEW i \in 1..m, s[1] = u[i] PROVE FALSE
    <3>1. 1 < n - m + i BY <1>1, <1>3, <1>10
    <3>2. s[1].ts < s[n - m + i].ts BY <1>0, <1>1, <1>a, <2>1, <3>1
    <3>3. s[1].ts \in Int BY <1>0, <1>1, <2>1
    <3> QED BY <1>2, <2>2, <3>2, <3>3
  <2>3. s[1] \notin Range(u) BY <1>3, <2>2 DEF Range
  <2> QED BY <1>1, <2>1, <2>3
<1>11. n > limit <=> T # Range(u) BY <1>1, <1>3, <1>8, <1>9, <1>10
<1> HIDE DEF T
<1>12. RecentEnd(u, n > limit, T)
  <2>1. \A i, j \in DOMAIN u : i < j => u[i].ts < u[j].ts BY <1>3, <1>5
  <2>2. \A r \in T \ Range(u), p \in Range(u) : r.ts < p.ts BY <1>7
  <2> QED BY <1>4, <2>1, <2>2, <1>11 DEF RecentEnd
<1> QED BY <1>12 DEF T, u, n

\* A row more than will be sent is asked for: the recent end of what was found, all the same.
LEMMA LastOfMore ==
  ASSUME NEW T, NEW s \in Seq(T), NEW limit \in Nat
  PROVE  /\ LastOf(LastOf(s, limit + 1), limit) = LastOf(s, limit)
         /\ Len(LastOf(s, limit + 1)) > limit <=> Len(s) > limit
<1> DEFINE u == LastOf(s, limit + 1)
           v == LastOf(u, limit)
           w == LastOf(s, limit)
           n == Len(s)
<1>0. n \in Nat BY LenProperties
<1>1. /\ u \in Seq(T) /\ Len(u) = (IF limit + 1 < n THEN limit + 1 ELSE n)
      /\ \A i \in 1..Len(u) : u[i] = s[n - Len(u) + i]
  <2>1. limit + 1 \in Nat OBVIOUS
  <2> QED BY <2>1, LastIs
<1>2. /\ w \in Seq(T) /\ Len(w) = (IF limit < n THEN limit ELSE n)
      /\ \A i \in 1..Len(w) : w[i] = s[n - Len(w) + i]
  BY LastIs
<1> HIDE DEF u, w
<1>3. /\ v \in Seq(T) /\ Len(v) = (IF limit < Len(u) THEN limit ELSE Len(u))
      /\ \A i \in 1..Len(v) : v[i] = u[Len(u) - Len(v) + i]
  BY <1>1, LastIs
<1> HIDE DEF v, n
<1>4. Len(v) = Len(w) /\ Len(v) \in Nat /\ Len(v) <= Len(u) /\ Len(u) \in Nat BY <1>0, <1>1, <1>2, <1>3
<1>5. ASSUME NEW i \in 1..Len(v) PROVE v[i] = w[i]
  <2>1. Len(u) - Len(v) + i \in 1..Len(u) BY <1>4
  <2>2. n - Len(u) + (Len(u) - Len(v) + i) = n - Len(w) + i BY <1>0, <1>4
  <2>3. v[i] = s[n - Len(w) + i] BY <1>1, <1>3, <2>1, <2>2
  <2> QED BY <1>2, <1>4, <2>3
<1>6. v = w BY <1>2, <1>3, <1>4, <1>5, SeqEqual
<1>7. Len(u) > limit <=> n > limit BY <1>0, <1>1
<1> QED BY <1>6, <1>7 DEF u, v, w, n

LEMMA KeptRecent ==
  ASSUME NEW s, Rising(s), NEW limit \in Nat, NEW kept, kept = KeepRecent(LastOf(s, limit + 1), limit)
  PROVE  RecentEnd(kept.points, kept.truncated, Range(s))
<1> DEFINE T == Range(s)
<1>1. s \in Seq(T) BY DEF Rising
<1>2. /\ LastOf(LastOf(s, limit + 1), limit) = LastOf(s, limit)
      /\ Len(LastOf(s, limit + 1)) > limit <=> Len(s) > limit
  <2> HIDE DEF T
  <2> QED BY <1>1, LastOfMore
<1>3. kept.points = LastOf(s, limit) /\ (kept.truncated <=> Len(s) > limit) BY <1>2 DEF KeepRecent
<1>4. RecentEnd(LastOf(s, limit), Len(s) > limit, Range(s)) BY LastRecent
<1> QED BY <1>3, <1>4 DEF RecentEnd

-----------------------------------------------------------------------------
(* What a page that asked for a series was told                            *)

Until(q) == Given(q, "to", S.now)
Since(q) == Given(q, "from", Saturated(Until(q) - DefaultWindow))
Limit(q) == Smaller(Given(q, "limit", MaxPoints), MaxPoints)
Width(q) == IF Given(q, "bucket", 0) > 0 THEN q.bucket ELSE BucketMs(Since(q), Until(q))
Reply(q) == FamilyAnswer(Family(q.metric), q, S.store, Since(q), Until(q), Limit(q), Width(q))

LEMMA SeriesTold ==
  ASSUME InScene, ToldRightly, Answered("series")
  PROVE  LET q == Asked.query
         IN  /\ Until(q) \in Int /\ Since(q) \in Int /\ Limit(q) \in Nat /\ Width(q) \in Nat \ {0}
             /\ Reply(q).code = 200 /\ answer.body = Reply(q).body
<1> DEFINE q == Asked.query
           told == SeriesAnswer(q, S.store, S.now)
<1>0. /\ \A key \in {"from", "to", "bucket"} : Given(q, key, 0) \in Int
      /\ Given(q, "limit", 0) \in Nat
  <2>1. PICK k \in DOMAIN S.requests : Asked = S.requests[k] BY AskedIsThere DEF Answered
  <2>2. Asked.path = "series" BY DEF Answered
  <2>3. scene \in DOMAIN Scenes BY DEF InScene
  <2> QED BY <2>1, <2>2, <2>3, SeriesAssumption DEF S
<1>1. S.now \in Int BY ZonesAssumption DEF InScene, S
<1>2. Until(q) \in Int BY <1>0, <1>1 DEF Until, Given
<1>3. Since(q) \in Int
  <2>1. Saturated(Until(q) - DefaultWindow) \in Int
    BY <1>2, ChartsAssumption DEF Saturated, Larger, Smaller
  <2> QED BY <1>0, <2>1 DEF Since, Given
<1>4. Limit(q) \in Nat BY <1>0, ChartsAssumption DEF Limit, Given, Smaller
<1>5. Width(q) \in Nat \ {0}
  <2>1. BucketMs(Since(q), Until(q)) \in Nat \ {0}
    <3> DEFINE x == Saturated(Until(q) - Since(q))
    <3>1. x \in Int BY <1>2, <1>3, ChartsAssumption DEF Saturated, Larger, Smaller
    <3> HIDE DEF x
    <3>2. x \div TargetBuckets \in Int BY <3>1, ChartsAssumption
    <3>3. MinBucket \in Nat \ {0} BY ChartsAssumption
    <3> QED BY <3>2, <3>3 DEF BucketMs, x, Larger
  <2>2. Given(q, "bucket", 0) \in Int BY <1>0
  <2>3. Given(q, "bucket", 0) > 0 => q.bucket = Given(q, "bucket", 0) BY DEF Given
  <2> QED BY <2>1, <2>2, <2>3 DEF Width
<1>6. told.code = 200 /\ answer.body = told.body BY DEF ToldRightly, SaidOnSeries
<1>7. told = Refused(400) \/ told = Reply(q)
  BY DEF SeriesAnswer, Reply, Until, Since, Limit, Width
<1>8. told = Reply(q)
  <2>1. Refused(400).code = 400 BY DEF Refused
  <2> QED BY <1>6, <1>7, <2>1
<1> QED BY <1>2, <1>3, <1>4, <1>5, <1>6, <1>8

\* The points and the rest of what is said beside them.
LEMMA DescribedIs ==
  ASSUME NEW q, NEW from, NEW to, NEW rows, NEW gap, NEW unit, NEW extra, NEW body,
         {"points", "truncated"} \subseteq DOMAIN rows, "from" \notin DOMAIN rows, "to" \notin DOMAIN rows,
         body = Extended(Described(q, from, to, rows, gap, unit), extra)
  PROVE  /\ body.points = rows.points /\ body.truncated = rows.truncated
         /\ body.from = from /\ body.to = to
         /\ "bucket" \in DOMAIN extra /\ "bucket" \notin DOMAIN rows => body.bucket = extra.bucket
<1> DEFINE g == [metric |-> q.metric, from |-> from, to |-> to, gap |-> gap, unit |-> unit]
           d == Extended(rows, g)
<1>1. /\ DOMAIN g = {"metric", "from", "to", "gap", "unit"} /\ g["from"] = from /\ g["to"] = to
  OBVIOUS
<1>2. Described(q, from, to, rows, gap, unit) = d BY DEF Described
<1> HIDE DEF g
<1>3. /\ {"points", "truncated", "from", "to"} \subseteq DOMAIN d
      /\ d["points"] = rows["points"] /\ d["truncated"] = rows["truncated"]
      /\ d["from"] = from /\ d["to"] = to
      /\ "bucket" \notin DOMAIN rows => "bucket" \notin DOMAIN d
  BY <1>1 DEF Extended
<1> HIDE DEF d
<1>4. body = Extended(d, extra) BY <1>2
<1>5. /\ body["points"] = d["points"] /\ body["truncated"] = d["truncated"]
      /\ body["from"] = d["from"] /\ body["to"] = d["to"]
      /\ "bucket" \in DOMAIN extra /\ "bucket" \notin DOMAIN d => body["bucket"] = extra["bucket"]
  BY <1>3, <1>4 DEF Extended
<1> QED BY <1>3, <1>5

\* An answer of points kept within a budget.
LEMMA KeptTold ==
  ASSUME NEW q, NEW from, NEW to, NEW s, NEW limit, NEW gap, NEW unit, NEW extra, NEW body,
         body = Extended(Described(q, from, to, KeepRecent(s, limit), gap, unit), extra)
  PROVE  /\ body.points = KeepRecent(s, limit).points /\ body.truncated = KeepRecent(s, limit).truncated
         /\ body.from = from /\ body.to = to
         /\ "bucket" \in DOMAIN extra => body.bucket = extra.bucket
<1> DEFINE rows == KeepRecent(s, limit)
<1>1. DOMAIN rows = {"points", "truncated"} BY DEF KeepRecent
<1> HIDE DEF rows
<1>2. {"points", "truncated"} \subseteq DOMAIN rows /\ "from" \notin DOMAIN rows /\ "to" \notin DOMAIN rows
      /\ "bucket" \notin DOMAIN rows
  BY <1>1
<1>3. body = Extended(Described(q, from, to, rows, gap, unit), extra) BY DEF rows
<1> QED BY <1>2, <1>3, DescribedIs DEF rows

-----------------------------------------------------------------------------
(* Probe runs and their conditions                                         *)

InRange(rows, from, to) == {r \in rows : from <= r.ts /\ r.ts <= to}

LEMMA BetweenIs ==
  ASSUME NEW rows, Rising(rows), NEW from, NEW to
  PROVE  /\ Rising(Between(rows, from, to))
         /\ Range(Between(rows, from, to)) = InRange(Range(rows), from, to)
<1> DEFINE A == InRange(Range(rows), from, to)
<1>1. Between(rows, from, to) = Where(rows, A) BY DEF Between, InRange
<1>2. Range(rows) \cap A = A BY DEF InRange
<1> HIDE DEF A
<1>3. Rising(Where(rows, A)) /\ Range(Where(rows, A)) = Range(rows) \cap A BY WhereRises
<1> QED BY <1>1, <1>2, <1>3 DEF A

\* The runs a chart of a probe or of a condition is about.
LEMMA RunsFound ==
  ASSUME NEW rows, Rising(rows), NEW from, NEW to, NEW clean \in BOOLEAN, NEW C,
         NEW w, w = Where(Comparable(Between(rows, from, to), clean), C)
  PROVE  /\ Rising(w)
         /\ Range(w) = {r \in InRange(Range(rows), from, to) : clean => ~r.contended} \cap C
<1> DEFINE u == Between(rows, from, to)
           B == {r \in Range(u) : clean => ~r.contended}
           v == Where(u, B)
<1>1. Rising(u) /\ Range(u) = InRange(Range(rows), from, to) BY BetweenIs
<1> HIDE DEF u
<1>2. Comparable(u, clean) = v BY DEF Comparable
<1>3. Range(u) \cap B = {r \in InRange(Range(rows), from, to) : clean => ~r.contended} BY <1>1
<1> HIDE DEF B
<1>4. Rising(v) /\ Range(v) = Range(u) \cap B BY <1>1, WhereRises
<1> HIDE DEF v
<1>5. w = Where(v, C) BY <1>2 DEF u
<1>6. Rising(w) /\ Range(w) = Range(v) \cap C BY <1>4, <1>5, WhereRises
<1> QED BY <1>3, <1>4, <1>6

CleanOnly(q) == Given(q, "contended", "include") = "exclude"

LEMMA TablesRise ==
  ASSUME InScene, NEW table \in {"samples", "rollup", "probes"}
  PROVE  Rising(S.store[table])
<1>1. Chronological(S.store[table]) BY TablesAre
<1>2. OnePerInstant(S.store[table]) BY KeysAssumption DEF InScene, S
<1> QED BY <1>1, <1>2, TableRises

LEMMA BudgetIs ==
  ASSUME NEW limit \in Nat
  PROVE  Smaller(limit, MaxRows) \in Nat
BY QueriesAssumption DEF Smaller

LEMMA ProbesCharted ==
  ASSUME InScene, ToldRightly, Answered("series"), Family(Asked.query.metric) = {"probe"}
  PROVE  RecentEnd(Told.points, Told.truncated, RowsOf(Asked.query, Told.from, Told.to))
<1> DEFINE q == Asked.query
           name == q.metric.name
           prefix == q.metric.prefix
           from == Since(q)
           to == Until(q)
           budget == Smaller(Limit(q), MaxRows)
           T == Range(S.store.probes)
           C == {r \in T : r.source = prefix /\ name \in DOMAIN r.metrics}
           w == Where(Comparable(Between(S.store.probes, from, to), CleanOnly(q)), C)
           p == [i \in 1..Len(w) |-> [ts |-> w[i].ts, value |-> w[i].metrics[name]]]
           s == <<>> \o p
           rows == KeepRecent(LastOf(s, budget + 1), budget)
<1>1. Limit(q) \in Nat /\ answer.body = Reply(q).body BY SeriesTold
<1>2. ProbeSeries(S.store.probes, name, prefix, from, to, CleanOnly(q), Limit(q)) = rows
  BY DEF ProbeSeries, ProbeMatches, Within, Each
<1>3. \E gap, unit, extra : Reply(q).body = {Extended(Described(q, from, to, rows, gap, unit), extra)}
  <2>1. Reply(q) = ProbeAnswer(q, from, to, ProbeSeries(S.store.probes, name, prefix, from, to, CleanOnly(q), Limit(q)))
    BY DEF Reply, FamilyAnswer, CleanOnly
  <2>2. Reply(q) = ProbeAnswer(q, from, to, rows) BY <1>2, <2>1
  <2> HIDE DEF rows, from, to, q
  <2> QED BY <2>2 DEF ProbeAnswer, Ok
<1>4. Rising(w) /\ Range(w) = {r \in InRange(T, from, to) : CleanOnly(q) => ~r.contended} \cap C
  <2>1. Rising(S.store.probes) BY TablesRise
  <2>2. CleanOnly(q) \in BOOLEAN BY DEF CleanOnly
  <2> HIDE DEF C, from, to, q
  <2> QED BY <2>1, <2>2, RunsFound
<1>5. Rising(s) /\ Range(s) = {[ts |-> x.ts, value |-> x.metrics[name]] : x \in Range(w)}
  <2> DEFINE pt == [x \in Range(w) |-> [ts |-> x.ts, value |-> x.metrics[name]]]
  <2>1. \A x \in Range(w) : pt[x].ts = x.ts OBVIOUS
  <2>2. p = [i \in 1..Len(w) |-> pt[w[i]]]
    <3>1. \A i \in 1..Len(w) : w[i] \in Range(w)
      <4>1. w \in Seq(Range(w)) BY <1>4 DEF Rising
      <4> HIDE DEF w
      <4> QED BY <4>1, LenProperties
    <3> HIDE DEF w
    <3> QED BY <3>1
  <2>3. {pt[x] : x \in Range(w)} = {[ts |-> x.ts, value |-> x.metrics[name]] : x \in Range(w)}
    <3> HIDE DEF w
    <3> QED OBVIOUS
  <2> HIDE DEF pt, w, p
  <2>4. Rising(<<>> \o p) /\ Range(<<>> \o p) = {pt[x] : x \in Range(w)} BY <1>4, <2>1, <2>2, PointsRise
  <2> QED BY <2>3, <2>4
<1>6. RecentEnd(rows.points, rows.truncated, Range(s))
  <2> HIDE DEF s
  <2>1. budget \in Nat BY <1>1, BudgetIs
  <2> HIDE DEF budget
  <2> QED BY <1>5, <2>1, KeptRecent
<1>7. Range(s) = RowsOf(q, from, to)
  <2> DEFINE found == {r \in T : from <= r.ts /\ r.ts <= to /\ (CleanOnly(q) => ~r.contended)}
             D == {x \in found : x.source = prefix /\ name \in DOMAIN x.metrics}
  <2>1. RowsOf(q, from, to) = {[ts |-> x.ts, value |-> x.metrics[name]] : x \in D}
    BY DEF RowsOf, CleanOnly
  <2>2. Range(w) = D BY <1>4 DEF InRange
  <2> HIDE DEF D, w, s
  <2> QED BY <1>5, <2>1, <2>2
<1>8. Told.points = rows.points /\ Told.truncated = rows.truncated /\ Told.from = from /\ Told.to = to
  <2> HIDE DEF s, budget, from, to, q
  <2>1. PICK gap, unit, extra : Reply(q).body = {Extended(Described(q, from, to, rows, gap, unit), extra)}
    BY <1>3
  <2>2. Told = Extended(Described(q, from, to, rows, gap, unit), extra) BY <1>1, <2>1 DEF Told
  <2> QED BY <2>2, KeptTold
<1> HIDE DEF rows, s, from, to
<1> QED BY <1>6, <1>7, <1>8

LEMMA ConditionsCharted ==
  ASSUME InScene, ToldRightly, Answered("series"), Family(Asked.query.metric) = {"conditions"}
  PROVE  RecentEnd(Told.points, Told.truncated, RowsOf(Asked.query, Told.from, Told.to))
<1> DEFINE q == Asked.query
           name == q.metric.name
           from == Since(q)
           to == Until(q)
           budget == Smaller(Limit(q), MaxRows)
           T == Range(S.store.probes)
           C == {r \in T : name \in DOMAIN r.conditions}
           w == Where(Comparable(Between(S.store.probes, from, to), CleanOnly(q)), C)
           p == [i \in 1..Len(w) |-> [ts |-> w[i].ts, value |-> w[i].conditions[name]]]
           s == <<>> \o p
           rows == KeepRecent(LastOf(s, budget + 1), budget)
<1>1. Limit(q) \in Nat /\ answer.body = Reply(q).body BY SeriesTold
<1>2. CondSeries(S.store.probes, name, from, to, CleanOnly(q), Limit(q)) = rows
  BY DEF CondSeries, CondMatches, Within, Each
<1>3. \E gap, unit, extra : Reply(q).body = {Extended(Described(q, from, to, rows, gap, unit), extra)}
  <2>1. Reply(q) = ConditionAnswer(q, from, to, CondSeries(S.store.probes, name, from, to, CleanOnly(q), Limit(q)))
    BY DEF Reply, FamilyAnswer, CleanOnly
  <2>2. Reply(q) = ConditionAnswer(q, from, to, rows) BY <1>2, <2>1
  <2> HIDE DEF rows, from, to, q
  <2> QED BY <2>2 DEF ConditionAnswer, Ok
<1>4. Rising(w) /\ Range(w) = {r \in InRange(T, from, to) : CleanOnly(q) => ~r.contended} \cap C
  <2>1. Rising(S.store.probes) BY TablesRise
  <2>2. CleanOnly(q) \in BOOLEAN BY DEF CleanOnly
  <2> HIDE DEF C, from, to, q
  <2> QED BY <2>1, <2>2, RunsFound
<1>5. Rising(s) /\ Range(s) = {[ts |-> x.ts, value |-> x.conditions[name]] : x \in Range(w)}
  <2> DEFINE pt == [x \in Range(w) |-> [ts |-> x.ts, value |-> x.conditions[name]]]
  <2>1. \A x \in Range(w) : pt[x].ts = x.ts OBVIOUS
  <2>2. p = [i \in 1..Len(w) |-> pt[w[i]]]
    <3>1. \A i \in 1..Len(w) : w[i] \in Range(w)
      <4>1. w \in Seq(Range(w)) BY <1>4 DEF Rising
      <4> HIDE DEF w
      <4> QED BY <4>1, LenProperties
    <3> HIDE DEF w
    <3> QED BY <3>1
  <2>3. {pt[x] : x \in Range(w)} = {[ts |-> x.ts, value |-> x.conditions[name]] : x \in Range(w)}
    <3> HIDE DEF w
    <3> QED OBVIOUS
  <2> HIDE DEF pt, w, p
  <2>4. Rising(<<>> \o p) /\ Range(<<>> \o p) = {pt[x] : x \in Range(w)} BY <1>4, <2>1, <2>2, PointsRise
  <2> QED BY <2>3, <2>4
<1>6. RecentEnd(rows.points, rows.truncated, Range(s))
  <2> HIDE DEF s
  <2>1. budget \in Nat BY <1>1, BudgetIs
  <2> HIDE DEF budget
  <2> QED BY <1>5, <2>1, KeptRecent
<1>7. Range(s) = RowsOf(q, from, to)
  <2> DEFINE found == {r \in T : from <= r.ts /\ r.ts <= to /\ (CleanOnly(q) => ~r.contended)}
             D == {x \in found : name \in DOMAIN x.conditions}
  <2>1. RowsOf(q, from, to) = {[ts |-> x.ts, value |-> x.conditions[name]] : x \in D}
    BY DEF RowsOf, CleanOnly
  <2>2. Range(w) = D BY <1>4 DEF InRange
  <2> HIDE DEF D, w, s
  <2> QED BY <1>5, <2>1, <2>2
<1>8. Told.points = rows.points /\ Told.truncated = rows.truncated /\ Told.from = from /\ Told.to = to
  <2> HIDE DEF s, budget, from, to, q
  <2>1. PICK gap, unit, extra : Reply(q).body = {Extended(Described(q, from, to, rows, gap, unit), extra)}
    BY <1>3
  <2>2. Told = Extended(Described(q, from, to, rows, gap, unit), extra) BY <1>1, <2>1 DEF Told
  <2> QED BY <2>2, KeptTold
<1> HIDE DEF rows, s, from, to
<1> QED BY <1>6, <1>7, <1>8

-----------------------------------------------------------------------------
(* Raw samples, and before them minutes                                    *)

\* Rising points followed by later ones.
LEMMA JoinRises ==
  ASSUME NEW a, Rising(a), NEW b, Rising(b), \A x \in Range(a), y \in Range(b) : x.ts < y.ts
  PROVE  Rising(a \o b) /\ Range(a \o b) = Range(a) \cup Range(b) /\ Len(a \o b) = Len(a) + Len(b)
<1> DEFINE T == Range(a) \cup Range(b)
           s == a \o b
           m == Len(a)
           n == Len(b)
<1>0. a \in Seq(T) /\ b \in Seq(T) /\ \A r \in T : r.ts \in Int
  <2>1. a \in Seq(Range(a)) /\ b \in Seq(Range(b)) BY DEF Rising
  <2>2. a \in Seq(T) /\ b \in Seq(T)
    <3> DEFINE A == Range(a)
               B == Range(b)
    <3> HIDE DEF A, B
    <3>1. Seq(A) \subseteq Seq(A \cup B) /\ Seq(B) \subseteq Seq(A \cup B)
      <4>1. ASSUME NEW X, NEW Y, X \subseteq Y, NEW x \in Seq(X) PROVE x \in Seq(Y)
        <5>1. Len(x) \in Nat /\ x = [i \in 1..Len(x) |-> x[i]] /\ \A i \in 1..Len(x) : x[i] \in Y
          BY <4>1, LenProperties
        <5> QED BY <5>1
      <4>2. A \subseteq A \cup B /\ B \subseteq A \cup B OBVIOUS
      <4> QED BY <4>1, <4>2
    <3> QED BY <2>1, <3>1 DEF A, B
  <2>3. \A r \in T : r.ts \in Int BY DEF Rising
  <2> QED BY <2>2, <2>3
<1>1. /\ m \in Nat /\ DOMAIN a = 1..m /\ \A i \in 1..m : a[i] \in Range(a)
      /\ n \in Nat /\ DOMAIN b = 1..n /\ \A i \in 1..n : b[i] \in Range(b)
  <2>1. a \in Seq(Range(a)) /\ b \in Seq(Range(b)) BY DEF Rising
  <2> QED BY <2>1, LenProperties
<1> HIDE DEF m, n, T
<1>2. /\ s \in Seq(T) /\ Len(s) = m + n
      /\ \A i \in 1..m + n : s[i] = IF i <= m THEN a[i] ELSE b[i - m]
  BY <1>0, ConcatProperties DEF m, n
<1> HIDE DEF s
<1>3. DOMAIN s = 1..m + n BY <1>2, LenProperties
<1>4. ASSUME NEW i \in 1..m + n PROVE (i <= m /\ i \in 1..m /\ s[i] = a[i]) \/ (i > m /\ i - m \in 1..n /\ s[i] = b[i - m])
  BY <1>1, <1>2
<1>5. ASSUME NEW i \in 1..m + n, NEW j \in 1..m + n, i < j PROVE s[i].ts < s[j].ts
  <2>1. CASE j <= m
    <3>1. i \in 1..m /\ j \in 1..m /\ s[i] = a[i] /\ s[j] = a[j] BY <1>1, <1>4, <1>5, <2>1
    <3> QED BY <1>1, <1>5, <3>1 DEF Rising
  <2>2. CASE i <= m /\ j > m
    <3>1. i \in 1..m /\ j - m \in 1..n /\ s[i] = a[i] /\ s[j] = b[j - m] BY <1>1, <1>4, <2>2
    <3> QED BY <1>1, <3>1
  <2>3. CASE i > m
    <3>1. i - m \in 1..n /\ j - m \in 1..n /\ s[i] = b[i - m] /\ s[j] = b[j - m] /\ i - m < j - m
      BY <1>1, <1>4, <1>5, <2>3
    <3> QED BY <1>1, <3>1 DEF Rising
  <2> QED BY <1>1, <2>1, <2>2, <2>3
<1>6. Range(s) = T
  <2>1. ASSUME NEW i \in 1..m + n PROVE s[i] \in T BY <1>1, <1>4 DEF T
  <2>2. ASSUME NEW i \in 1..m PROVE a[i] \in Range(s)
    <3>1. i \in 1..m + n /\ s[i] = a[i] BY <1>1, <1>2
    <3> QED BY <1>3, <3>1 DEF Range
  <2>3. ASSUME NEW i \in 1..n PROVE b[i] \in Range(s)
    <3>1. m + i \in 1..m + n /\ ~(m + i <= m) /\ m + i - m = i BY <1>1
    <3>a. s[m + i] = IF m + i <= m THEN a[m + i] ELSE b[m + i - m]
      <4> DEFINE k == m + i
      <4>1. k \in 1..m + n BY <3>1
      <4> HIDE DEF k
      <4>2. s[k] = IF k <= m THEN a[k] ELSE b[k - m] BY <1>2, <4>1
      <4> QED BY <1>1, <4>2 DEF k
    <3>2. s[m + i] = b[i] BY <3>1, <3>a
    <3> QED BY <1>3, <3>1, <3>2 DEF Range
  <2>4. Range(s) \subseteq T BY <1>3, <2>1 DEF Range
  <2>5. \A x \in Range(a) : x \in Range(s) BY <1>1, <2>2 DEF Range
  <2>6. \A x \in Range(b) : x \in Range(s) BY <1>1, <2>3 DEF Range
  <2> QED BY <2>4, <2>5, <2>6 DEF T
<1>7. s \in Seq(Range(s)) BY <1>2, <1>6
<1> QED BY <1>0, <1>2, <1>3, <1>5, <1>6, <1>7 DEF Rising, s, T, m, n

\* The last of a join are the last of its second part, and what is left of them of the first.
LEMMA LastOfJoin ==
  ASSUME NEW T, NEW a \in Seq(T), NEW b \in Seq(T), NEW k \in Nat
  PROVE  LastOf(a, k - Len(LastOf(b, k))) \o LastOf(b, k) = LastOf(a \o b, k)
<1> DEFINE m == Len(a)
           n == Len(b)
           v == LastOf(b, k)
           u == LastOf(a, k - Len(v))
           s == a \o b
           w == LastOf(s, k)
           x == u \o v
<1>0. m \in Nat /\ n \in Nat BY LenProperties
<1>1. /\ s \in Seq(T) /\ Len(s) = m + n
      /\ \A i \in 1..m + n : s[i] = IF i <= m THEN a[i] ELSE b[i - m]
  BY ConcatProperties
<1>2. v \in Seq(T) /\ Len(v) = (IF k < n THEN k ELSE n) /\ \A i \in 1..Len(v) : v[i] = b[n - Len(v) + i]
  BY LastIs
<1> HIDE DEF s, v
<1>3. Len(v) \in Nat /\ Len(v) <= n /\ k - Len(v) \in Nat BY <1>0, <1>2
<1>4. /\ u \in Seq(T) /\ Len(u) = (IF k - Len(v) < m THEN k - Len(v) ELSE m)
      /\ \A i \in 1..Len(u) : u[i] = a[m - Len(u) + i]
  BY <1>3, LastIs
<1>5. w \in Seq(T) /\ Len(w) = (IF k < m + n THEN k ELSE m + n) /\ \A i \in 1..Len(w) : w[i] = s[m + n - Len(w) + i]
  <2>1. /\ w \in Seq(T) /\ Len(w) = (IF k < Len(s) THEN k ELSE Len(s))
        /\ \A i \in 1..Len(w) : w[i] = s[Len(s) - Len(w) + i]
    BY <1>1, LastIs
  <2> HIDE DEF w, m, n
  <2>2. Len(s) = m + n BY <1>1
  <2>3. Len(w) = (IF k < m + n THEN k ELSE m + n) BY <2>1, <2>2
  <2>4. \A i \in 1..Len(w) : w[i] = s[m + n - Len(w) + i]
    <3>1. m \in Nat /\ n \in Nat /\ Len(w) \in Nat BY <1>0, <2>3
    <3> SUFFICES ASSUME NEW i \in 1..Len(w) PROVE w[i] = s[m + n - Len(w) + i] OBVIOUS
    <3>2. w[i] = s[Len(s) - Len(w) + i] BY <2>1
    <3>3. Len(s) - Len(w) + i = m + n - Len(w) + i BY <2>2, <3>1
    <3> QED BY <3>2, <3>3
  <2> QED BY <2>1, <2>3, <2>4
<1> HIDE DEF u, w
<1>6. /\ x \in Seq(T) /\ Len(x) = Len(u) + Len(v)
      /\ \A i \in 1..Len(u) + Len(v) : x[i] = IF i <= Len(u) THEN u[i] ELSE v[i - Len(u)]
  BY <1>2, <1>4, ConcatProperties
<1> HIDE DEF x, m, n
<1>7. Len(u) \in Nat /\ Len(u) <= m /\ Len(w) = Len(u) + Len(v) BY <1>0, <1>2, <1>3, <1>4, <1>5
<1>8. ASSUME NEW i \in 1..Len(w) PROVE x[i] = w[i]
  <2>1. w[i] = s[m + n - Len(w) + i] BY <1>5
  <2>2. CASE i <= Len(u)
    <3>0. i \in 1..Len(u) /\ i \in 1..Len(u) + Len(v)
      <4>1. i \in Int /\ i >= 1 /\ Len(u) \in Nat /\ Len(v) \in Nat BY <1>3, <1>7
      <4> QED BY ONLY <2>2, <4>1
    <3>1. x[i] = a[m - Len(u) + i]
      <4>1. x[i] = u[i] BY <1>6, <2>2, <3>0
      <4>2. u[i] = a[m - Len(u) + i] BY <1>4, <3>0
      <4> QED BY <4>1, <4>2
    <3>2. CASE Len(u) = m
      <4>1. \/ Len(v) = n
            \/ Len(v) = k /\ Len(u) = 0
        BY <1>0, <1>2, <1>3, <1>4, <1>7
      <4>2. Len(v) = n BY <1>0, <1>7, <2>2, <4>1
      <4> QED BY <1>0, <1>1, <1>7, <2>1, <2>2, <3>1, <4>2
    <3>3. CASE Len(u) # m
      <4>1. Len(u) = k - Len(v) BY <1>4, <3>3
      <4>2. Len(v) = n BY <1>0, <1>2, <1>7, <2>2, <4>1
      <4>3. m + n - Len(w) + i = m - Len(u) + i /\ m - Len(u) + i <= m BY <1>0, <1>3, <1>7, <2>2, <4>2
      <4>4. m - Len(u) + i \in 1..m BY <1>0, <1>7, <2>2, <4>3
      <4>5. \A j \in 1..m : s[j] = a[j] BY <1>0, <1>1
      <4>6. s[m - Len(u) + i] = a[m - Len(u) + i] BY ONLY <4>4, <4>5
      <4> QED BY <2>1, <3>1, <4>3, <4>6
    <3> QED BY <3>2, <3>3
  <2>3. CASE i > Len(u)
    <3>1. x[i] = v[i - Len(u)] /\ i - Len(u) \in 1..Len(v) BY <1>3, <1>6, <1>7, <2>3
    <3>2. x[i] = b[n - Len(v) + (i - Len(u))] BY <1>2, <3>1
    <3>3. m + n - Len(w) + i = m + (n - Len(v) + (i - Len(u))) /\ n - Len(v) + (i - Len(u)) >= 1
      BY <1>0, <1>3, <1>7, <3>1
    <3>4. s[m + n - Len(w) + i] = b[m + n - Len(w) + i - m] BY <1>0, <1>1, <2>1, <3>3
    <3>5. m + n - Len(w) + i - m = n - Len(v) + (i - Len(u)) BY <1>0, <1>3, <1>7
    <3> QED BY <2>1, <3>2, <3>4, <3>5
  <2> QED BY <1>7, <2>2, <2>3
<1>9. x = w BY <1>5, <1>6, <1>7, <1>8, SeqEqual
<1> QED BY <1>9 DEF x, w, s, u, v

LEMMA PassivePoints ==
  ASSUME NEW rows, Rising(rows), NEW series, NEW from, NEW to
  PROVE  /\ Rising(PointsOf(rows, series, from, to))
         /\ Range(PointsOf(rows, series, from, to))
            = {[ts |-> x.ts, value |-> x.values[series]] :
                  x \in {r \in InRange(Range(rows), from, to) : series \in DOMAIN r.values}}
<1> DEFINE C == {r \in Range(rows) : series \in DOMAIN r.values}
           u == Between(rows, from, to)
           w == Where(u, C)
           p == [i \in 1..Len(w) |-> [ts |-> w[i].ts, value |-> w[i].values[series]]]
           pt == [x \in Range(w) |-> [ts |-> x.ts, value |-> x.values[series]]]
           D == {r \in InRange(Range(rows), from, to) : series \in DOMAIN r.values}
<1>1. PointsOf(rows, series, from, to) = <<>> \o p BY DEF PointsOf, Each
<1>2. Rising(u) /\ Range(u) = InRange(Range(rows), from, to) BY BetweenIs
<1> HIDE DEF u
<1>3. Range(u) \cap C = D BY <1>2 DEF InRange
<1> HIDE DEF C
<1>4. Rising(w) /\ Range(w) = D BY <1>2, <1>3, WhereRises
<1> HIDE DEF w, D
<1>5. \A x \in Range(w) : pt[x].ts = x.ts OBVIOUS
<1>6. p = [i \in 1..Len(w) |-> pt[w[i]]]
  <2>1. \A i \in 1..Len(w) : w[i] \in Range(w)
    <3>1. w \in Seq(Range(w)) BY <1>4 DEF Rising
    <3> QED BY <3>1, LenProperties
  <2> QED BY <2>1
<1>7. {pt[x] : x \in Range(w)} = {[ts |-> x.ts, value |-> x.values[series]] : x \in D} BY <1>4
<1> HIDE DEF pt, p
<1>8. Rising(<<>> \o p) /\ Range(<<>> \o p) = {pt[x] : x \in Range(w)} BY <1>4, <1>5, <1>6, PointsRise
<1> QED BY <1>1, <1>7, <1>8 DEF D

RawStart == IF S.store.samples = <<>> THEN MaxInstant ELSE S.store.samples[1].ts
Minutes(name, from, to) == PointsOf(S.store.rollup, name, from, Smaller(to, RawStart - 1))
Raws(name, from, to) == PointsOf(S.store.samples, name, Larger(from, RawStart), to)
Passives(name, from, to) == Minutes(name, from, to) \o Raws(name, from, to)

\* The minutes before the first sample and the samples, in one sequence.
LEMMA PassivesJoin ==
  ASSUME InScene, NEW name, NEW from \in Int, NEW to \in Int
  PROVE  /\ RawStart \in Int
         /\ Rising(Minutes(name, from, to)) /\ Rising(Raws(name, from, to))
         /\ Rising(Passives(name, from, to))
         /\ Range(Passives(name, from, to)) = Range(Minutes(name, from, to)) \cup Range(Raws(name, from, to))
         /\ from >= RawStart => Minutes(name, from, to) = <<>>
<1> DEFINE a == Minutes(name, from, to)
           b == Raws(name, from, to)
           samples == S.store.samples
           rollup == S.store.rollup
<1>1. Rising(samples) /\ Rising(rollup) BY TablesRise
<1>2. RawStart \in Int
  <2>1. CASE samples = <<>> BY <2>1, ChartsAssumption DEF RawStart
  <2>2. CASE samples # <<>>
    <3>1. samples \in Seq(Range(samples)) /\ \A r \in Range(samples) : r.ts \in Int BY <1>1 DEF Rising
    <3> HIDE DEF samples
    <3>2. samples[1] \in Range(samples)
      <4>1. Len(samples) \in Nat /\ DOMAIN samples = 1..Len(samples) BY <3>1, LenProperties
      <4>2. Len(samples) # 0 BY <3>1, <2>2, EmptySeq
      <4>3. 1 \in DOMAIN samples BY <4>1, <4>2
      <4> QED BY <4>3 DEF Range
    <3> QED BY <2>2, <3>1, <3>2 DEF RawStart, samples
  <2> QED BY <2>1, <2>2
<1>3. Rising(a) /\ \A x \in Range(a) : x.ts \in Int /\ from <= x.ts /\ x.ts < RawStart
  <2> DEFINE last == Smaller(to, RawStart - 1)
             D == {r \in InRange(Range(rollup), from, last) : name \in DOMAIN r.values}
  <2>1. Rising(a) /\ Range(a) = {[ts |-> x.ts, value |-> x.values[name]] : x \in D}
    <3>1. Rising(rollup) BY <1>1
    <3> HIDE DEF rollup
    <3> QED BY <3>1, PassivePoints DEF Minutes, rollup
  <2>2. last \in Int /\ last < RawStart BY <1>2 DEF Smaller
  <2>3. \A r \in Range(rollup) : r.ts \in Int BY <1>1 DEF Rising
  <2> HIDE DEF last
  <2>4. \A x \in D : x.ts \in Int /\ from <= x.ts /\ x.ts < RawStart BY <1>2, <2>2, <2>3 DEF InRange
  <2> HIDE DEF D, a
  <2> QED BY <2>1, <2>4
<1>4. Rising(b) /\ \A x \in Range(b) : x.ts \in Int /\ x.ts >= RawStart
  <2> DEFINE first == Larger(from, RawStart)
             D == {r \in InRange(Range(samples), first, to) : name \in DOMAIN r.values}
  <2>1. Rising(b) /\ Range(b) = {[ts |-> x.ts, value |-> x.values[name]] : x \in D}
    <3>1. Rising(samples) BY <1>1
    <3> HIDE DEF samples
    <3> QED BY <3>1, PassivePoints DEF Raws, samples
  <2>2. first \in Int /\ first >= RawStart BY <1>2 DEF Larger
  <2>3. \A r \in Range(samples) : r.ts \in Int BY <1>1 DEF Rising
  <2> HIDE DEF first
  <2>4. \A x \in D : x.ts \in Int /\ x.ts >= RawStart BY <1>2, <2>2, <2>3 DEF InRange
  <2> HIDE DEF D, b
  <2> QED BY <2>1, <2>4
<1> HIDE DEF a, b
<1>5. \A x \in Range(a), y \in Range(b) : x.ts < y.ts BY <1>2, <1>3, <1>4
<1>6. Rising(a \o b) /\ Range(a \o b) = Range(a) \cup Range(b) BY <1>3, <1>4, <1>5, JoinRises
<1>7. ASSUME from >= RawStart PROVE a = <<>>
  <2>1. Range(a) = {} BY <1>2, <1>3, <1>7
  <2>2. a \in Seq({}) BY <1>3, <2>1 DEF Rising
  <2>3. Len(a) = 0
    <3>1. Len(a) \in Nat /\ \A i \in 1..Len(a) : a[i] \in {} BY <2>2, LenProperties
    <3>2. ASSUME Len(a) # 0 PROVE FALSE
      <4>1. 1 \in 1..Len(a) BY <3>1, <3>2
      <4> QED BY <3>1, <4>1
    <3> QED BY <3>2
  <2> QED BY <2>2, <2>3, EmptySeq
<1> QED BY <1>2, <1>3, <1>4, <1>6, <1>7 DEF Passives, a, b

LEMMA PassivesKept ==
  ASSUME InScene, NEW name, NEW from \in Int, NEW to \in Int, NEW limit \in Nat
  PROVE  \E more : /\ PassiveRows(S.store, name, from, to, limit)
                      = Extended(KeepRecent(LastOf(Passives(name, from, to), limit + 1), limit), more)
                   /\ DOMAIN more = {"reducer", "resolution"}
<1> DEFINE a == Minutes(name, from, to)
           b == Raws(name, from, to)
           raw == LastOf(b, limit + 1)
           before == IF from >= RawStart THEN <<>> ELSE LastOf(a, limit + 1 - Len(raw))
           kept == KeepRecent(before \o raw, limit)
<1>1. PassiveRows(S.store, name, from, to, limit) = SaidOf(kept, raw, name)
  BY DEF PassiveRows, PassiveFrom, WithRaw, RawStart, Minutes, Raws
<1>2. /\ Rising(a) /\ Rising(b) /\ Range(a \o b) = Range(a) \cup Range(b)
      /\ from >= RawStart => a = <<>>
  BY PassivesJoin DEF Passives
<1> HIDE DEF a, b
<1> DEFINE T == Range(a) \cup Range(b)
<1>3. a \in Seq(T) /\ b \in Seq(T)
  <2>1. a \in Seq(Range(a)) /\ b \in Seq(Range(b)) BY <1>2 DEF Rising
  <2>2. ASSUME NEW X, NEW Y, X \subseteq Y, NEW x \in Seq(X) PROVE x \in Seq(Y)
    <3>1. Len(x) \in Nat /\ x = [i \in 1..Len(x) |-> x[i]] /\ \A i \in 1..Len(x) : x[i] \in Y
      BY <2>2, LenProperties
    <3> QED BY <3>1
  <2> DEFINE A == Range(a)
             B == Range(b)
  <2>3. A \subseteq A \cup B /\ B \subseteq A \cup B OBVIOUS
  <2>4. a \in Seq(A) /\ b \in Seq(B) BY <2>1
  <2> HIDE DEF A, B
  <2> QED BY <2>2, <2>3, <2>4 DEF A, B
<1>4. LastOf(a, limit + 1 - Len(raw)) \o raw = LastOf(a \o b, limit + 1)
  <2>1. limit + 1 \in Nat OBVIOUS
  <2> HIDE DEF T
  <2> QED BY <1>3, <2>1, LastOfJoin
<1>5. before = LastOf(a, limit + 1 - Len(raw))
  <2>1. CASE from >= RawStart
    <3>1. Len(raw) \in Nat /\ limit + 1 - Len(raw) \in Nat
      <4>1. limit + 1 \in Nat OBVIOUS
      <4> HIDE DEF T
      <4>2. Len(b) \in Nat BY <1>3, LenProperties
      <4>3. Len(raw) = IF limit + 1 < Len(b) THEN limit + 1 ELSE Len(b) BY <1>3, <4>1, LastIs
      <4> HIDE DEF raw
      <4> QED BY <4>2, <4>3
    <3>2. a = <<>> BY <1>2, <2>1
    <3> HIDE DEF raw
    <3>3. <<>> \in Seq({}) /\ Len(<<>>) = 0 OBVIOUS
    <3> DEFINE e == LastOf(<<>>, limit + 1 - Len(raw))
    <3>4. e \in Seq({}) /\ Len(e) = IF limit + 1 - Len(raw) < 0 THEN limit + 1 - Len(raw) ELSE 0
      <4> DEFINE z == <<>>
                 k == limit + 1 - Len(raw)
      <4>1. z \in Seq({}) /\ Len(z) = 0 /\ k \in Nat BY <3>1, <3>3
      <4> HIDE DEF z, k
      <4>2. LastOf(z, k) \in Seq({}) /\ Len(LastOf(z, k)) = IF k < Len(z) THEN k ELSE Len(z) BY <4>1, LastIs
      <4> QED BY <4>1, <4>2 DEF z, k
    <3>5. e = <<>>
      <4> HIDE DEF e
      <4>1. Len(e) = 0 BY <3>1, <3>4
      <4> QED BY <3>4, <4>1, EmptySeq
    <3> QED BY <2>1, <3>2, <3>5
  <2>2. CASE ~(from >= RawStart) BY <2>2
  <2> QED BY <2>1, <2>2
<1>6. kept = KeepRecent(LastOf(Passives(name, from, to), limit + 1), limit)
  <2> HIDE DEF before, raw
  <2> QED BY <1>4, <1>5 DEF Passives, a, b
<1>7. \E more : SaidOf(kept, raw, name) = Extended(kept, more) /\ DOMAIN more = {"reducer", "resolution"}
  <2> HIDE DEF kept, raw
  <2> DEFINE n == Len(kept.points) - Smaller(Len(raw), Len(kept.points))
             more == [reducer |-> IF n > 0 THEN {PassiveSeries[name].reducer} ELSE {},
                      resolution |-> IF n = 0 THEN "raw"
                                     ELSE IF n = Len(kept.points) THEN "rollup" ELSE "mixed"]
  <2>1. SaidOf(kept, raw, name) = Resolved(kept, n, name) BY DEF SaidOf
  <2> HIDE DEF n
  <2>2. Resolved(kept, n, name) = Extended(kept, more) BY DEF Resolved
  <2>3. DOMAIN more = {"reducer", "resolution"} OBVIOUS
  <2> QED BY <2>1, <2>2, <2>3
<1> HIDE DEF kept, raw
<1> QED BY <1>1, <1>6, <1>7

\* The rows a chart of a passive series is about, where the minutes lie before the samples: all
\* of the range.
LEMMA PassivesFound ==
  ASSUME InScene, NEW q, Family(q.metric) = {"sample"}, NEW from \in Int, NEW to \in Int, MinutesFirst
  PROVE  Range(Passives(q.metric.name, from, to)) = RowsOf(q, from, to)
<1> DEFINE name == q.metric.name
           samples == S.store.samples
           T == Range(samples)
           U == Range(S.store.rollup)
           cut == IF samples = <<>> THEN to + 1 ELSE samples[1].ts
           A == {r \in InRange(U, from, Smaller(to, RawStart - 1)) : name \in DOMAIN r.values}
           B == {r \in InRange(T, Larger(from, RawStart), to) : name \in DOMAIN r.values}
           D == {x \in T \cup U :
                    from <= x.ts /\ x.ts <= to /\ name \in DOMAIN x.values}
<1>1. RowsOf(q, from, to) = {[ts |-> r.ts, value |-> r.values[name]] : r \in D} BY DEF RowsOf
<1>2. Rising(samples) /\ Rising(S.store.rollup) BY TablesRise
<1>3. RawStart \in Int
      /\ Range(Passives(name, from, to)) = Range(Minutes(name, from, to)) \cup Range(Raws(name, from, to))
  BY PassivesJoin
<1>4. Range(Minutes(name, from, to)) = {[ts |-> x.ts, value |-> x.values[name]] : x \in A}
  BY <1>2, PassivePoints DEF Minutes
<1>5. Range(Raws(name, from, to)) = {[ts |-> x.ts, value |-> x.values[name]] : x \in B}
  BY <1>2, PassivePoints DEF Raws
<1>6. (\A x \in T : x.ts \in Int) /\ (\A x \in U : x.ts \in Int /\ x.ts < MaxInstant)
  <2>1. \A x \in U : x.ts < MaxInstant BY StoresAssumption DEF InScene, S
  <2> QED BY <1>2, <2>1 DEF Rising
<1>7. \A x \in T : RawStart <= x.ts
  <2> SUFFICES ASSUME NEW x \in T PROVE RawStart <= x.ts OBVIOUS
  <2>1. samples \in Seq(T) /\ \A i, j \in DOMAIN samples : i < j => samples[i].ts < samples[j].ts
    BY <1>2 DEF Rising
  <2>2. PICK i \in DOMAIN samples : x = samples[i] BY DEF Range
  <2> HIDE DEF samples
  <2>3. Len(samples) \in Nat /\ DOMAIN samples = 1..Len(samples) BY <2>1, LenProperties
  <2>4. i \in Int /\ 1 \in DOMAIN samples /\ 1 <= i BY <2>2, <2>3
  <2>5. samples # <<>>
    <3>1. ASSUME samples = <<>> PROVE FALSE
      <4>1. Len(<<>>) = 0 OBVIOUS
      <4> QED BY <2>3, <2>4, <3>1, <4>1
    <3> QED BY <3>1
  <2>6. RawStart = samples[1].ts BY <2>5 DEF RawStart, samples
  <2>7. samples[1].ts \in Int /\ x.ts \in Int BY <2>2, <2>4, <1>6 DEF T, Range
  <2> QED BY <2>1, <2>2, <2>4, <2>6, <2>7
<1>8. A = {r \in U : r.ts < cut /\ from <= r.ts /\ r.ts <= to /\ name \in DOMAIN r.values}
  <2>1. CASE samples = <<>>
    <3>1. RawStart = MaxInstant /\ cut = to + 1 BY <2>1 DEF RawStart
    <3> HIDE DEF U, cut
    <3> QED BY <1>6, <3>1, ChartsAssumption DEF InRange, Smaller
  <2>2. CASE samples # <<>>
    <3>1. cut = RawStart BY <2>2 DEF RawStart
    <3> HIDE DEF U, cut
    <3> QED BY <1>3, <1>6, <3>1 DEF InRange, Smaller
  <2> QED BY <2>1, <2>2
<1>9. B = {r \in T : from <= r.ts /\ r.ts <= to /\ name \in DOMAIN r.values}
  <2> HIDE DEF T
  <2> QED BY <1>3, <1>6, <1>7 DEF InRange, Larger
<1>10. D = A \cup B
  <2>1. \A r \in U : r.ts <= to => r.ts < cut
    <3>1. CASE samples = <<>>
      <4>1. cut = to + 1 BY <3>1
      <4> HIDE DEF U, cut
      <4> QED BY <1>6, <4>1
    <3>2. CASE samples # <<>>
      <4>1. samples \in Seq(T) BY <1>2 DEF Rising
      <4>2. 1 \in DOMAIN samples BY <3>2, <4>1, EmptySeq, LenProperties
      <4>3. samples[1] \in T /\ cut = samples[1].ts BY <3>2, <4>2 DEF Range
      <4> HIDE DEF T, U, cut
      <4> QED BY <4>3 DEF MinutesFirst, T, U
    <3> QED BY <3>1, <3>2
  <2> HIDE DEF T, U, cut, A, B
  <2> QED BY <1>8, <1>9, <2>1
<1> HIDE DEF A, B, D
<1> QED BY <1>1, <1>3, <1>4, <1>5, <1>10

LEMMA SamplesCharted ==
  ASSUME InScene, ToldRightly, Answered("series"), Family(Asked.query.metric) = {"sample"},
         MinutesFirst
  PROVE  RecentEnd(Told.points, Told.truncated, RowsOf(Asked.query, Told.from, Told.to))
<1> DEFINE q == Asked.query
           name == q.metric.name
           from == Since(q)
           to == Until(q)
           limit == Limit(q)
           s == Passives(name, from, to)
           kept == KeepRecent(LastOf(s, limit + 1), limit)
           rows == PassiveRows(S.store, name, from, to, limit)
<1>1. from \in Int /\ to \in Int /\ limit \in Nat /\ answer.body = Reply(q).body BY SeriesTold
<1>2. \E gap, unit, extra : Reply(q).body = {Extended(Described(q, from, to, rows, gap, unit), extra)}
  <2>1. Reply(q) = SampleAnswer(q, from, to, rows) BY DEF Reply, FamilyAnswer
  <2> HIDE DEF rows, from, to, q
  <2> QED BY <2>1 DEF SampleAnswer, Ok
<1>3. PICK more : rows = Extended(kept, more) /\ DOMAIN more = {"reducer", "resolution"}
  <2> HIDE DEF name, from, to, limit
  <2> QED BY <1>1, PassivesKept
<1>4. Rising(s)
  <2> HIDE DEF name, from, to
  <2> QED BY <1>1, PassivesJoin
<1>5. RecentEnd(kept.points, kept.truncated, Range(s))
  <2> HIDE DEF s, limit
  <2> QED BY <1>1, <1>4, KeptRecent
<1>6. Range(s) = RowsOf(q, from, to)
  <2> HIDE DEF from, to
  <2> QED BY <1>1, PassivesFound
<1>7. /\ rows["points"] = kept["points"] /\ rows["truncated"] = kept["truncated"]
      /\ DOMAIN rows = {"points", "truncated", "reducer", "resolution"}
  <2>1. DOMAIN kept = {"points", "truncated"} BY DEF KeepRecent
  <2> HIDE DEF kept, rows
  <2> QED BY <1>3, <2>1 DEF Extended
<1>8. Told.points = kept.points /\ Told.truncated = kept.truncated /\ Told.from = from /\ Told.to = to
  <2>1. PICK gap, unit, extra : Reply(q).body = {Extended(Described(q, from, to, rows, gap, unit), extra)}
    BY <1>2
  <2>2. Told = Extended(Described(q, from, to, rows, gap, unit), extra) BY <1>1, <2>1 DEF Told
  <2> HIDE DEF rows, from, to, q, kept
  <2>3. {"points", "truncated"} \subseteq DOMAIN rows /\ "from" \notin DOMAIN rows /\ "to" \notin DOMAIN rows
    BY <1>7
  <2>4. /\ Told.points = rows.points /\ Told.truncated = rows.truncated
        /\ Told.from = from /\ Told.to = to
    BY <2>2, <2>3, DescribedIs
  <2> QED BY <1>7, <2>4
<1> HIDE DEF rows, s, from, to, kept
<1> QED BY <1>5, <1>6, <1>8

LEMMA RecentEndCharted ==
  ASSUME InScene, ToldRightly
  PROVE  ChartsTheRecentEnd
<1> DEFINE family == Family(Asked.query.metric)
<1> SUFFICES ASSUME Answered("series"), family # {"session"}, family = {"sample"} => MinutesFirst
             PROVE  RecentEnd(Told.points, Told.truncated, RowsOf(Asked.query, Told.from, Told.to))
  BY DEF ChartsTheRecentEnd, RecentEnd
<1>1. Reply(Asked.query).code = 200 BY SeriesTold
<1>2. family \in {{"sample"}, {"probe"}, {"conditions"}}
  <2>1. Refused(400).code = 400 BY DEF Refused
  <2>2. family \in {{"sample"}, {"probe"}, {"conditions"}, {"session"}} \/ Reply(Asked.query) = Refused(400)
    BY DEF Reply, FamilyAnswer
  <2> QED BY <1>1, <2>1, <2>2
<1> QED BY <1>2, ProbesCharted, ConditionsCharted, SamplesCharted

-----------------------------------------------------------------------------
(* What the numbers at some places come to, as far as a place              *)

At(v, P) == [i \in 1..Len(v) |-> IF i \in P THEN v[i] ELSE 0]
SumsTo(v, P) == CHOOSE f : TotalIs(At(v, P), f)

LEMMA SumsAre ==
  ASSUME NEW v \in Seq(Int), NEW P
  PROVE  /\ SumsTo(v, P)[0] = 0
         /\ \A i \in 1..Len(v) : SumsTo(v, P)[i] = SumsTo(v, P)[i - 1] + (IF i \in P THEN v[i] ELSE 0)
         /\ \A i \in 0..Len(v) : SumsTo(v, P)[i] \in Int
<1> DEFINE u == At(v, P)
           f == SumsTo(v, P)
<1>0. Len(v) \in Nat /\ \A i \in 1..Len(v) : v[i] \in Int BY LenProperties
<1>1. u \in Seq(Int) /\ Len(u) = Len(v) /\ \A i \in 1..Len(v) : u[i] = IF i \in P THEN v[i] ELSE 0
  BY <1>0 DEF At
<1> HIDE DEF u
<1>2. \E g : TotalIs(u, g) BY <1>0, <1>1, TotalReads
<1>3. TotalIs(u, f) BY <1>2 DEF SumsTo, u
<1> HIDE DEF f
<1>4. \A i \in 0..Len(v) : f[i] = IF i = 0 THEN 0 ELSE f[i - 1] + u[i] BY <1>1, <1>3 DEF TotalIs
<1>5. f[0] = 0 BY <1>0, <1>4
<1>6. \A i \in 1..Len(v) : f[i] = f[i - 1] + u[i] BY <1>0, <1>4
<1>7. \A i \in 1..Len(v) : f[i] = f[i - 1] + (IF i \in P THEN v[i] ELSE 0) BY <1>1, <1>6
<1> DEFINE G == {i \in 0..Len(v) : f[i] \in Int}
<1>8. 0 \in G BY <1>0, <1>5
<1>9. ASSUME NEW i \in 1..Len(v), i - 1 \in G PROVE i \in G
  <2>1. u[i] \in Int /\ f[i - 1] \in Int BY <1>0, <1>1, <1>9
  <2>2. f[i] \in Int BY <2>1, <1>6
  <2> QED BY <2>2, <1>0
<1> HIDE DEF G
<1>10. Climbs(G, Len(v)) BY <1>8, <1>9 DEF Climbs
<1>11. \A i \in 0..Len(v) : i \in G BY <1>0, <1>10, Upwards
<1> QED BY <1>5, <1>7, <1>11 DEF G, f

\* Where there are no more places, there is no more.
LEMMA SumsNone ==
  ASSUME NEW v \in Seq(Int), NEW P, NEW n \in 0..Len(v), \A j \in 1..n : j \notin P
  PROVE  SumsTo(v, P)[n] = 0
<1> DEFINE f == SumsTo(v, P)
           G == {i \in 0..n : f[i] = 0}
<1>0. Len(v) \in Nat /\ n \in Nat BY LenProperties
<1>1. /\ f[0] = 0
      /\ \A i \in 1..Len(v) : f[i] = f[i - 1] + (IF i \in P THEN v[i] ELSE 0)
  BY SumsAre
<1> HIDE DEF f
<1>2. 0 \in G BY <1>0, <1>1
<1>3. ASSUME NEW i \in 1..n, i - 1 \in G PROVE i \in G
  <2>1. i \in 1..Len(v) /\ i \notin P BY <1>0
  <2>2. f[i] = f[i - 1] + 0 BY <1>1, <2>1
  <2>3. f[i - 1] = 0 BY <1>3
  <2> QED BY <1>0, <2>2, <2>3
<1> HIDE DEF G
<1>4. Climbs(G, n) BY <1>2, <1>3 DEF Climbs
<1>5. n \in G BY <1>0, <1>4, Upwards
<1> QED BY <1>5 DEF G, f

LEMMA TotalIsSum ==
  ASSUME NEW v \in Seq(Int)
  PROVE  Total(v) = SumsTo(v, 1..Len(v))[Len(v)]
<1> DEFINE f == SumsTo(v, 1..Len(v))
           n == Len(v)
<1>0. n \in Nat BY LenProperties
<1>1. /\ f[0] = 0
      /\ \A i \in 1..n : f[i] = f[i - 1] + v[i]
  BY SumsAre
<1>2. PICK g : TotalIs(v, g) /\ Total(v) = g[n] BY <1>0, TotalReads
<1>3. \A i \in 0..n : g[i] = IF i = 0 THEN 0 ELSE g[i - 1] + v[i] BY <1>2 DEF TotalIs
<1> HIDE DEF f, n
<1> DEFINE G == {i \in 0..n : f[i] = g[i]}
<1>4. 0 \in G BY <1>0, <1>1, <1>3
<1>5. ASSUME NEW i \in 1..n, i - 1 \in G PROVE i \in G
  <2>1. g[i] = g[i - 1] + v[i] /\ f[i] = f[i - 1] + v[i] BY <1>0, <1>1, <1>3
  <2>2. f[i - 1] = g[i - 1] BY <1>5
  <2> QED BY <1>0, <2>1, <2>2
<1> HIDE DEF G
<1>6. Climbs(G, n) BY <1>4, <1>5 DEF Climbs
<1>7. n \in G BY <1>0, <1>6, Upwards
<1> QED BY <1>2, <1>7 DEF G, f, n

\* One number more.
LEMMA TotalAppend ==
  ASSUME NEW v \in Seq(Int), NEW x \in Int
  PROVE  Total(Append(v, x)) = Total(v) + x /\ Total(v) \in Int
<1> DEFINE a == Append(v, x)
           n == Len(v)
<1>0. n \in Nat /\ a \in Seq(Int) /\ Len(a) = n + 1 /\ a[n + 1] = x /\ \A i \in 1..n : a[i] = v[i]
  BY LenProperties, AppendProperties
<1> HIDE DEF a
<1> DEFINE f == SumsTo(v, 1..n)
           g == SumsTo(a, 1..n + 1)
<1>1. f[0] = 0 /\ (\A i \in 1..n : f[i] = f[i - 1] + v[i]) /\ \A i \in 0..n : f[i] \in Int BY SumsAre
<1>2. g[0] = 0 /\ \A i \in 1..n + 1 : g[i] = g[i - 1] + a[i]
  <2> DEFINE Q == 1..n + 1
  <2> HIDE DEF Q
  <2>1. /\ SumsTo(a, Q)[0] = 0
        /\ \A i \in 1..Len(a) : SumsTo(a, Q)[i] = SumsTo(a, Q)[i - 1] + (IF i \in Q THEN a[i] ELSE 0)
    <3>1. a \in Seq(Int) BY <1>0
    <3> QED BY <3>1, SumsAre
  <2>2. g = SumsTo(a, Q) BY DEF Q
  <2> HIDE DEF g
  <2>3. \A i \in 1..n + 1 : i \in Q BY DEF Q
  <2> QED BY <1>0, <2>1, <2>2, <2>3
<1>3. Total(v) = f[n] /\ Total(a) = g[n + 1] BY <1>0, TotalIsSum
<1> HIDE DEF f, g, n
<1> DEFINE G == {i \in 0..n : f[i] = g[i]}
<1>4. 0 \in G BY <1>0, <1>1, <1>2
<1>5. ASSUME NEW i \in 1..n, i - 1 \in G PROVE i \in G
  <2>1. i \in 1..n + 1 /\ i \in 0..n BY <1>0
  <2>2. f[i] = f[i - 1] + v[i] BY <1>1
  <2>3. g[i] = g[i - 1] + a[i] BY <1>2, <2>1
  <2>4. a[i] = v[i] BY <1>0
  <2>5. f[i - 1] = g[i - 1] BY <1>5
  <2> QED BY <2>1, <2>2, <2>3, <2>4, <2>5
<1> HIDE DEF G
<1>6. Climbs(G, n) BY <1>4, <1>5 DEF Climbs
<1>7. f[n] = g[n] /\ f[n] \in Int BY <1>0, <1>1, <1>6, Upwards DEF G
<1>8. g[n + 1] = g[n + 1 - 1] + a[n + 1] BY <1>0, <1>2
<1>9. n + 1 - 1 = n BY <1>0
<1> QED BY <1>0, <1>3, <1>7, <1>8, <1>9 DEF a

LEMMA TotalEmpty == Total(<<>>) = 0
<1> DEFINE e == <<>>
<1>1. e \in Seq(Int) /\ Len(e) = 0 OBVIOUS
<1> HIDE DEF e
<1>2. Total(e) = SumsTo(e, 1..Len(e))[0] BY <1>1, TotalIsSum
<1>3. SumsTo(e, 1..Len(e))[0] = 0 BY <1>1, SumsAre
<1> QED BY <1>2, <1>3 DEF e

\* What the chosen come to: the numbers at their places.
LEMMA WhereTotal ==
  ASSUME NEW T, NEW s \in Seq(T), NEW chosen, NEW worth, \A x \in T : worth[x] \in Int
  PROVE  Total([k \in 1..Len(Where(s, chosen)) |-> worth[Where(s, chosen)[k]]])
         = SumsTo([i \in 1..Len(s) |-> worth[s[i]]], Places(s, chosen))[Len(s)]
<1> DEFINE v == [i \in 1..Len(s) |-> worth[s[i]]]
           P == Places(s, chosen)
           g == SumsTo(v, P)
           n == Len(s)
<1>0. n \in Nat /\ DOMAIN s = 1..n /\ \A i \in 1..n : s[i] \in T BY LenProperties
<1>1. v \in Seq(Int) /\ Len(v) = n /\ \A i \in 1..n : v[i] = worth[s[i]] BY <1>0
<1> HIDE DEF v
<1>2. g[0] = 0 /\ \A i \in 1..n : g[i] = g[i - 1] + (IF i \in P THEN v[i] ELSE 0) BY <1>1, SumsAre
<1>3. \A i \in 1..n : i \in P <=> s[i] \in chosen BY <1>0 DEF Places
<1>4. PICK f : WhereIs(s, chosen, f) /\ Where(s, chosen) = f[n] BY <1>0, WhereReads
<1>5. \A i \in 0..n : f[i] = IF i = 0 THEN <<>>
                             ELSE IF s[i] \in chosen THEN Append(f[i - 1], s[i]) ELSE f[i - 1]
  BY <1>4 DEF WhereIs
<1> HIDE DEF g, n, P
<1> DEFINE of(w) == [k \in 1..Len(w) |-> worth[w[k]]]
           G == {i \in 0..n : f[i] \in Seq(T) /\ Total(of(f[i])) = g[i]}
<1>6. 0 \in G
  <2>1. f[0] = <<>> BY <1>0, <1>5
  <2>2. of(f[0]) = <<>> BY <2>1
  <2>3. f[0] \in Seq(T) BY <2>1
  <2>4. Total(of(f[0])) = 0 BY <2>2, TotalEmpty
  <2>5. 0 \in 0..n BY <1>0
  <2> HIDE DEF of
  <2> QED BY <1>2, <2>3, <2>4, <2>5
<1>7. ASSUME NEW i \in 1..n, i - 1 \in G PROVE i \in G
  <2> DEFINE w == f[i - 1]
  <2>1. i \in 0..n /\ i # 0 BY <1>0
  <2>2. f[i] = IF s[i] \in chosen THEN Append(w, s[i]) ELSE w BY <1>5, <2>1
  <2>3. w \in Seq(T) /\ Total(of(w)) = g[i - 1] BY <1>7
  <2>4. g[i] = g[i - 1] + (IF s[i] \in chosen THEN worth[s[i]] ELSE 0) BY <1>1, <1>2, <1>3
  <2>5. s[i] \in T BY <1>0
  <2> HIDE DEF w
  <2>6. of(w) \in Seq(Int)
    <3>1. Len(w) \in Nat /\ \A k \in 1..Len(w) : w[k] \in T BY <2>3, LenProperties
    <3> QED BY <3>1
  <2>7. CASE s[i] \in chosen
    <3>1. f[i] = Append(w, s[i]) /\ g[i] = g[i - 1] + worth[s[i]] BY <2>2, <2>4, <2>7
    <3>2. of(Append(w, s[i])) = Append(of(w), worth[s[i]])
      <4>1. /\ Append(w, s[i]) \in Seq(T) /\ Len(Append(w, s[i])) = Len(w) + 1
            /\ Append(w, s[i])[Len(w) + 1] = s[i] /\ Len(w) \in Nat
            /\ \A k \in 1..Len(w) : Append(w, s[i])[k] = w[k]
        BY <2>3, <2>5, AppendProperties, LenProperties
      <4> DEFINE x == Append(w, s[i])
                 y == Append(of(w), worth[s[i]])
      <4>2. /\ y \in Seq(Int) /\ Len(y) = Len(w) + 1 /\ y[Len(w) + 1] = worth[s[i]]
            /\ \A k \in 1..Len(w) : y[k] = worth[w[k]]
        <5>1. worth[s[i]] \in Int BY <2>5
        <5>2. Len(of(w)) = Len(w) BY <4>1
        <5>3. /\ y \in Seq(Int) /\ Len(y) = Len(of(w)) + 1 /\ y[Len(of(w)) + 1] = worth[s[i]]
              /\ \A k \in 1..Len(of(w)) : y[k] = of(w)[k]
          <6> DEFINE o == of(w)
          <6> HIDE DEF of
          <6> QED BY <2>6, <5>1, AppendProperties
        <5> HIDE DEF y
        <5> QED BY <5>2, <5>3
      <4> HIDE DEF x, y
      <4>3. of(x) \in Seq(Int) /\ Len(of(x)) = Len(w) + 1
        <5>1. x \in Seq(T) /\ Len(x) = Len(w) + 1 BY <4>1 DEF x
        <5>2. \A k \in 1..Len(x) : x[k] \in T BY <5>1, LenProperties
        <5> QED BY <4>1, <5>1, <5>2
      <4>4. ASSUME NEW k \in 1..Len(w) + 1 PROVE of(x)[k] = y[k]
        <5>1. of(x)[k] = worth[x[k]] BY <4>1 DEF x
        <5>2. k = Len(w) + 1 \/ k \in 1..Len(w) BY <4>1
        <5> QED BY <4>1, <4>2, <5>1, <5>2 DEF x
      <4>5. of(x) = y
        <5> HIDE DEF of
        <5> QED BY <4>2, <4>3, <4>4, SeqEqual
      <4> QED BY <4>5 DEF x, y
    <3>3. Total(of(f[i])) = g[i]
      <4> HIDE DEF of
      <4>1. worth[s[i]] \in Int BY <2>5
      <4>2. Total(Append(of(w), worth[s[i]])) = Total(of(w)) + worth[s[i]] BY <2>6, <4>1, TotalAppend
      <4> QED BY <2>3, <3>1, <3>2, <4>2
    <3>4. f[i] \in Seq(T) BY <2>3, <2>5, <3>1, AppendProperties
    <3> QED BY <2>1, <3>3, <3>4
  <2>8. CASE s[i] \notin chosen
    <3>1. f[i] = w /\ g[i] = g[i - 1] + 0 BY <2>2, <2>4, <2>8
    <3>2. Total(of(w)) \in Int
      <4> HIDE DEF of
      <4> QED BY <2>6, TotalAppend
    <3>3. g[i] = g[i - 1] BY <2>3, <3>1, <3>2
    <3> QED BY <2>1, <2>3, <3>1, <3>3
  <2> QED BY <2>7, <2>8
<1> HIDE DEF G
<1>8. Climbs(G, n) BY <1>6, <1>7 DEF Climbs
<1>9. n \in G BY <1>0, <1>8, Upwards
<1> QED BY <1>4, <1>9 DEF G, v, P, g, n

-----------------------------------------------------------------------------
(* Every row of a stream is in one bucket                                  *)

BucketOf(t, width) == (t \div width) * width

LEMMA InItsBucket ==
  ASSUME NEW t \in Int, NEW width \in Nat \ {0}
  PROVE  /\ BucketOf(t, width) \in Int
         /\ BucketOf(t, width) <= t /\ t < BucketOf(t, width) + width
<1> DEFINE q == t \div width
           r == t % width
<1>1. q \in Int /\ r \in 0..width - 1 /\ t = width * q + r OBVIOUS
<1>2. BucketOf(t, width) = q * width BY DEF BucketOf
<1> HIDE DEF q, r
<1>3. q * width = width * q /\ q * width \in Int BY ONLY <1>1, width \in Nat
<1> QED BY <1>1, <1>2, <1>3

LEMMA BucketsApart ==
  ASSUME NEW t \in Int, NEW u \in Int, NEW width \in Nat \ {0}, t <= u
  PROVE  BucketOf(t, width) = BucketOf(u, width) \/ BucketOf(t, width) + width <= BucketOf(u, width)
<1> DEFINE p == t \div width
           q == u \div width
<1>1. p \in Int /\ q \in Int OBVIOUS
<1>2. BucketOf(t, width) = p * width /\ BucketOf(u, width) = q * width BY DEF BucketOf
<1>3. p * width <= t /\ t < p * width + width /\ q * width <= u /\ u < q * width + width
  <2> HIDE DEF p, q
  <2> QED BY <1>2, InItsBucket
<1> HIDE DEF p, q
<1>4. CASE p < q
  <2>1. (p + 1) * width <= q * width BY ONLY <1>1, <1>4, width \in Nat
  <2>2. (p + 1) * width = p * width + width BY ONLY <1>1, width \in Nat
  <2> QED BY <1>2, <2>1, <2>2
<1>5. CASE q < p
  <2>1. (q + 1) * width <= p * width BY ONLY <1>1, <1>5, width \in Nat
  <2>2. (q + 1) * width = q * width + width BY ONLY <1>1, width \in Nat
  <2>3. p * width \in Int /\ q * width \in Int BY ONLY <1>1, width \in Nat
  <2> QED BY <1>3, <2>1, <2>2, <2>3
<1>6. CASE p = q BY <1>2, <1>6
<1> QED BY <1>1, <1>4, <1>5, <1>6

Numbers(s) == [i \in 1..Len(s) |-> s[i].value]
During(s, from, width) == {i \in 1..Len(s) : from <= s[i].ts /\ s[i].ts < from + width}
\* The rows in the bucket that begins at an instant, and all of them, as far as a place.
Bucketful(s, from, width) == SumsTo(Numbers(s), During(s, from, width))
AllOf(s) == SumsTo(Numbers(s), 1..Len(s))

\* What the buckets hold when so many rows are read.
Holds(s, width, acc, i) ==
    /\ i > 0 => acc.rows # <<>> /\ acc.bucket = BucketOf(s[i].ts, width)
    /\ i = 0 => acc.rows = <<>> /\ acc.points = <<>>
    /\ Total(Numbers(acc.rows)) = Bucketful(s, acc.bucket, width)[i]
    /\ \A k \in 1..Len(acc.points) :
           /\ acc.points[k].ts + width <= acc.bucket
           /\ acc.points[k].value = Bucketful(s, acc.points[k].ts, width)[i]
    /\ Total(Numbers(acc.points)) + Total(Numbers(acc.rows)) = AllOf(s)[i]

LEMMA NumbersTyped ==
  ASSUME NEW T, Streamed(T), NEW s \in Seq(T)
  PROVE  Numbers(s) \in Seq(Int) /\ Len(Numbers(s)) = Len(s)
<1>1. Len(s) \in Nat /\ \A i \in 1..Len(s) : s[i] \in T BY LenProperties
<1>2. \A i \in 1..Len(s) : s[i].value \in Int BY <1>1 DEF Streamed
<1> QED BY <1>1, <1>2 DEF Numbers

LEMMA NumbersAppend ==
  ASSUME NEW T, Streamed(T), NEW s \in Seq(T), NEW x \in T
  PROVE  /\ Total(Numbers(Append(s, x))) = Total(Numbers(s)) + x.value
         /\ Total(Numbers(s)) \in Int /\ Append(s, x) \in Seq(T)
<1> DEFINE y == Append(s, x)
           z == Append(Numbers(s), x.value)
           n == Len(s)
<1>1. /\ y \in Seq(T) /\ Len(y) = n + 1 /\ y[n + 1] = x /\ n \in Nat
      /\ \A k \in 1..n : y[k] = s[k]
  BY AppendProperties, LenProperties
<1>2. Numbers(s) \in Seq(Int) /\ Len(Numbers(s)) = n BY NumbersTyped
<1>3. x.value \in Int BY DEF Streamed
<1>4. /\ z \in Seq(Int) /\ Len(z) = n + 1 /\ z[n + 1] = x.value
      /\ \A k \in 1..n : z[k] = Numbers(s)[k]
  BY <1>2, <1>3, AppendProperties
<1>5. Total(z) = Total(Numbers(s)) + x.value /\ Total(Numbers(s)) \in Int BY <1>2, <1>3, TotalAppend
<1> HIDE DEF y
<1>6. Numbers(y) \in Seq(Int) /\ Len(Numbers(y)) = n + 1 BY <1>1, NumbersTyped
<1>7. \A k \in 1..n : Numbers(s)[k] = s[k].value BY DEF Numbers
<1>8. \A k \in 1..n + 1 : Numbers(y)[k] = y[k].value BY <1>1 DEF Numbers
<1> HIDE DEF z, n
<1>9. ASSUME NEW k \in 1..n + 1 PROVE Numbers(y)[k] = z[k]
  <2>1. k = n + 1 \/ k \in 1..n BY <1>1
  <2> QED BY <1>1, <1>4, <1>7, <1>8, <2>1
<1>10. Numbers(y) = z BY <1>4, <1>6, <1>9, SeqEqual
<1> QED BY <1>1, <1>5, <1>10 DEF y

LEMMA FilledIs ==
  ASSUME NEW T, Streamed(T), NEW s \in Seq(T), NEW from, NEW width
  PROVE  /\ Bucketful(s, from, width)[0] = 0
         /\ \A i \in 1..Len(s) :
                Bucketful(s, from, width)[i]
                = Bucketful(s, from, width)[i - 1]
                  + (IF from <= s[i].ts /\ s[i].ts < from + width THEN s[i].value ELSE 0)
         /\ \A i \in 0..Len(s) : Bucketful(s, from, width)[i] \in Int
<1> DEFINE v == Numbers(s)
           P == During(s, from, width)
           f == SumsTo(v, P)
<1>1. v \in Seq(Int) /\ Len(v) = Len(s) BY NumbersTyped
<1>2. \A i \in 1..Len(s) : v[i] = s[i].value BY DEF Numbers
<1>3. \A i \in 1..Len(s) : i \in P <=> from <= s[i].ts /\ s[i].ts < from + width BY DEF During
<1> HIDE DEF v, P
<1>4. /\ f[0] = 0
      /\ \A i \in 1..Len(v) : f[i] = f[i - 1] + (IF i \in P THEN v[i] ELSE 0)
      /\ \A i \in 0..Len(v) : f[i] \in Int
  BY <1>1, SumsAre
<1>5. Bucketful(s, from, width) = f BY DEF Bucketful, v, P
<1> HIDE DEF f
<1> QED BY <1>1, <1>2, <1>3, <1>4, <1>5

LEMMA AllIs ==
  ASSUME NEW T, Streamed(T), NEW s \in Seq(T)
  PROVE  /\ AllOf(s)[0] = 0
         /\ \A i \in 1..Len(s) : AllOf(s)[i] = AllOf(s)[i - 1] + s[i].value
         /\ \A i \in 0..Len(s) : AllOf(s)[i] \in Int
<1> DEFINE v == Numbers(s)
           P == 1..Len(s)
           f == SumsTo(v, P)
<1>1. v \in Seq(Int) /\ Len(v) = Len(s) BY NumbersTyped
<1>2. \A i \in 1..Len(s) : v[i] = s[i].value BY DEF Numbers
<1>3. \A i \in 1..Len(s) : i \in P OBVIOUS
<1> HIDE DEF v, P
<1>4. /\ f[0] = 0
      /\ \A i \in 1..Len(v) : f[i] = f[i - 1] + (IF i \in P THEN v[i] ELSE 0)
      /\ \A i \in 0..Len(v) : f[i] \in Int
  BY <1>1, SumsAre
<1>5. AllOf(s) = f BY DEF AllOf, v, P
<1> HIDE DEF f
<1> QED BY <1>1, <1>2, <1>3, <1>4, <1>5

\* Rows in order of time.
InTime(s) == \A i, j \in 1..Len(s) : i <= j => s[i].ts <= s[j].ts

\* A bucket that begins after a row has none of those up to it.
LEMMA FilledLater ==
  ASSUME NEW T, Streamed(T), NEW s \in Seq(T), InTime(s), NEW from, NEW width,
         NEW n \in 0..Len(s), n > 0 => from > s[n].ts, from \in Int
  PROVE  Bucketful(s, from, width)[n] = 0
<1>0. Len(s) \in Nat /\ \A i \in 1..Len(s) : s[i].ts \in Int
  <2>1. Len(s) \in Nat /\ \A i \in 1..Len(s) : s[i] \in T BY LenProperties
  <2> QED BY <2>1 DEF Streamed
<1>1. Numbers(s) \in Seq(Int) /\ Len(Numbers(s)) = Len(s) BY NumbersTyped
<1>2. ASSUME NEW j \in 1..n PROVE j \notin During(s, from, width)
  <2>1. n > 0 /\ n \in 1..Len(s) /\ j \in 1..Len(s) /\ j <= n BY <1>0
  <2>2. s[j].ts <= s[n].ts BY <2>1 DEF InTime
  <2>3. ~(from <= s[j].ts) BY <1>0, <2>1, <2>2
  <2> QED BY <2>3 DEF During
<1> DEFINE v == Numbers(s)
           P == During(s, from, width)
<1> HIDE DEF v, P
<1>3. v \in Seq(Int) /\ n \in 0..Len(v) /\ \A j \in 1..n : j \notin P BY <1>1, <1>2 DEF v, P
<1>4. SumsTo(v, P)[n] = 0 BY <1>3, SumsNone
<1> QED BY <1>4 DEF Bucketful, v, P

LEMMA ReduceSum ==
  ASSUME NEW T, Streamed(T), NEW rows \in Seq(T), NEW bucket \in Int
  PROVE  /\ Reduce(bucket, rows, "sum") \in Bucketed
         /\ Reduce(bucket, rows, "sum").ts = bucket
         /\ Reduce(bucket, rows, "sum").value = Total(Numbers(rows))
<1>1. Numbers(rows) \in Seq(Int) /\ Len(rows) \in Nat BY NumbersTyped, LenProperties
<1>2. Reduce(bucket, rows, "sum")
      = [ts |-> bucket, n |-> Len(rows), value |-> Total(<<>> \o Numbers(rows))]
  BY DEF Reduce, Reduced, Each, Numbers
<1> DEFINE v == Numbers(rows)
<1> HIDE DEF v
<1>3. <<>> \o v = v BY <1>1, ConcatEmptySeq DEF v
<1>4. Total(v) \in Int BY <1>1, TotalAppend DEF v
<1> QED BY <1>1, <1>2, <1>3, <1>4 DEF Bucketed, v

\* The buckets once the one in hand is finished.
AllHeld(s, width, points, i) ==
    /\ points \in Seq(Bucketed)
    /\ \A k \in 1..Len(points) : points[k].value = Bucketful(s, points[k].ts, width)[i]
    /\ Total(Numbers(points)) = AllOf(s)[i]

LEMMA BucketedStream == Streamed(Bucketed)
BY DEF Streamed, Bucketed

LEMMA ClosedHolds ==
  ASSUME NEW T, Streamed(T), NEW s \in Seq(T), NEW width \in Nat \ {0}, NEW i \in 0..Len(s),
         NEW acc \in Stream(T), Holds(s, width, acc, i)
  PROVE  /\ AllHeld(s, width, Closed(acc, "sum"), i)
         /\ \A k \in 1..Len(Closed(acc, "sum")) : Closed(acc, "sum")[k].ts <= acc.bucket
<1> DEFINE b == Bucketed
           points == acc.points
           last == Reduce(acc.bucket, acc.rows, "sum")
<1>0. points \in Seq(Bucketed) /\ acc.bucket \in Int /\ acc.rows \in Seq(T) BY DEF Stream
<1>1. /\ Total(Numbers(acc.rows)) = Bucketful(s, acc.bucket, width)[i]
      /\ \A k \in 1..Len(points) :
             /\ points[k].ts + width <= acc.bucket
             /\ points[k].value = Bucketful(s, points[k].ts, width)[i]
      /\ Total(Numbers(points)) + Total(Numbers(acc.rows)) = AllOf(s)[i]
  BY DEF Holds
<1>2. Len(points) \in Nat /\ \A k \in 1..Len(points) : points[k] \in Bucketed BY <1>0, LenProperties
<1>3. \A k \in 1..Len(points) : points[k].ts \in Int BY <1>2 DEF Bucketed
<1>4. CASE acc.rows = <<>>
  <2>1. Closed(acc, "sum") = points BY <1>4 DEF Closed
  <2>2. Total(Numbers(points)) \in Int
    <3>1. Numbers(points) \in Seq(Int) BY <1>0, BucketedStream, NumbersTyped
    <3> QED BY <3>1, TotalAppend
  <2>3. Total(Numbers(acc.rows)) = 0
    <3>1. Numbers(<<>>) = <<>> BY DEF Numbers
    <3> QED BY <1>4, <3>1, TotalEmpty
  <2>4. Total(Numbers(points)) = AllOf(s)[i] BY <1>1, <2>2, <2>3
  <2>5. \A k \in 1..Len(points) : points[k].ts <= acc.bucket
    <3> HIDE DEF points
    <3> QED BY <1>0, <1>1, <1>3
  <2>6. AllHeld(s, width, points, i) BY <1>0, <1>1, <2>4 DEF AllHeld
  <2> QED BY <2>1, <2>5, <2>6
<1>5. CASE acc.rows # <<>>
  <2>1. Closed(acc, "sum") = Append(points, last) BY <1>5 DEF Closed
  <2>2. last \in Bucketed /\ last.ts = acc.bucket /\ last.value = Total(Numbers(acc.rows))
    BY <1>0, ReduceSum
  <2> DEFINE c == Append(points, last)
             n == Len(points)
  <2> HIDE DEF last
  <2>3. /\ Total(Numbers(c)) = Total(Numbers(points)) + last.value /\ c \in Seq(Bucketed)
    BY <1>0, <2>2, BucketedStream, NumbersAppend
  <2>4. Len(c) = n + 1 /\ c[n + 1] = last /\ \A k \in 1..n : c[k] = points[k]
    BY <1>0, <2>2, AppendProperties
  <2> HIDE DEF c, points
  <2>5. \A k \in 1..Len(c) : k = n + 1 \/ k \in 1..n BY <1>2, <2>4
  <2> HIDE DEF n
  <2>6. ASSUME NEW k \in 1..Len(c)
        PROVE  c[k].value = Bucketful(s, c[k].ts, width)[i] /\ c[k].ts <= acc.bucket
    <3>1. CASE k = n + 1
      <4>1. c[k] = last BY <2>4, <3>1
      <4> QED BY <1>0, <1>1, <2>2, <4>1
    <3>2. CASE k \in 1..n
      <4>1. c[k] = points[k] BY <2>4, <3>2
      <4>2. points[k].ts + width <= acc.bucket /\ points[k].ts \in Int
            /\ points[k].value = Bucketful(s, points[k].ts, width)[i]
        BY <1>1, <1>3, <3>2 DEF n
      <4> QED BY <1>0, <4>1, <4>2
    <3> QED BY <2>5, <3>1, <3>2
  <2>7. Total(Numbers(c)) = AllOf(s)[i] BY <1>1, <2>2, <2>3
  <2>8. AllHeld(s, width, c, i) BY <2>3, <2>6, <2>7 DEF AllHeld
  <2> QED BY <2>1, <2>6, <2>8 DEF c
<1> QED BY <1>4, <1>5

LEMMA NextHolds ==
  ASSUME NEW T, Streamed(T), NEW s \in Seq(T), InTime(s), NEW width \in Nat \ {0},
         NEW i \in 1..Len(s), NEW acc \in Stream(T), Holds(s, width, acc, i - 1)
  PROVE  NextBucket(acc, s[i], width, "sum") \in Stream(T)
         /\ Holds(s, width, NextBucket(acc, s[i], width, "sum"), i)
<1> DEFINE row == s[i]
           start == BucketOf(row.ts, width)
           next == NextBucket(acc, row, width, "sum")
<1>0. Len(s) \in Nat /\ \A j \in 1..Len(s) : s[j] \in T /\ s[j].ts \in Int /\ s[j].value \in Int
  <2>1. Len(s) \in Nat /\ \A j \in 1..Len(s) : s[j] \in T BY LenProperties
  <2> QED BY <2>1 DEF Streamed
<1>1. i \in Nat /\ i > 0 /\ i - 1 \in 0..Len(s) BY <1>0
<1>2. row \in T /\ row.ts \in Int /\ row.value \in Int BY <1>0
<1>3. start \in Int /\ start <= row.ts /\ row.ts < start + width BY <1>2, InItsBucket
<1>4. acc.points \in Seq(Bucketed) /\ acc.bucket \in Int /\ acc.rows \in Seq(T) BY DEF Stream
<1>5. /\ i - 1 > 0 => acc.rows # <<>> /\ acc.bucket = BucketOf(s[i - 1].ts, width)
      /\ i - 1 = 0 => acc.rows = <<>> /\ acc.points = <<>>
      /\ Total(Numbers(acc.rows)) = Bucketful(s, acc.bucket, width)[i - 1]
      /\ \A k \in 1..Len(acc.points) :
             /\ acc.points[k].ts + width <= acc.bucket
             /\ acc.points[k].value = Bucketful(s, acc.points[k].ts, width)[i - 1]
      /\ Total(Numbers(acc.points)) + Total(Numbers(acc.rows)) = AllOf(s)[i - 1]
  BY DEF Holds
<1>6. AllOf(s)[i] = AllOf(s)[i - 1] + row.value /\ AllOf(s)[i - 1] \in Int BY <1>1, AllIs
<1>7. ASSUME NEW from \in Int
      PROVE  Bucketful(s, from, width)[i - 1] \in Int
             /\ Bucketful(s, from, width)[i]
                = Bucketful(s, from, width)[i - 1]
                  + (IF from <= row.ts /\ row.ts < from + width THEN row.value ELSE 0)
  BY <1>1, FilledIs
<1>8. ASSUME NEW from \in Int, from + width <= row.ts
      PROVE  Bucketful(s, from, width)[i] = Bucketful(s, from, width)[i - 1]
  <2>1. ~(row.ts < from + width) BY <1>2, <1>8
  <2>2. Bucketful(s, from, width)[i] = Bucketful(s, from, width)[i - 1] + 0 BY <1>7, <2>1
  <2> QED BY <1>7, <2>2
<1>9. next = IF acc.bucket = start THEN [acc EXCEPT !.rows = Append(@, row)]
             ELSE [points |-> Closed(acc, "sum"), bucket |-> start, rows |-> <<row>>]
  BY DEF NextBucket, BucketOf
<1> HIDE DEF row, start, next
<1>10. CASE acc.bucket = start
  <2>1. /\ next.points = acc.points /\ next.bucket = start /\ next.rows = Append(acc.rows, row)
        /\ DOMAIN next = {"points", "bucket", "rows"}
    <3>1. next = [acc EXCEPT !.rows = Append(@, row)] BY <1>9, <1>10
    <3>2. acc = [points |-> acc.points, bucket |-> acc.bucket, rows |-> acc.rows] BY DEF Stream
    <3> QED BY <1>10, <3>1, <3>2
  <2>2. /\ Total(Numbers(next.rows)) = Total(Numbers(acc.rows)) + row.value
        /\ Total(Numbers(acc.rows)) \in Int /\ next.rows \in Seq(T)
    BY <1>2, <1>4, <2>1, NumbersAppend
  <2>3. next.rows # <<>>
    <3>1. Len(Append(acc.rows, row)) = Len(acc.rows) + 1 /\ Len(acc.rows) \in Nat
      BY <1>2, <1>4, AppendProperties, LenProperties
    <3>2. Len(<<>>) = 0 OBVIOUS
    <3>3. Len(next.rows) # 0 BY <2>1, <3>1
    <3> QED BY <3>2, <3>3
  <2>4. Total(Numbers(next.rows)) = Bucketful(s, next.bucket, width)[i]
    <3>1. Bucketful(s, start, width)[i] = Bucketful(s, start, width)[i - 1] + row.value
      BY <1>3, <1>7
    <3> QED BY <1>5, <1>10, <2>1, <2>2, <3>1
  <2>5. ASSUME NEW k \in 1..Len(next.points)
        PROVE  /\ next.points[k].ts + width <= next.bucket
               /\ next.points[k].value = Bucketful(s, next.points[k].ts, width)[i]
    <3> DEFINE p == acc.points[k]
    <3>1. next.points[k] = p /\ k \in 1..Len(acc.points) BY <2>1
    <3>2. p.ts + width <= start /\ p.value = Bucketful(s, p.ts, width)[i - 1] BY <1>5, <1>10, <3>1
    <3>3. p.ts \in Int
      <4>1. p \in Bucketed BY <1>4, <3>1, LenProperties
      <4> QED BY <4>1 DEF Bucketed
    <3> HIDE DEF p
    <3>4. p.ts + width <= row.ts BY <1>2, <1>3, <3>2, <3>3
    <3> QED BY <1>8, <2>1, <3>1, <3>2, <3>3, <3>4
  <2>6. Total(Numbers(next.points)) + Total(Numbers(next.rows)) = AllOf(s)[i]
    <3>1. Total(Numbers(acc.points)) \in Int
      <4>1. Numbers(acc.points) \in Seq(Int) BY <1>4, BucketedStream, NumbersTyped
      <4> QED BY <4>1, TotalAppend
    <3> QED BY <1>2, <1>5, <1>6, <2>1, <2>2, <3>1
  <2>7. Holds(s, width, next, i)
    <3>1. ~(i = 0) /\ next.bucket = BucketOf(s[i].ts, width) BY <1>1, <2>1 DEF start, row
    <3> QED BY <2>3, <2>4, <2>5, <2>6, <3>1 DEF Holds
  <2>8. next \in Stream(T)
    <3>1. next = [acc EXCEPT !.rows = Append(@, row)] BY <1>9, <1>10
    <3>2. Append(acc.rows, row) \in Seq(T) BY <2>1, <2>2
    <3> QED BY <3>1, <3>2 DEF Stream
  <2> QED BY <2>7, <2>8 DEF next, row
<1>11. CASE acc.bucket # start
  <2> DEFINE c == Closed(acc, "sum")
  <2>1. AllHeld(s, width, c, i - 1) /\ \A k \in 1..Len(c) : c[k].ts <= acc.bucket
    BY <1>1, ClosedHolds
  <2>2. next = [points |-> c, bucket |-> start, rows |-> <<row>>] BY <1>9, <1>11
  <2>3. i - 1 > 0 => acc.bucket + width <= start
    <3> SUFFICES ASSUME i - 1 > 0 PROVE acc.bucket + width <= start OBVIOUS
    <3>1. i - 1 \in 1..Len(s) /\ i \in 1..Len(s) /\ i - 1 <= i BY <1>1
    <3>2. s[i - 1].ts <= s[i].ts BY <3>1 DEF InTime
    <3>3. s[i - 1].ts \in Int /\ s[i].ts \in Int BY <1>0, <3>1
    <3>4. \/ BucketOf(s[i - 1].ts, width) = BucketOf(s[i].ts, width)
          \/ BucketOf(s[i - 1].ts, width) + width <= BucketOf(s[i].ts, width)
      BY <3>2, <3>3, BucketsApart
    <3> QED BY <1>5, <1>11, <3>4 DEF start, row
  <2>4. i - 1 = 0 => c = <<>> BY <1>5 DEF Closed
  <2>5. c \in Seq(Bucketed) /\ (\A k \in 1..Len(c) : c[k].value = Bucketful(s, c[k].ts, width)[i - 1])
        /\ Total(Numbers(c)) = AllOf(s)[i - 1]
    BY <2>1 DEF AllHeld
  <2> HIDE DEF c
  <2>6. Len(c) \in Nat /\ \A k \in 1..Len(c) : c[k].ts \in Int
    <3>1. Len(c) \in Nat /\ \A k \in 1..Len(c) : c[k] \in Bucketed BY <2>5, LenProperties
    <3> QED BY <3>1 DEF Bucketed
  <2>7. ASSUME NEW k \in 1..Len(c)
        PROVE  c[k].ts + width <= start /\ c[k].value = Bucketful(s, c[k].ts, width)[i]
    <3>1. i - 1 > 0
      <4>1. ASSUME i - 1 = 0 PROVE FALSE
        <5>1. Len(c) = 0 BY <2>4, <4>1
        <5> QED BY <5>1
      <4> QED BY <1>1, <4>1
    <3>2. c[k].ts <= acc.bucket /\ acc.bucket + width <= start BY <2>1, <2>3, <3>1
    <3>3. c[k].ts + width <= start /\ c[k].ts + width <= row.ts
      <4>1. c[k].ts \in Int /\ acc.bucket \in Int BY <1>4, <2>6
      <4>2. start \in Int /\ row.ts \in Int /\ start <= row.ts BY <1>2, <1>3
      <4>3. width \in Int OBVIOUS
      <4> HIDE DEF start, row
      <4> QED BY ONLY <3>2, <4>1, <4>2, <4>3
    <3>4. Bucketful(s, c[k].ts, width)[i] = Bucketful(s, c[k].ts, width)[i - 1] BY <1>8, <2>6, <3>3
    <3> QED BY <2>5, <3>3, <3>4
  <2>8. <<row>> \in Seq(T) /\ Total(Numbers(<<row>>)) = row.value
    <3> DEFINE e == <<>>
    <3>1. e \in Seq(T) /\ Append(e, row) = <<row>> /\ Numbers(e) = <<>> BY <1>2 DEF Numbers
    <3> HIDE DEF e
    <3>2. Total(Numbers(Append(e, row))) = Total(Numbers(e)) + row.value /\ Append(e, row) \in Seq(T)
      BY <1>2, <3>1, NumbersAppend
    <3>3. Total(Numbers(e)) = 0 BY <3>1, TotalEmpty
    <3> QED BY <1>2, <3>1, <3>2, <3>3
  <2>9. Bucketful(s, start, width)[i] = row.value
    <3>1. Bucketful(s, start, width)[i - 1] = 0
      <4>1. i - 1 > 0 => start > s[i - 1].ts
        <5> SUFFICES ASSUME i - 1 > 0 PROVE start > s[i - 1].ts OBVIOUS
        <5>1. s[i - 1].ts \in Int BY <1>0, <1>1
        <5>2. s[i - 1].ts < BucketOf(s[i - 1].ts, width) + width BY <5>1, InItsBucket
        <5>3. acc.bucket = BucketOf(s[i - 1].ts, width) /\ acc.bucket + width <= start BY <1>5, <2>3
        <5> QED BY <1>3, <1>4, <5>1, <5>2, <5>3
      <4> QED BY <1>1, <1>3, <4>1, FilledLater
    <3>2. Bucketful(s, start, width)[i] = Bucketful(s, start, width)[i - 1] + row.value
      BY <1>3, <1>7
    <3> QED BY <1>2, <3>1, <3>2
  <2>10. Holds(s, width, next, i)
    <3>1. /\ next.points = c /\ next.bucket = start /\ next.rows = <<row>> BY <2>2
    <3>2. ~(i = 0) /\ start = BucketOf(s[i].ts, width) /\ <<row>> # <<>> BY <1>1 DEF start, row
    <3>3. Total(Numbers(c)) + Total(Numbers(<<row>>)) = AllOf(s)[i] BY <1>6, <2>5, <2>8
    <3> QED BY <2>7, <2>8, <2>9, <3>1, <3>2, <3>3 DEF Holds
  <2>11. next \in Stream(T) BY <1>3, <2>2, <2>5, <2>8 DEF Stream
  <2> QED BY <2>10, <2>11 DEF next, row
<1> QED BY <1>10, <1>11

LEMMA BucketsHold ==
  ASSUME NEW T, Streamed(T), NEW s \in Seq(T), InTime(s), NEW width \in Nat \ {0}
  PROVE  AllHeld(s, width, Buckets(s, width, "sum"), Len(s))
<1>0. Len(s) \in Nat BY LenProperties
<1>1. PICK f : BucketsAre(s, width, "sum", f) /\ Buckets(s, width, "sum") = Closed(f[Len(s)], "sum")
  BY <1>0, BucketsRead
<1>2. /\ f[0] = [points |-> <<>>, bucket |-> -width, rows |-> <<>>]
      /\ \A i \in 1..Len(s) : f[i] = NextBucket(f[i - 1], s[i], width, "sum")
  <2>1. \A i \in 0..Len(s) :
          f[i] = IF i = 0 THEN [points |-> <<>>, bucket |-> -width, rows |-> <<>>]
                 ELSE NextBucket(f[i - 1], s[i], width, "sum")
    BY <1>1, Zenon DEF BucketsAre
  <2>2. 0 \in 0..Len(s) /\ \A i \in 1..Len(s) : i \in 0..Len(s) /\ i # 0 BY <1>0
  <2> QED BY <2>1, <2>2, Zenon
<1> DEFINE G == {i \in 0..Len(s) : f[i] \in Stream(T) /\ Holds(s, width, f[i], i)}
<1>3. 0 \in G
  <2>1. <<>> \in Seq(T) /\ <<>> \in Seq(Bucketed) /\ -width \in Int OBVIOUS
  <2>2. f[0] \in Stream(T) BY <1>2, <2>1 DEF Stream
  <2>3. f[0].points = <<>> /\ f[0].rows = <<>> /\ f[0].bucket = -width BY <1>2
  <2>4. Numbers(<<>>) = <<>> BY DEF Numbers
  <2>5. Bucketful(s, -width, width)[0] = 0 /\ AllOf(s)[0] = 0 BY FilledIs, AllIs
  <2>6. Len(f[0].points) = 0 BY <2>3
  <2>7. Holds(s, width, f[0], 0)
    <3>1. Total(Numbers(f[0].rows)) = 0 /\ Total(Numbers(f[0].points)) = 0 BY <2>3, <2>4, TotalEmpty
    <3>2. ~(0 > 0) /\ 0 + 0 = 0 OBVIOUS
    <3>3. \A k \in 1..Len(f[0].points) : FALSE BY <2>6
    <3> QED BY <2>3, <2>5, <3>1, <3>2, <3>3 DEF Holds
  <2> QED BY <1>0, <2>2, <2>7
<1>4. ASSUME NEW i \in 1..Len(s), i - 1 \in G PROVE i \in G
  <2>1. f[i - 1] \in Stream(T) /\ Holds(s, width, f[i - 1], i - 1) BY <1>4
  <2>2. f[i] \in Stream(T) /\ Holds(s, width, f[i], i) BY <1>2, <2>1, NextHolds
  <2> QED BY <1>0, <2>2
<1> HIDE DEF G
<1>5. Climbs(G, Len(s)) BY <1>3, <1>4 DEF Climbs
<1>6. Len(s) \in G BY <1>0, <1>5, Upwards
<1>7. f[Len(s)] \in Stream(T) /\ Holds(s, width, f[Len(s)], Len(s)) /\ Len(s) \in 0..Len(s)
  BY <1>0, <1>6 DEF G
<1> QED BY <1>1, <1>7, ClosedHolds

-----------------------------------------------------------------------------
(* A chart of tokens                                                       *)

AsOutput(s) == [i \in 1..Len(s) |-> Weighed(s[i], s[i].output, 1)]
Outputs(s) == [i \in 1..Len(s) |-> s[i].output]
SpentRow(T) == {Weighed(r, r.output, 1) : r \in T}

LEMMA AsOutputIs ==
  ASSUME NEW T, NEW s \in Seq(T), \A r \in T : r.ts \in Int /\ r.output \in Int
  PROVE  /\ Streamed(SpentRow(T))
         /\ AsOutput(s) \in Seq(SpentRow(T)) /\ Len(AsOutput(s)) = Len(s)
         /\ \A i \in 1..Len(s) : AsOutput(s)[i].ts = s[i].ts /\ AsOutput(s)[i].value = s[i].output
         /\ Outputs(s) \in Seq(Int) /\ Len(Outputs(s)) = Len(s)
<1>0. Len(s) \in Nat /\ \A i \in 1..Len(s) : s[i] \in T BY LenProperties
<1>1. Streamed(SpentRow(T)) BY DEF Streamed, SpentRow, Weighed
<1>2. \A i \in 1..Len(s) : Weighed(s[i], s[i].output, 1) \in SpentRow(T) BY <1>0 DEF SpentRow
<1>3. AsOutput(s) \in Seq(SpentRow(T)) /\ Len(AsOutput(s)) = Len(s) BY <1>0, <1>2 DEF AsOutput
<1>4. \A i \in 1..Len(s) : AsOutput(s)[i].ts = s[i].ts /\ AsOutput(s)[i].value = s[i].output
  BY DEF AsOutput, Weighed
<1>5. Outputs(s) \in Seq(Int) /\ Len(Outputs(s)) = Len(s) BY <1>0 DEF Outputs
<1> QED BY <1>1, <1>3, <1>4, <1>5

\* What is kept of the rows of a range are the rows of what is kept.
LEMMA OutputBetween ==
  ASSUME NEW T, NEW s \in Seq(T), \A r \in T : r.ts \in Int /\ r.output \in Int,
         NEW from, NEW to
  PROVE  Between(AsOutput(s), from, to) = AsOutput(Between(s, from, to))
<1> DEFINE a == AsOutput(s)
           A == {r \in Range(s) : from <= r.ts /\ r.ts <= to}
           B == {r \in Range(a) : from <= r.ts /\ r.ts <= to}
           w == Where(s, A)
           v == Where(a, B)
           U == SpentRow(T)
<1>0. Len(s) \in Nat /\ DOMAIN s = 1..Len(s) BY LenProperties
<1>1. /\ a \in Seq(U) /\ Len(a) = Len(s)
      /\ \A i \in 1..Len(s) : a[i].ts = s[i].ts /\ a[i] = Weighed(s[i], s[i].output, 1)
  BY AsOutputIs DEF AsOutput
<1> HIDE DEF a
<1>2. DOMAIN a = 1..Len(s) BY <1>1, LenProperties
<1>3. Places(s, A) = Places(a, B)
  <2>1. \A i \in 1..Len(s) : s[i] \in A <=> from <= s[i].ts /\ s[i].ts <= to BY <1>0 DEF Range
  <2>2. \A i \in 1..Len(s) : a[i] \in B <=> from <= a[i].ts /\ a[i].ts <= to BY <1>2 DEF Range
  <2> HIDE DEF A, B
  <2> QED BY <1>0, <1>1, <1>2, <2>1, <2>2 DEF Places
<1> HIDE DEF A, B
<1>4. w \in Seq(T) /\ v \in Seq(U) BY <1>1, WherePicks
<1>a. PICK f : Picks(s, A, w, f) BY WherePicks
<1>b. PICK g : Picks(a, B, v, g) BY <1>1, WherePicks
<1>5. Lists(f, Len(w), Places(s, A)) /\ \A k \in 1..Len(w) : w[k] = s[f[k]] BY <1>a DEF Picks
<1>6. Lists(g, Len(v), Places(s, A)) /\ \A k \in 1..Len(v) : v[k] = a[g[k]] BY <1>3, <1>b DEF Picks
<1> HIDE DEF w, v
<1>7. Len(w) = Len(v) /\ \A k \in 1..Len(w) : f[k] = g[k] BY <1>5, <1>6, ListedOnce
<1>8. \A k \in 1..Len(w) : f[k] \in 1..Len(s) BY <1>0, <1>5 DEF Lists, Places
<1>9. ASSUME NEW k \in 1..Len(v) PROVE v[k] = Weighed(w[k], w[k].output, 1)
  <2>1. k \in 1..Len(w) BY <1>7
  <2>2. v[k] = a[f[k]] /\ w[k] = s[f[k]] BY <1>5, <1>6, <1>7, <2>1
  <2>3. a[f[k]] = Weighed(s[f[k]], s[f[k]].output, 1) BY <1>1, <1>8, <2>1
  <2> QED BY <2>2, <2>3
<1>10. AsOutput(w) \in Seq(U) /\ Len(AsOutput(w)) = Len(w) BY <1>4, AsOutputIs
<1>11. \A k \in 1..Len(w) : AsOutput(w)[k] = Weighed(w[k], w[k].output, 1) BY DEF AsOutput
<1>12. v = AsOutput(w) BY <1>4, <1>7, <1>9, <1>10, <1>11, SeqEqual
<1>13. Between(s, from, to) = w BY DEF Between, w, A
<1>14. Between(a, from, to) = v BY DEF Between, v, B
<1> QED BY <1>12, <1>13, <1>14 DEF a

LEMMA OutputRows ==
  ASSUME NEW store, Chronological(store.turns), \A r \in Range(store.turns) : r.output \in Int
  PROVE  /\ SessionRows(store, "output_tokens") = AsOutput(store.turns)
         /\ Aggregation("output_tokens") = "sum"
<1>1. "output_tokens" \notin DOMAIN Tools BY DEF Tools
<1>2. SessionRows(store, "output_tokens") = <<>> \o AsOutput(store.turns)
  BY <1>1 DEF SessionRows, Each, AsOutput
<1> DEFINE T == Range(store.turns)
           a == AsOutput(store.turns)
<1>3. store.turns \in Seq(T) /\ \A r \in T : r.ts \in Int /\ r.output \in Int BY DEF Chronological
<1> HIDE DEF T
<1>4. a \in Seq(SpentRow(T)) BY <1>3, AsOutputIs
<1> HIDE DEF a
<1>5. <<>> \o a = a BY <1>4, ConcatEmptySeq
<1>6. Aggregation("output_tokens") = "sum"
  <2> DEFINE f == [x \in DOMAIN Tools \cup {"first_response_ms"} |-> "ms"]
             g == [output_tokens |-> "tokens", output_tokens_per_s |-> "tokens/s", cache_hit_ratio |-> "ratio"]
  <2>1. "output_tokens" \notin DOMAIN f BY <1>1
  <2>2. "output_tokens" \in DOMAIN g /\ g["output_tokens"] = "tokens" OBVIOUS
  <2>3. SessionUnit = Extended(f, g) BY DEF SessionUnit
  <2> HIDE DEF f, g
  <2>4. SessionUnit["output_tokens"] = "tokens" BY <2>1, <2>2, <2>3 DEF Extended
  <2> QED BY <2>4 DEF Aggregation
<1> QED BY <1>2, <1>5, <1>6 DEF a

LEMMA TurnsInTime ==
  ASSUME NEW rows, Chronological(rows), \A r \in Range(rows) : r.output \in Int, NEW from, NEW to
  PROVE  /\ Between(rows, from, to) \in Seq(Range(rows))
         /\ InTime(AsOutput(Between(rows, from, to)))
<1> DEFINE A == {r \in Range(rows) : from <= r.ts /\ r.ts <= to}
           T == Range(rows)
           w == Where(rows, A)
<1>0. rows \in Seq(T) /\ \A r \in T : r.ts \in Int /\ r.output \in Int BY DEF Chronological
<1>1. Between(rows, from, to) = w BY DEF Between
<1> HIDE DEF A, T
<1>2. w \in Seq(T) /\ Chronological(w) BY <1>0, WherePicks, WhereInTime
<1> HIDE DEF w
<1>3. Len(w) \in Nat /\ DOMAIN w = 1..Len(w) /\ \A i \in 1..Len(w) : w[i] \in T BY <1>2, LenProperties
<1>4. /\ Len(AsOutput(w)) = Len(w)
      /\ \A i \in 1..Len(w) : AsOutput(w)[i].ts = w[i].ts
  BY <1>0, <1>2, AsOutputIs
<1>5. ASSUME NEW i \in 1..Len(w), NEW j \in 1..Len(w), i <= j PROVE w[i].ts <= w[j].ts
  <2>1. CASE i = j
    <3>1. w[i].ts \in Int BY <1>0, <1>3
    <3> QED BY <2>1, <3>1
  <2>2. CASE i # j
    <3>1. i < j BY <1>3, <1>5, <2>2
    <3> QED BY <1>2, <1>3, <3>1 DEF Chronological
  <2> QED BY <2>1, <2>2
<1>6. InTime(AsOutput(w)) BY <1>4, <1>5 DEF InTime
<1> QED BY <1>1, <1>2, <1>6 DEF T

\* What a chart of tokens is made of, where nothing is cut off.
Points(b) == [i \in 1..Len(b) |-> [ts |-> b[i].ts, value |-> b[i].value]]

\* The newest rows of a stream are in order, and their output is the newest of the output.
LEMMA NewestInTime ==
  ASSUME NEW rows, Chronological(rows), \A r \in Range(rows) : r.output \in Int, NEW from, NEW to,
         NEW n \in Nat
  PROVE  LET w == Between(rows, from, to)
         IN  /\ LastOf(w, n) \in Seq(Range(rows))
             /\ InTime(AsOutput(LastOf(w, n)))
             /\ LastOf(AsOutput(w), n) = AsOutput(LastOf(w, n))
<1> DEFINE T == Range(rows)
           U == SpentRow(T)
           w == Between(rows, from, to)
           u == LastOf(w, n)
           a == AsOutput(w)
           v == LastOf(a, n)
           b == AsOutput(u)
           m == IF n < Len(w) THEN n ELSE Len(w)
<1>1. w \in Seq(T) /\ InTime(a) BY TurnsInTime
<1>2. \A r \in T : r.ts \in Int /\ r.output \in Int BY DEF Chronological
<1> HIDE DEF T, w
<1>3. Len(w) \in Nat BY <1>1, LenProperties
<1>4. /\ u \in Seq(T) /\ Len(u) = m
      /\ \A i \in 1..Len(u) : u[i] = w[Len(w) - Len(u) + i]
  BY <1>1, LastIs
<1>5. /\ a \in Seq(U) /\ Len(a) = Len(w)
      /\ \A i \in 1..Len(w) : a[i] = Weighed(w[i], w[i].output, 1)
  BY <1>1, <1>2, AsOutputIs DEF AsOutput
<1> HIDE DEF u
<1>6. /\ b \in Seq(U) /\ Len(b) = Len(u)
      /\ \A i \in 1..Len(u) : b[i] = Weighed(u[i], u[i].output, 1)
  BY <1>2, <1>4, AsOutputIs DEF AsOutput
<1> HIDE DEF a, U
<1>7. /\ v \in Seq(U) /\ Len(v) = IF n < Len(a) THEN n ELSE Len(a)
      /\ \A i \in 1..Len(v) : v[i] = a[Len(a) - Len(v) + i]
  BY <1>5, LastIs
<1> HIDE DEF v, b
<1>8. m \in Nat /\ m <= Len(w) /\ \A i \in 1..m : Len(w) - m + i \in 1..Len(w) BY <1>3
<1>9. Len(v) = m /\ Len(b) = m /\ Len(a) = Len(w) BY <1>4, <1>5, <1>6, <1>7
<1> HIDE DEF m
<1>10. \A i \in 1..m : /\ b[i] = a[Len(w) - m + i]
                       /\ v[i] = a[Len(w) - m + i]
  <2> SUFFICES ASSUME NEW i \in 1..m PROVE b[i] = a[Len(w) - m + i] /\ v[i] = a[Len(w) - m + i]
    OBVIOUS
  <2>1. v[i] = a[Len(w) - m + i] BY <1>7, <1>9
  <2>2. u[i] = w[Len(w) - m + i] BY <1>4
  <2>3. b[i] = Weighed(u[i], u[i].output, 1) BY <1>4, <1>6
  <2>4. a[Len(w) - m + i] = Weighed(w[Len(w) - m + i], w[Len(w) - m + i].output, 1) BY <1>5, <1>8
  <2> QED BY <2>1, <2>2, <2>3, <2>4
<1>11. v = b
  <2>1. \A i \in 1..Len(v) : v[i] = b[i] BY <1>9, <1>10
  <2> QED BY <1>6, <1>7, <1>9, <2>1, SeqEqual
<1>12. InTime(b)
  <2> SUFFICES ASSUME NEW i \in 1..m, NEW j \in 1..m, i <= j PROVE b[i].ts <= b[j].ts
    BY <1>9 DEF InTime
  <2> DEFINE k == Len(w) - m + i
             l == Len(w) - m + j
  <2>1. k \in 1..Len(w) /\ l \in 1..Len(w) /\ k <= l BY <1>3, <1>8
  <2>2. b[i] = a[k] /\ b[j] = a[l] BY <1>10
  <2> HIDE DEF k, l
  <2>3. a[k].ts <= a[l].ts BY <1>1, <1>9, <2>1 DEF InTime
  <2> QED BY <2>2, <2>3
<1> QED BY <1>4, <1>11, <1>12 DEF u, v, a, b, T, w

\* The turns a chart of tokens counts.
CountedTurns == LastOf(Between(S.store.turns, Told.from, Told.to), MaxRows)

LEMMA TokensTold ==
  ASSUME InScene, ToldRightly, Answered("series"), Family(Asked.query.metric) = {"session"},
         Asked.query.metric.name = "output_tokens"
  PROVE  LET p == Points(Buckets(AsOutput(CountedTurns), Width(Asked.query), "sum"))
         IN  /\ Told.bucket = {Width(Asked.query)}
             /\ Told.points = LastOf(p, Limit(Asked.query)) /\ Limit(Asked.query) \in Nat
             /\ ~Told.truncated => Told.points = p
<1> DEFINE q == Asked.query
           from == Since(q)
           to == Until(q)
           width == Width(q)
           limit == Limit(q)
           turns == LastOf(Between(S.store.turns, from, to), MaxRows)
           s == AsOutput(turns)
           b == Buckets(s, width, "sum")
           T == Range(S.store.turns)
           all == Between(SessionRows(S.store, "output_tokens"), from, to)
           c == Buckets(LastOf(all, MaxRows), Larger(width, 1), Aggregation("output_tokens"))
           rows == KeepRecent(<<>> \o Points(c), limit)
<1>1. /\ from \in Int /\ to \in Int /\ limit \in Nat /\ width \in Nat \ {0}
      /\ answer.body = Reply(q).body
  BY SeriesTold
<1>2. Chronological(S.store.turns) /\ \A r \in T : r.output \in Int
  BY TablesAre, StoresAssumption DEF InScene, S
<1>3. S.store.turns \in Seq(T) /\ \A r \in T : r.ts \in Int /\ r.output \in Int
  BY <1>2 DEF Chronological
<1>4. SessionSeries(S.store, "output_tokens", from, to, width, limit) = rows
  BY DEF SessionSeries, SessionBuckets, Points, Each
<1>5. PICK gap, unit : Reply(q).body = {Extended(Described(q, from, to, rows, gap, unit), [bucket |-> {width}])}
  <2>1. Reply(q) = SessionAnswer(q, from, to, width,
                                 SessionSeries(S.store, "output_tokens", from, to, width, limit))
    BY DEF Reply, FamilyAnswer
  <2>2. Reply(q) = SessionAnswer(q, from, to, width, rows) BY <1>4, <2>1
  <2> HIDE DEF rows, from, to, q, width
  <2> QED BY <2>2 DEF SessionAnswer, Ok
<1>6. /\ Told.points = rows.points /\ Told.truncated = rows.truncated
      /\ Told.from = from /\ Told.to = to /\ Told.bucket = {width}
  <2> DEFINE extra == [bucket |-> {width}]
  <2>1. "bucket" \in DOMAIN extra /\ extra.bucket = {width} OBVIOUS
  <2>2. Told = Extended(Described(q, from, to, rows, gap, unit), extra) BY <1>1, <1>5 DEF Told
  <2> HIDE DEF extra, from, to, q, width
  <2> QED BY <2>1, <2>2, KeptTold
<1> HIDE DEF from, to, width, limit
<1>7. turns \in Seq(T) /\ InTime(s)
      /\ LastOf(AsOutput(Between(S.store.turns, from, to)), MaxRows) = s
  <2> HIDE DEF from, to
  <2> QED BY <1>2, NewestInTime, QueriesAssumption
<1>8. LastOf(all, MaxRows) = s
  <2> HIDE DEF T
  <2>1. SessionRows(S.store, "output_tokens") = AsOutput(S.store.turns) BY <1>2, OutputRows DEF T
  <2>2. Between(AsOutput(S.store.turns), from, to) = AsOutput(Between(S.store.turns, from, to))
    BY <1>3, OutputBetween
  <2> QED BY <1>7, <2>1, <2>2
<1>9. s \in Seq(SpentRow(T)) /\ Streamed(SpentRow(T))
  <2> HIDE DEF T, turns
  <2> QED BY <1>3, <1>7, AsOutputIs
<1> HIDE DEF s, all
<1>11. Larger(width, 1) = width BY <1>1 DEF Larger
<1>12. Aggregation("output_tokens") = "sum" BY <1>2, OutputRows
<1>13. c = b BY <1>8, <1>11, <1>12
<1>14. /\ rows.points = LastOf(Points(b), limit)
       /\ ~rows.truncated => rows.points = Points(b)
  <2> DEFINE p == Points(b)
             U == [ts : Int, value : Int]
  <2>1. b \in Seq(Bucketed)
    <3>1. AllHeld(s, width, b, Len(s))
      <4> DEFINE V == SpentRow(T)
      <4>1. s \in Seq(V) /\ Streamed(V) BY <1>9
      <4> HIDE DEF V
      <4> QED BY <1>1, <1>7, <4>1, BucketsHold
    <3> QED BY <3>1 DEF AllHeld
  <2>2. p \in Seq(U)
    <3>1. Len(b) \in Nat /\ \A i \in 1..Len(b) : b[i] \in Bucketed BY <2>1, LenProperties
    <3> QED BY <3>1 DEF Points, Bucketed
  <2> HIDE DEF p, U
  <2>3. rows = KeepRecent(p, limit) BY <1>13, <2>2, ConcatEmptySeq DEF p
  <2>4. rows.points = LastOf(p, limit) /\ (rows.truncated <=> Len(p) > limit)
    BY <2>3 DEF KeepRecent
  <2>5. Len(p) \in Nat BY <2>2, LenProperties
  <2>6. ASSUME ~(Len(p) > limit) PROVE LastOf(p, limit) = p
    <3> DEFINE u == LastOf(p, limit)
    <3>1. /\ u \in Seq(U) /\ Len(u) = IF limit < Len(p) THEN limit ELSE Len(p)
          /\ \A i \in 1..Len(u) : u[i] = p[Len(p) - Len(u) + i]
      BY <1>1, <2>2, LastIs
    <3> HIDE DEF u
    <3>2. Len(u) = Len(p) BY <1>1, <2>5, <2>6, <3>1
    <3>3. \A i \in 1..Len(p) : Len(p) - Len(u) + i = i BY <2>5, <3>2
    <3>4. \A i \in 1..Len(p) : u[i] = p[i] BY <3>1, <3>2, <3>3
    <3>5. u = p BY <2>2, <3>1, <3>2, <3>4, SeqEqual
    <3> QED BY <3>5 DEF u
  <2> QED BY <2>4, <2>6 DEF p
<1> QED BY <1>1, <1>6, <1>14 DEF from, to, width, s, limit, CountedTurns

\* The tokens of the turns in one bucket.
LEMMA InOneBucket ==
  ASSUME NEW T, NEW turns \in Seq(T), \A r \in T : r.ts \in Int /\ r.output \in Int,
         NEW from, NEW width,
         NEW w, w = Where(turns, {t \in Range(turns) : from <= t.ts /\ t.ts < from + width})
  PROVE  Total(Outputs(w)) = Bucketful(AsOutput(turns), from, width)[Len(turns)]
<1> DEFINE A == {t \in Range(turns) : from <= t.ts /\ t.ts < from + width}
           worth == [x \in T |-> x.output]
           s == AsOutput(turns)
           v == [i \in 1..Len(turns) |-> worth[turns[i]]]
<1>0. Len(turns) \in Nat /\ DOMAIN turns = 1..Len(turns) /\ \A i \in 1..Len(turns) : turns[i] \in T
  BY LenProperties
<1>1. /\ Len(s) = Len(turns)
      /\ \A i \in 1..Len(turns) : s[i].ts = turns[i].ts /\ s[i].value = turns[i].output
  BY AsOutputIs
<1> HIDE DEF s
<1>2. v = Numbers(s)
  <2>1. \A i \in 1..Len(turns) : worth[turns[i]] = s[i].value BY <1>0, <1>1
  <2> HIDE DEF worth
  <2> QED BY <1>1, <2>1 DEF Numbers
<1>3. Places(turns, A) = During(s, from, width)
  <2>1. \A i \in 1..Len(turns) : turns[i] \in A <=> from <= turns[i].ts /\ turns[i].ts < from + width
    BY <1>0 DEF Range
  <2> HIDE DEF A
  <2> QED BY <1>0, <1>1, <2>1 DEF Places, During
<1>4. w = Where(turns, A) OBVIOUS
<1>5. w \in Seq(T)
  <2> HIDE DEF A
  <2> QED BY <1>4, WherePicks
<1>6. Outputs(w) = [k \in 1..Len(w) |-> worth[w[k]]]
  <2>1. \A k \in 1..Len(w) : w[k] \in T BY <1>5, LenProperties
  <2> QED BY <2>1 DEF Outputs
<1>7. \A x \in T : worth[x] \in Int OBVIOUS
<1> HIDE DEF worth, A
<1>8. Total([k \in 1..Len(Where(turns, A)) |-> worth[Where(turns, A)[k]]])
      = SumsTo(v, Places(turns, A))[Len(turns)]
  BY <1>7, WhereTotal
<1> HIDE DEF v
<1>9. Total(Outputs(w)) = SumsTo(v, Places(turns, A))[Len(turns)]
  <2> HIDE DEF worth
  <2> QED BY <1>4, <1>6, <1>8
<1> QED BY <1>2, <1>3, <1>9 DEF Bucketful, s

LEMMA TurnsCounted ==
  ASSUME InScene, ToldRightly
  PROVE  EveryTurnInOneBucket
<1> DEFINE turns == CountedTurns
           width == CHOOSE w \in Told.bucket : TRUE
           inside(p) == Where(turns, {t \in Range(turns) : p.ts <= t.ts /\ t.ts < p.ts + width})
           s == AsOutput(turns)
           b == Buckets(s, Width(Asked.query), "sum")
           T == Range(S.store.turns)
           n == Len(turns)
<1> SUFFICES ASSUME Answered("series"), Family(Asked.query.metric) = {"session"},
                    Asked.query.metric.name = "output_tokens"
             PROVE  /\ \A p \in Range(Told.points) : p.value = Total(<<>> \o Outputs(inside(p)))
                    /\ ~Told.truncated =>
                          Total(<<>> \o Numbers(Told.points)) = Total(<<>> \o Outputs(turns))
  BY DEF EveryTurnInOneBucket, Each, Outputs, Numbers, CountedTurns
<1> DEFINE limit == Limit(Asked.query)
<1>1. /\ Told.bucket = {Width(Asked.query)}
      /\ Told.points = LastOf(Points(b), limit) /\ limit \in Nat
      /\ ~Told.truncated => Told.points = Points(b)
  BY TokensTold
<1>2. Chronological(S.store.turns) /\ \A r \in T : r.ts \in Int /\ r.output \in Int
  BY TablesAre, StoresAssumption DEF InScene, S, Chronological
<1>3. turns \in Seq(T) /\ InTime(s)
  <2>1. \A r \in T : r.output \in Int BY <1>2
  <2> QED BY <1>2, <2>1, NewestInTime, QueriesAssumption DEF CountedTurns
<1>4. width = Width(Asked.query) /\ width \in Nat \ {0} BY <1>1, SeriesTold
<1> HIDE DEF width, T, limit
<1> DEFINE U == SpentRow(T)
<1>5. /\ Streamed(U) /\ s \in Seq(U) /\ Len(s) = n
      /\ Outputs(turns) \in Seq(Int) /\ Len(Outputs(turns)) = n
      /\ \A i \in 1..n : s[i].value = turns[i].output
  <2> HIDE DEF turns
  <2> QED BY <1>2, <1>3, AsOutputIs
<1> HIDE DEF s, U, turns
<1>6. AllHeld(s, width, b, n) BY <1>3, <1>4, <1>5, BucketsHold
<1> HIDE DEF b
<1>7. /\ b \in Seq(Bucketed) /\ Total(Numbers(b)) = AllOf(s)[n]
      /\ \A k \in 1..Len(b) : b[k].value = Bucketful(s, b[k].ts, width)[n]
  BY <1>6 DEF AllHeld
<1>8. Len(b) \in Nat BY <1>7, LenProperties
<1>9. ASSUME NEW p \in Range(Told.points) PROVE p.value = Total(<<>> \o Outputs(inside(p)))
  <2>1. PICK k \in 1..Len(b) : p = [ts |-> b[k].ts, value |-> b[k].value]
    <3> DEFINE c == Points(b)
               u == LastOf(c, limit)
               V == Range(c)
    <3>1. Len(c) = Len(b) /\ \A k \in 1..Len(b) : c[k] = [ts |-> b[k].ts, value |-> b[k].value]
      BY <1>8 DEF Points
    <3>2. c \in Seq(V) BY <1>8 DEF Points, Range
    <3>3. Told.points = u BY <1>1
    <3> HIDE DEF c, V
    <3>4. /\ u \in Seq(V) /\ Len(u) = IF limit < Len(c) THEN limit ELSE Len(c)
          /\ \A i \in 1..Len(u) : u[i] = c[Len(c) - Len(u) + i]
      BY <1>1, <3>2, LastIs
    <3> HIDE DEF u
    <3>5. PICK i \in 1..Len(u) : p = u[i] BY <1>9, <3>3, <3>4, LenProperties DEF Range
    <3>6. Len(u) \in Nat /\ Len(u) <= Len(b) BY <1>1, <1>8, <3>1, <3>4
    <3>7. Len(b) - Len(u) + i \in 1..Len(b) BY <1>8, <3>6
    <3> QED BY <3>1, <3>4, <3>5, <3>7
  <2>2. p.value = Bucketful(s, p.ts, width)[n] BY <1>7, <2>1
  <2> DEFINE w == inside(p)
             from == p.ts
             A == {t \in Range(turns) : from <= t.ts /\ t.ts < from + width}
  <2>3. w = Where(turns, A) OBVIOUS
  <2> HIDE DEF w
  <2>4. Total(Outputs(w)) = Bucketful(AsOutput(turns), from, width)[Len(turns)]
    <3> HIDE DEF from
    <3> QED BY <1>2, <1>3, <2>3, InOneBucket
  <2>5. w \in Seq(T)
    <3> HIDE DEF A
    <3> QED BY <1>3, <2>3, WherePicks
  <2>6. Outputs(w) \in Seq(Int) BY <1>2, <2>5, AsOutputIs
  <2>7. <<>> \o Outputs(w) = Outputs(w)
    <3> DEFINE o == Outputs(w)
    <3>1. o \in Seq(Int) BY <2>6
    <3> HIDE DEF o
    <3> QED BY <3>1, ConcatEmptySeq DEF o
  <2> QED BY <2>2, <2>4, <2>7 DEF s, w
<1>10. ~Told.truncated => Numbers(Told.points) = Numbers(b)
  <2>1. /\ Len(Points(b)) = Len(b)
        /\ \A k \in 1..Len(b) : Points(b)[k].value = b[k].value
    BY <1>8 DEF Points
  <2> QED BY <1>1, <2>1 DEF Numbers
<1>11. Numbers(s) = Outputs(turns) BY <1>5 DEF Numbers, Outputs
<1>12. Total(Outputs(turns)) = AllOf(s)[n]
  <2> DEFINE v == Outputs(turns)
  <2>1. v \in Seq(Int) /\ Len(v) = n BY <1>5
  <2>2. AllOf(s) = SumsTo(v, 1..n) BY <1>5, <1>11 DEF AllOf
  <2> HIDE DEF v, n
  <2>3. Total(v) = SumsTo(v, 1..Len(v))[Len(v)] BY <2>1, TotalIsSum
  <2> QED BY <2>1, <2>2, <2>3 DEF v
<1>13. /\ <<>> \o Numbers(b) = Numbers(b) /\ <<>> \o Outputs(turns) = Outputs(turns)
  <2> DEFINE x == Numbers(b)
             y == Outputs(turns)
  <2>1. x \in Seq(Int) /\ y \in Seq(Int) BY <1>5, <1>7, BucketedStream, NumbersTyped
  <2> HIDE DEF x, y
  <2>2. <<>> \o x = x /\ <<>> \o y = y BY <2>1, ConcatEmptySeq
  <2> QED BY <2>2 DEF x, y
<1> QED BY <1>7, <1>9, <1>10, <1>12, <1>13

\* A chart is made of the rows of its range, each once and in order; what it leaves out is
\* older than what it shows, and it says so; and a chart of tokens counts each of the newest
\* MaxRows turns of the range once, in the bucket it falls in, whether or not it had to cut
\* off older buckets (queries/mod.rs, sessions/series.rs).
THEOREM ChartIsWhole == Spec => []ChartsAreWhole
<1>1. InScene /\ ToldRightly => ChartsAreWhole
  BY RecentEndCharted, TurnsCounted DEF ChartsAreWhole
<1> QED BY <1>1, ToldIsRight, StaysInScene, PTL

=============================================================================
