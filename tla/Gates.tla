------------------------------- MODULE Gates -------------------------------
(***************************************************************************)
(* What stands between a request and its handler (watch/serve: origin.rs,  *)
(* router.rs, and dispatch, read_body and respond of mod.rs).              *)
(*                                                                         *)
(* A request is [method, path, query, host, site, origin, type, body].     *)
(* What a header may lack is a set of at most one element: host holds an   *)
(* authority [name, bracketed, port], origin a [scheme, authority].  A     *)
(* body is [declared, sent, broken, content], its content a set of at most *)
(* one document.  MaxBody is MAX_BODY_BYTES.                               *)
(***************************************************************************)
EXTENDS Integers, FiniteSets

CONSTANT MaxBody

ASSUME GatesAssumption == MaxBody \in Nat

Method(name) == IF name \in {"GET", "HEAD", "POST"} THEN name ELSE "other"
IsRead(r) == Method(r.method) \in {"GET", "HEAD"}
IsWrite(r) == Method(r.method) = "POST"

-----------------------------------------------------------------------------
(* Whose request it is                                                     *)

\* split: a port that is no number is port 0, and after a bracket no port at all.
Unparseable == -1
PortOf(authority) ==
    CASE authority.port # {Unparseable} -> authority.port
      [] authority.bracketed -> {}
      [] OTHER -> {0}

IsOwnHost(host, port) ==
    \E a \in host : /\ a.name \in {"127.0.0.1", "::1", "localhost"}
                    /\ PortOf(a) = {port} \/ (PortOf(a) = {} /\ port = 80)

IsSameOriginWrite(r, port) ==
    /\ r.site \subseteq {"same-origin"}
    /\ \A o \in r.origin : o.scheme = "http" /\ IsOwnHost({o.authority}, port)
    /\ r.type = {"application/json"}

-----------------------------------------------------------------------------
(* The body, bounded by what is declared and again by what is read         *)

TooLong(body) == (\E n \in body.declared : n > MaxBody)
                 \/ (body.declared # {0} /\ body.sent > MaxBody)
BodyRefusal(body) == CASE TooLong(body) -> {413}
                       [] body.declared # {0} /\ body.broken -> {400}
                       [] OTHER -> {}

\* dispatch: the code a request is refused with before the database is opened, if it is.
Refusal(r, port) ==
    CASE ~IsOwnHost(r.host, port) -> {421}
      [] IsWrite(r) /\ ~IsSameOriginWrite(r, port) -> {403}
      [] OTHER -> BodyRefusal(r.body)

-----------------------------------------------------------------------------
(* Routes, by path and method                                              *)

Documents == {"/", "/bench", "/compare"}
Scripts == {"/app.js", "/bench.js"}
ReadPaths == {"live", "today", "series", "status", "verdicts", "annotations", "options", "run"}
WritePaths == {"bench", "cancel", "compare"}

\* Mutant: a path that acts answers whatever method names it.
RouteByPath(r) == CASE r.path \in Documents \cup Scripts -> IF IsRead(r) THEN "asset" ELSE "405"
                    [] r.path \in WritePaths -> r.path
                    [] r.path \in ReadPaths -> IF IsRead(r) THEN r.path ELSE "405"
                    [] OTHER -> "404"
Route(r) == CASE r.path \in Documents \cup Scripts -> IF IsRead(r) THEN "asset" ELSE "405"
              [] r.path \in WritePaths -> IF IsWrite(r) THEN r.path ELSE "405"
              [] r.path \in ReadPaths -> IF IsRead(r) THEN r.path ELSE "405"
              [] OTHER -> "404"

\* What a 405 says the path would have answered.
Allowed(r) == IF r.path \in WritePaths THEN {"POST"} ELSE {"GET", "HEAD"}

-----------------------------------------------------------------------------
(* Assets: a document is sent whole each time, a script again when changed *)

\* matches_etag, of what a client says it holds: a list of tags, or of anything at all ("*").
Matches(held, etag) == held.any \/ etag \in held.tags

\* respond: no-store without a tag; with one, 304 if the browser holds this very content.
AssetCode(path, held, etag) == IF path \in Scripts /\ Matches(held, etag) THEN 304 ELSE 200

=============================================================================
