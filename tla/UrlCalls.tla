------------------------------ MODULE UrlCalls ------------------------------
(***************************************************************************)
(* Requests a frontend spells out, and the routes they reach               *)
(* (apps/worker/src/slices/url-calls.ts, generated-clients.ts).            *)
(*                                                                         *)
(* A URL is a sequence of segments [kind, value, optional] of kind static, *)
(* param (one interpolated value or route parameter), dynamic (a value     *)
(* beside other text) or rest (a star, of routes).  A call is              *)
(* [method, segments]; its site, [file, n], is kept beside it.             *)
(*                                                                         *)
(* A module's text is a sequence of items, n being the place of one: let   *)
(* [k, name, until, arg] declares a variable visible up to until, call     *)
(* [k, on, name, arg, method] calls name, of the object on or Null, with   *)
(* the options' method or Null, and use [k, arg] is any other expression.  *)
(* An expression is [e, name, url, of]: a base name (name), an identifier, *)
(* a text (url, absolute when it starts with a slash), a join of what      *)
(* precedes it (of) with url, or one of two names or bases (of, url).      *)
(***************************************************************************)
EXTENDS Integers, Sequences, FiniteSets, SequencesExt, FiniteSetsExt

CONSTANTS
  Null,       \* null, undefined, a part that is not there
  MaxNesting  \* bound: expressions inside one another

Verbs == {"get", "post", "put", "patch", "delete", "head", "options"}

\* buildUrlCall, or Null for a URL that names no route.
BuildUrlCall(method, segments, allowRoot) ==
  IF \/ Len(segments) = 1 /\ segments[1].kind = "param"
     \/ segments = <<>> /\ (~allowRoot \/ method = Null)
  THEN Null ELSE [method |-> method, segments |-> segments]

-----------------------------------------------------------------------------
(* Matching                                                                *)

\* matchScore: the static segments matched, or -1.  ScoreRow has the scores of
\* the rest of a call, from each of its segments on, against the rest of a
\* route from r on; after has those from r + 1 on.
ScoreRow(call, route, r, after) ==
  [c \in 1 .. Len(call) + 1 |->
     IF r > Len(route) THEN IF c > Len(call) THEN 0 ELSE -1
     ELSE LET rest == IF c > Len(call) THEN -1 ELSE after[c + 1]
              same == c <= Len(call) /\ call[c].kind = "static" /\ call[c].value = route[r].value
          IN CASE route[r].kind = "rest" -> 0
               [] route[r].kind = "static" -> IF same /\ rest >= 0 THEN rest + 1 ELSE -1
               [] route[r].kind = "param" /\ route[r].optional -> IF after[c] > rest THEN after[c] ELSE rest
               [] OTHER -> rest]
MatchScore(call, route) ==
  LET score[r \in 1 .. Len(route) + 1] == ScoreRow(call, route, r, score[r + 1])
  IN score[1][1]

\* The routes of a verb that a call fits, with their scores.
Scores(call, routes) ==
  LET score == [r \in {x \in routes : call.method = Null \/ x.httpMethod \in {call.method, "all"}} |->
                  MatchScore(call.segments, r.path)]
  IN [r \in {x \in DOMAIN score : score[x] >= 0} |-> score[r]]

\* matchCall: the routes a call can reach, the most specific only; GET routes
\* are preferred when the verb is unknown.
MatchCall(call, routes) ==
  LET Best(score) == {r \in DOMAIN score : \A x \in DOMAIN score : score[x] <= score[r]}
      Preferred(best) == LET gets == {r \in best : r.httpMethod = "get"}
                         IN IF call.method = Null /\ Cardinality(best) > 1 /\ gets # {} THEN gets ELSE best
  IN Preferred(Best(Scores(call, routes)))

-----------------------------------------------------------------------------
(* Request helpers                                                         *)

\* wrapperFunctions: the functions of a module, [name, params, prefixed,
\* passes], that put a base in front of a parameter (<<base, parameter>>) or
\* hand their first parameter to one that does (<<function, argument>>).
WrapperFunctions(functions, names) ==
  LET direct == {f.name : f \in {g \in functions : g.prefixed \cap (names \X Range(g.params)) # {}}}
      grow(known) == known \cup {f.name : f \in {g \in functions : \E w \in known : <<w, Head(g.params)>> \in g.passes}}
      closed[n \in 0 .. Cardinality(functions)] == IF n = 0 THEN direct ELSE grow(closed[n - 1])
  IN closed[Cardinality(functions)]

-----------------------------------------------------------------------------
(* Scanning                                                                *)

\* What is declared at n: the kind and URL of each variable that holds the
\* base or a URL.  A variable is the innermost one of its name.
Lookup(declared, name, n) ==
  LET visible == {d \in declared : d.name = name /\ d.at < n /\ n <= d.until}
  IN IF visible = {} THEN Null ELSE CHOOSE d \in visible : \A o \in visible : o.at <= d.at

\* An expression and those it is made of.
Parts(x) ==
  LET inside(y) == CASE y.e = "join" -> {y.of} [] y.e = "either" -> {y.of, y.url} [] OTHER -> {}
      parts[n \in 0 .. MaxNesting] == IF n = 0 THEN {x} ELSE parts[n - 1] \cup UNION {inside(y) : y \in parts[n - 1]}
  IN parts[MaxNesting]

MentionsBase(names, declared, n, x) ==
  LET alias(y) == Lookup(declared, y.name, n) # Null /\ Lookup(declared, y.name, n).kind = "alias"
      says[y \in Parts(x)] ==
        \/ y.e \in {"base", "name"} /\ y.name \in names
        \/ y.e = "name" /\ alias(y)
        \/ y.e = "either" /\ (says[y.of] \/ says[y.url])
        \/ y.e = "join" /\ y.url = <<>> /\ says[y.of]
  IN says[x]

\* urlTokens, or Null for an expression that is not based on the base.
UrlTokens(names, declared, n, x, allowRelative) ==
  LET tokens[y \in Parts(x)] ==
        [relative \in BOOLEAN |->
           LET d == IF y.e = "name" THEN Lookup(declared, y.name, n) ELSE Null
               before == IF MentionsBase(names, declared, n, y.of) THEN <<>> ELSE tokens[y.of][FALSE]
           IN CASE y.e = "name" /\ d # Null -> IF d.kind = "url" THEN d.url ELSE Null
                [] y.e = "join" -> IF before = Null THEN Null ELSE before \o y.url
                [] y.e = "text" -> IF relative /\ y.name = "/" THEN y.url ELSE Null
                [] OTHER -> Null]
  IN tokens[x][allowRelative]

\* Pass 1: what the declaration at n adds, and those of a module, in order.
Declare(items, names, declared, n) ==
  LET d   == items[n]
      url == UrlTokens(names, declared, n, d.arg, FALSE)
      new(kind, tokens) == {[name |-> d.name, at |-> n, until |-> d.until, kind |-> kind, url |-> tokens]}
  IN IF d.k # "let" THEN {}
     ELSE IF MentionsBase(names, declared, n, d.arg) THEN new("alias", <<>>)
     ELSE IF url # Null THEN new("url", url) ELSE {}
Declared(items, names) ==
  LET upTo[n \in 0 .. Len(items)] ==
        IF n = 0 THEN {} ELSE upTo[n - 1] \cup Declare(items, names, upTo[n - 1], n)
  IN upTo[Len(items)]

\* Mutant: every declaration of the name is the request.
Consumed_ByName(items, declared, made) ==
  {d \in declared : d.kind = "url" /\ \E n \in made : items[n].arg.e = "name" /\ items[n].arg.name = d.name}

\* consume: the declarations whose URL a request uses are that request.
Consumed(items, declared, made) ==
  LET used == {Lookup(declared, items[n].arg.name, n) : n \in {m \in made : items[m].arg.e = "name"}} \ {Null}
  IN {d \in used : d.kind = "url"}

\* What a call asks for, url[TRUE] being the URL of its argument if it may be
\* relative; segments is Null for a call that is no request.  context is
\* [importsClient, receivers, functions]; creates says that the module creates
\* a client of this backend.
Request(c, url, context, creates) ==
  LET helper == IF c.on = Null THEN c.name \in context.functions
                ELSE c.on \in DOMAIN context.receivers /\ c.name \in context.receivers[c.on]
      verb   == c.on # Null /\ c.name \in Verbs
      Asks(method, segments) == [method |-> method, segments |-> segments]
  IN IF helper THEN Asks(IF c.name \in Verbs THEN c.name ELSE c.method,
                         IF url[FALSE] = Null /\ c.arg.e = "text" THEN c.arg.url ELSE url[FALSE])
     ELSE IF c.on = Null /\ c.name = "fetch" THEN Asks(IF c.method = Null THEN "get" ELSE c.method, url[FALSE])
     ELSE IF verb THEN Asks(c.name, url[c.on # "axios" /\ (context.importsClient \/ creates)])
     ELSE Asks(c.method, IF c.method = Null THEN Null ELSE url[FALSE])

\* The requests among items, after what each call asks for: those of the calls,
\* then the URLs that no request uses.
Gathered(items, declared, urls, asked) ==
  LET made     == {n \in DOMAIN asked : asked[n].segments # Null}
      consumed == made \cup {d.at : d \in Consumed(items, declared, made)}
      left     == {n \in DOMAIN items \ consumed : items[n].arg.e = "join" /\ urls[n][FALSE] # Null}
      all      == [n \in made \cup left |->
                     IF n \in made THEN BuildUrlCall(asked[n].method, asked[n].segments, TRUE)
                     ELSE BuildUrlCall(Null, urls[n][FALSE], FALSE)]
  IN [n \in {m \in DOMAIN all : all[m] # Null} |-> all[n]]

\* scan: the calls of a module to the backend whose base goes by names, by
\* the item that makes them.
Scan(items, names, context, creates) ==
  LET called == {n \in DOMAIN items : items[n].k = "call"}
      Urls(declared) ==
        [n \in DOMAIN items |-> [relative \in BOOLEAN |->
           IF MentionsBase(names, declared, n, items[n].arg) THEN <<>>
           ELSE UrlTokens(names, declared, n, items[n].arg, relative)]]
      Asked(urls) == [n \in called |-> Request(items[n], urls[n], context, creates)]
      Gather(declared, urls) == Gathered(items, declared, urls, Asked(urls))
      Read(declared) == Gather(declared, Urls(declared))
  IN Read(Declared(items, names))

-----------------------------------------------------------------------------
(* Generated clients: class -> method name -> [method, segments].          *)

\* findGeneratedClientCalls: the class a call's receiver is an instance of,
\* or Null.  receiver is [new, name]; api says that its name ends in "api".
ClientOf(clients, receiver, name) ==
  LET having == {c \in DOMAIN clients : name \in DOMAIN clients[c]}
  IN CASE receiver.new \/ receiver.instanceOf # Null -> IF receiver.instanceOf \in having THEN receiver.instanceOf ELSE Null
       [] ~receiver.new /\ receiver.instanceOf = Null ->
            IF receiver.api /\ Cardinality(having) = 1 THEN CHOOSE c \in having : TRUE ELSE Null
GeneratedClientCall(clients, receiver, name) ==
  LET class == ClientOf(clients, receiver, name)
  IN IF class = Null THEN Null ELSE BuildUrlCall(clients[class][name].method, clients[class][name].segments, TRUE)
=============================================================================
