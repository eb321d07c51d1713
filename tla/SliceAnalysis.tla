---------------------------- MODULE SliceAnalysis ----------------------------
(***************************************************************************)
(* analyzeSlices of apps/worker/src/slices/analyze.ts: for each frontend,  *)
(* the modules it loads, the endpoints their requests reach, and the files *)
(* of each backend those endpoints depend on.                              *)
(*                                                                         *)
(* A checkout (repo) has files and workspaces [dir, name, exports, wild,   *)
(* fields, depends, scripts] as in ModuleGraph, and by file: statements,   *)
(* loads (it requires its siblings), items, functions, bases (base names   *)
(* its text has), creates (a client), services it injects, the service it  *)
(* defines, classes, modules, express, clients generated into it, the      *)
(* classes it constructs and its clientCalls; models, adapters and store   *)
(* calls are those of the app; wanted are the frontends to slice, or Null. *)
(* A backend of the recipe is [dir, framework, clientPackage, root, entry, *)
(* baseNames].  A request's site is <<"line", file, n>>, of a generated    *)
(* client's <<"call", file, n>>, or <<"store", site>> of one that Ember    *)
(* Data makes; an endpoint's names are sites, <<"export", name>> and       *)
(* <<"operation", class, name>>.                                           *)
(***************************************************************************)
EXTENDS ModuleGraph, TLC

CONSTANTS
  MaxPrefix,   \* bound: segments of the prefix of an Express mount
  MaxNesting,  \* bound: expressions inside one another
  Checkouts,   \* checkouts that may be analysed
  Recipe,      \* the configured backends, in order
  ParsedAdapter(_, _),   \* ParseAdapter and FindEmberDataRequests of EmberData
  StoreRequests(_, _, _)

ASSUME RecipeIsAList == Recipe \in Seq(Range(Recipe))
ASSUME NestingAssumption == MaxNesting \in Nat \ {0}

INSTANCE UrlCalls
INSTANCE Endpoints

\* Items are lists, and the segments of their URLs; no list and no call is Null.
ASSUME ItemsAreLists ==
  /\ <<>> # Null
  /\ \A c \in Checkouts : \A items \in Range(c.items) :
      /\ items \in Seq(Range(items))
      /\ \A i \in Range(items) : i.arg.e \in {"text", "join"} =>
           /\ i.arg.url \in Seq(Range(i.arg.url)) /\ i.arg.url # Null
           /\ \A o \in {x \in Range(items) : x.k = "call"} : Null \notin [method : Verbs \cup {o.method}, segments : {i.arg.url}]

VARIABLES
  repo,        \* the checkout
  phase,       \* what the analysis does
  prepared,    \* by backend: [routes, ids]
  todo,        \* frontends left
  target,      \* the workspace of the frontend being sliced
  queue,       \* the set of files left to trace, of the frontend or of a backend
  frontend,    \* files of the frontend
  names,       \* exports it takes of a backend's client: backend -> names
  matched,     \* endpoints it reaches: <<backend, endpoint>> -> [names, ambiguous]
  unmatched,   \* [names, calls] that reach none
  left,        \* backends left: to match, to match again, then to trace
  traced,      \* files of the backends traced
  results,     \* the slices found, by frontend
  skipped      \* frontends that could not be traced

analysisVars == <<repo, phase, prepared, todo, target, queue, frontend, names, matched, unmatched, left, traced, results, skipped>>
slice == <<target, frontend, names, matched, unmatched, left, traced>>

By(f, file, default) == IF file \in DOMAIN f THEN f[file] ELSE default
Find(file, spec) == Resolve(repo.files, repo.workspaces, repo.aliases, file, spec)
Imports(file) == ParseModule(By(repo.statements, file, <<>>))
Backends == DOMAIN Recipe
Packages == {b \in Backends : Recipe[b].clientPackage # Null}

\* inside, and isApplicationSource
Belongs(b, file) == IsPrefix(Recipe[b].dir, file.dir) /\ IsApplicationSource(file)

-----------------------------------------------------------------------------
(* Backends and frontends                                                  *)

Workspace(dir) == LET found == {w \in repo.workspaces : w.dir = dir} IN IF found = {} THEN Null ELSE CHOOSE w \in found : TRUE

\* The routes of a backend, and the ids its endpoints are published under.
NestFiles(b) == {f \in DOMAIN repo.classes : Belongs(b, f)}
NestRoutes(b) == UNION {Range(ParseControllerEndpoints(f, repo.classes[f])) : f \in NestFiles(b)}
NestIds(b) ==
  LET list == FoldSet(LAMBDA f, found : found \o ParseControllerEndpoints(f, repo.classes[f]), <<>>, NestFiles(b))
  IN OperationIds(repo.modules, Recipe[b].root, list)
ExpressRoutes(b) ==
  LET inside == {f \in DOMAIN repo.express : Belongs(b, f)}
      parsed == [f \in inside |-> ParseExpressFile(repo.express[f].items, repo.express[f].dynamicSiblings)]
      specs(f) == {m.target.spec : m \in {x \in parsed[f].mounts : x.target.kind = "module"}}
  IN FindExpressEndpoints(parsed, Recipe[b].entry, [f \in inside |-> [x \in specs(f) |-> Find(f, x)]],
                          [f \in inside |-> SiblingModules(repo.files, f)])

\* prepareBackend, or Null when it fails.
Prepared(b) ==
  LET backend == Recipe[b]
      express == backend.framework = "express"
      there == IF express THEN backend.entry \in repo.files
               ELSE backend.clientPackage = Null \/ backend.root.file \in repo.files
      Checked(routes) ==
        IF Workspace(backend.dir) = Null \/ ~there \/ routes = {} THEN Null
        ELSE [routes |-> routes,
              ids |-> IF express \/ backend.clientPackage = Null THEN <<>> ELSE Restrict(NestIds(b), routes)]
  IN Checked(IF express THEN ExpressRoutes(b) ELSE NestRoutes(b))

\* discoverFrontends: the apps that depend on a client package.
DiscoverFrontends ==
  {w.dir : w \in {x \in repo.workspaces :
     /\ x.dir # <<>> /\ x.dir[1] = "apps" /\ \A b \in Backends : Recipe[b].dir # x.dir
     /\ \E b \in Packages : Recipe[b].clientPackage # x.name /\ Recipe[b].clientPackage \in x.depends}}

IsEmberApp(w) == <<"ember-source">> \in w.depends

\* findEntryFiles: the scripts of index.html, or else the first common name.
FindEntryFiles(w) ==
  LET at(dir, stem) == [dir |-> w.dir \o dir, stem |-> stem, mark |-> Null, ext |-> Null]
      common == <<at(<<"src">>, "main"), at(<<"src">>, "index"), at(<<"app">>, "app"), at(<<"src">>, "app"), at(<<>>, "index")>>
      scripts == {ResolveSourceFile(repo.files, Inside(w, w.scripts[n])) : n \in DOMAIN w.scripts} \ {Null}
      Or(found) == IF found # {} THEN found ELSE {FirstFile(repo.files, common)} \ {Null}
  IN Or(scripts)

\* conventionLoadedFiles
ConventionLoaded(w) == IF IsEmberApp(w) THEN ListCodeFiles(repo.files, Append(w.dir, "app")) ELSE {}

-----------------------------------------------------------------------------
(* Requests                                                                *)

Scanned(b) == Recipe[b].baseNames # {}
Mentions(b, file) == By(repo.bases, file, {}) \cap Recipe[b].baseNames # {}

\* Request helpers of the frontend for one backend: by module and by service.
Helpers(b) == [f \in frontend |-> IF Mentions(b, f) THEN WrapperFunctions(By(repo.functions, f, {}), Recipe[b].baseNames) ELSE {}]
ServiceHelpers(b, service) == UNION {Helpers(b)[f] : f \in {g \in frontend : By(repo.service, g, Null) = service}}

\* Its helpers are those of the modules it imports and of the services it has.
HelperFunctions(b, imports, found) ==
  UNION {Helpers(b)[found[s]] \cap imports[s] : s \in {x \in DOMAIN found : found[x] \in frontend}}
HelperReceivers(b, file) ==
  LET injected == By(repo.services, file, <<>>)
  IN [p \in DOMAIN injected |-> ServiceHelpers(b, injected[p])]

\* Mutant: a shared client counts whichever backend its user points it to.
Directs_AnyClient(b, file, m) == Mentions(b, m) \/ Mentions(b, file)

\* Whether a shared client m sends what a file asks for to a backend: m
\* defaults to it and the file does not point it elsewhere, or the file names
\* this backend only.
Directs(b, file, m) ==
  LET own   == Mentions(b, file)
      other == \E o \in Backends \ {b} : Mentions(o, file)
  IN (Mentions(b, m) /\ (own \/ ~other)) \/ (own /\ ~other)

\* The ClientContext of a file for one backend; found is the file of each of
\* its imports.
Context(b, file, imports, found) ==
  [importsClient |-> \E m \in Range(found) \cap frontend \cap repo.creates : Directs(b, file, m),
   functions |-> HelperFunctions(b, imports, found), receivers |-> HelperReceivers(b, file)]

\* The requests of the frontend's files to a backend, [call, site, inferred, name].
ScanRequests(b) ==
  LET Calls(f, context) == Scan(By(repo.items, f, <<>>), Recipe[b].baseNames, context, f \in repo.creates /\ Mentions(b, f))
      CallsOf(f, imports) == Calls(f, Context(b, f, imports, [s \in DOMAIN imports |-> Find(f, s)]))
      At(f, calls) == {[call |-> calls[n], site |-> <<"line", f, n>>, inferred |-> FALSE, name |-> <<"line", f, n>>] : n \in DOMAIN calls}
  IN UNION {At(f, CallsOf(f, Imports(f))) : f \in frontend}
EmberRequests(b, w) ==
  LET adapters == [m \in DOMAIN repo.adapters |-> ParsedAdapter(m, repo.adapters[m])]
      found == IF IsEmberApp(w) /\ DOMAIN repo.related # {} THEN StoreRequests(adapters, repo.related, repo.storeCalls) ELSE {}
      call(r) == BuildUrlCall(r.request.method, r.request.url, TRUE)
  IN {[call |-> call(r), site |-> <<"store", r.site>>, inferred |-> r.inferred, name |-> <<"store", r.site>>] :
        r \in {x \in found : x.request.host \in Recipe[b].baseNames /\ call(x) # Null}}

\* add, for a set of [endpoint, name, ambiguous].
Add(m, b, found) ==
  LET of(e)  == {x \in found : <<b, x.endpoint>> = e}
      old(e) == IF e \in DOMAIN m THEN m[e] ELSE [names |-> {}, ambiguous |-> FALSE]
  IN [e \in DOMAIN m \cup {<<b, x.endpoint>> : x \in found} |->
        [names |-> old(e).names \cup {x.name : x \in of(e)}, ambiguous |-> old(e).ambiguous \/ \E x \in of(e) : x.ambiguous]]

\* matchRequest for a set of requests: the routes each reaches; what that adds,
\* and those that reach nothing.  Inferred requests that reach nothing are
\* dropped.
Answers(b, requests) == [r \in requests |-> MatchCall(r.call, prepared[b].routes)]
Reach(answers) ==
  UNION {{[endpoint |-> e, name |-> r.name, ambiguous |-> Cardinality(answers[r]) > 1] : e \in answers[r]} : r \in DOMAIN answers}
Missed(b, answers) ==
  {[backend |-> b, site |-> r.site, call |-> r.call] : r \in {x \in DOMAIN answers : ~x.inferred /\ answers[x] = {}}}

\* Generated clients: the backends whose base is named where a class is
\* constructed own its calls; when a later one serves a call the first does
\* not get it.
Clients == [f \in frontend \cap DOMAIN repo.clients |-> repo.clients[f]]
ClientClasses == FoldSet(LAMBDA f, all : Clients[f] @@ all, <<>>, DOMAIN Clients)
Owners(class) ==
  LET file == CHOOSE f \in DOMAIN Clients : class \in DOMAIN Clients[f]
      constructing == {f \in frontend \ DOMAIN Clients : By(repo.constructs, f, {}) \cap DOMAIN Clients[file] # {}}
  IN {b \in Backends : Scanned(b) /\ \E f \in constructing : Mentions(b, f)}
GeneratedRequests(b) ==
  LET Serves(call, owners) ==
        LET first == Min(owners)
            later == {o \in owners \ {first} : MatchCall(call, prepared[o].routes) # {}}
        IN IF later # {} THEN b \in later ELSE b = first
      Made(f, n, c, class) ==
        [call |-> GeneratedClientCall(ClientClasses, c.receiver, c.name), site |-> <<"call", f, n>>, inferred |-> FALSE,
         name |-> <<"operation", class, c.name>>]
      CallsOf(f, calls) == {Made(f, n, calls[n], ClientOf(ClientClasses, calls[n].receiver, calls[n].name)) : n \in DOMAIN calls}
      Owned(r, owners) == owners # {} /\ Serves(r.call, owners)
  IN {r \in UNION {CallsOf(f, By(repo.clientCalls, f, <<>>)) : f \in frontend \ DOMAIN Clients} :
        r.call # Null /\ Owned(r, Owners(r.name[2]))}

-----------------------------------------------------------------------------
(* The analysis                                                            *)

Nothing == [names |-> {}, calls |-> {}]
AnalysisInit ==
  /\ repo \in Checkouts /\ phase = "prepare"
  /\ prepared = <<>> /\ todo = <<>> /\ target = Null /\ queue = {}
  /\ frontend = {} /\ names = <<>> /\ matched = <<>> /\ unmatched = Nothing /\ left = {} /\ traced = <<>>
  /\ results = <<>> /\ skipped = {}

\* A problem with a backend fails the whole analysis.
Prepare ==
  /\ phase = "prepare"
  /\ prepared' = [b \in Backends |-> Prepared(b)]
  /\ phase' = IF \E b \in Backends : prepared'[b] = Null THEN "failed" ELSE "target"
  /\ todo' = IF repo.wanted = Null THEN SetToSeq(DiscoverFrontends) ELSE repo.wanted
  /\ UNCHANGED <<repo, queue, slice, results, skipped>>

\* The next frontend, or the end.
Start ==
  /\ phase = "target" /\ todo # <<>> /\ todo' = Tail(todo)
  /\ LET w == Workspace(Head(todo))
         entries == IF w = Null THEN {} ELSE FindEntryFiles(w)
     IN IF entries = {}
        THEN skipped' = skipped \cup {Head(todo)} /\ UNCHANGED <<phase, queue, slice>>
        ELSE /\ target' = w /\ phase' = "frontend" /\ queue' = entries \cup ConventionLoaded(w)
             /\ frontend' = {} /\ names' = [b \in Packages |-> {}] /\ matched' = <<>> /\ unmatched' = Nothing
             /\ left' = Backends /\ traced' = [b \in Backends |-> {}]
             /\ UNCHANGED skipped
  /\ UNCHANGED <<repo, prepared, results>>

\* The backends whose client a specifier names; a package is the first that
\* fits.
Client(spec) == {b \in Packages : spec.k = "bare" /\ IsPrefix(Recipe[b].clientPackage, Segments(spec.path))}
ClientsOf(spec) == {b \in Packages : Client(spec) # {} /\ Recipe[b].clientPackage = Recipe[Min(Client(spec))].clientPackage}

\* One file of traceFrontend, in any order.
TraceFrontend ==
  /\ phase = "frontend"
  /\ \E f \in queue :
       LET imports == Imports(f)
           found == {Find(f, s) : s \in {x \in DOMAIN imports : Client(x) = {}}} \ {Null}
       IN IF f \in frontend \/ ~IsApplicationSource(f)
          THEN queue' = queue \ {f} /\ UNCHANGED <<frontend, names>>
          ELSE /\ frontend' = frontend \cup {f}
               /\ queue' = (queue \ {f}) \cup (found \ frontend')
               /\ names' = [b \in Packages |-> names[b] \cup UNION {imports[s] : s \in {x \in DOMAIN imports : b \in ClientsOf(x)}}]
  /\ UNCHANGED <<repo, phase, prepared, todo, target, matched, unmatched, left, traced, results, skipped>>

FrontendTraced == phase = "frontend" /\ queue = {} /\ phase' = "match"
                  /\ UNCHANGED <<repo, prepared, todo, queue, slice, results, skipped>>

\* The backend whose turn it is.
Turn(b) == b \in left /\ \A c \in left : b <= c

\* The endpoints that exports of its client name.
NamedEndpoints(b, exports) ==
  LET index(x) == ClientNameIndex(prepared[b].ids, x)
  IN UNION {{[endpoint |-> e, name |-> <<"export", x>>, ambiguous |-> Cardinality(index(x)) > 1] : e \in index(x)} : x \in exports}

\* The requests of one backend: names of its client, then calls to its base,
\* then those of Ember Data.
MatchBackend(b) ==
  /\ phase = "match" /\ Turn(b) /\ left' = left \ {b}
  /\ LET exports == IF b \in Packages THEN names[b] ELSE {}
         requests == (IF Scanned(b) THEN ScanRequests(b) ELSE {}) \cup EmberRequests(b, target)
     IN \E answers \in {Answers(b, requests)} :
          /\ matched' = Add(matched, b, NamedEndpoints(b, exports) \cup Reach(answers))
          /\ unmatched' = [names |-> unmatched.names \cup {x \in exports : ClientNameIndex(prepared[b].ids, x) = {}},
                           calls |-> unmatched.calls \cup Missed(b, answers)]
  /\ UNCHANGED <<repo, phase, prepared, todo, target, queue, frontend, names, traced, results, skipped>>

\* The calls through generated clients that go to one backend.
MatchGenerated(b) ==
  /\ phase = "generated" /\ Turn(b) /\ left' = left \ {b}
  /\ \E answers \in {Answers(b, GeneratedRequests(b))} :
       /\ matched' = Add(matched, b, Reach(answers))
       /\ unmatched' = [unmatched EXCEPT !.calls = @ \cup Missed(b, answers)]
  /\ UNCHANGED <<repo, phase, prepared, todo, target, queue, frontend, names, traced, results, skipped>>

\* Each backend has been matched: the generated clients are next, then the
\* files of the backends.
NextPass ==
  /\ left = {} /\ left' = Backends
  /\ \/ phase = "match" /\ phase' = "generated"
     \/ phase = "generated" /\ phase' = "next"
  /\ UNCHANGED <<repo, prepared, todo, target, queue, frontend, names, matched, unmatched, traced, results, skipped>>

Handlers(m, b) == {e[2].file : e \in {x \in DOMAIN m : x[1] = b}}
StartBackend(b) ==
  /\ phase = "next" /\ Turn(b)
  /\ phase' = "backend" /\ queue' = Handlers(matched, b)
  /\ UNCHANGED <<repo, prepared, todo, slice, results, skipped>>

\* Mutant: what a file loads from its own directory is not followed.
TraceBackend_ImportsOnly(b) ==
  /\ phase = "backend" /\ Turn(b)
  /\ \E f \in queue :
       LET found == {Find(f, s) : s \in DOMAIN Imports(f)} \ {Null}
       IN IF f \in traced[b] \/ ~Belongs(b, f)
          THEN queue' = queue \ {f} /\ UNCHANGED traced
          ELSE /\ traced' = [traced EXCEPT ![b] = @ \cup {f}]
               /\ queue' = (queue \ {f}) \cup (found \ traced'[b])
  /\ UNCHANGED <<repo, phase, prepared, todo, target, frontend, names, matched, unmatched, left, results, skipped>>

\* One file of traceBackend, in any order.
TraceBackend(b) ==
  /\ phase = "backend" /\ Turn(b)
  /\ \E f \in queue :
       LET siblings == IF f \in repo.loads THEN SiblingModules(repo.files, f) ELSE {}
           found == ({Find(f, s) : s \in DOMAIN Imports(f)} \ {Null}) \cup siblings
       IN IF f \in traced[b] \/ ~Belongs(b, f)
          THEN queue' = queue \ {f} /\ UNCHANGED traced
          ELSE /\ traced' = [traced EXCEPT ![b] = @ \cup {f}]
               /\ queue' = (queue \ {f}) \cup (found \ traced'[b])
  /\ UNCHANGED <<repo, phase, prepared, todo, target, frontend, names, matched, unmatched, left, results, skipped>>

BackendTraced(b) ==
  /\ phase = "backend" /\ queue = {} /\ Turn(b) /\ left' = left \ {b}
  /\ phase' = "next"
  /\ UNCHANGED <<repo, prepared, todo, target, queue, frontend, names, matched, unmatched, traced, results, skipped>>

\* The slice of the frontend is complete.
Finish ==
  /\ phase = "next" /\ left = {} /\ phase' = "target"
  /\ LET found == [frontend |-> frontend, names |-> names, endpoints |-> matched, files |-> traced, unmatched |-> unmatched]
     IN results' = [d \in DOMAIN results \cup {target.dir} |-> IF d = target.dir THEN found ELSE results[d]]
  /\ UNCHANGED <<repo, prepared, todo, queue, slice, skipped>>

AnalysisNext ==
  \/ Prepare \/ Start \/ TraceFrontend \/ FrontendTraced \/ NextPass \/ Finish
  \/ \E b \in Backends : MatchBackend(b) \/ MatchGenerated(b) \/ StartBackend(b) \/ TraceBackend(b) \/ BackendTraced(b)

AnalysisSpec == AnalysisInit /\ [][AnalysisNext]_analysisVars

-----------------------------------------------------------------------------
(* Properties of the slices found.  They read the checkout directly,       *)
(* without the queues and the indexes the analysis works with.             *)

\* The least set that has some files and, with each of its files, what the
\* step leads to from there.
IsClosure(S, files, Step(_)) ==
  LET steps == [f \in S |-> Step(f)]
      Closed(T) == files \subseteq T /\ \A f \in T : steps[f] \subseteq T
  IN Closed(S) /\ \A T \in SUBSET S : Closed(T) => T = S

\* What a file loads: in a frontend all but generated clients, in a backend
\* what stays inside.
Loads(f) == {g \in {Find(f, s) : s \in {x \in DOMAIN Imports(f) : Client(x) = {}}} \ {Null} : IsApplicationSource(g)}
Needs(b, f) ==
  {g \in ({Find(f, s) : s \in DOMAIN Imports(f)} \ {Null}) \cup (IF f \in repo.loads THEN SiblingModules(repo.files, f) ELSE {}) :
     Belongs(b, g)}
Entries(w) == {f \in FindEntryFiles(w) \cup ConventionLoaded(w) : IsApplicationSource(f)}

\* A slice holds exactly the files its frontend loads, and of each backend
\* exactly the files the handlers of its endpoints depend on, however imports
\* form cycles and in whatever order they are followed (traceFrontend,
\* traceBackend).
SliceIsClosed ==
  \A dir \in DOMAIN results :
    LET s == results[dir]
    IN /\ IsClosure(s.frontend, Entries(Workspace(dir)), Loads)
       /\ \A b \in Backends : IsClosure(s.files[b], Handlers(s.endpoints, b), LAMBDA f : Needs(b, f))

\* Whether a slice reports a request of a file's item to a backend, as a way
\* to an endpoint or as a call that reaches none, and an export it takes.
Reports(s, b, f, n) ==
  \/ \E e \in DOMAIN s.endpoints : e[1] = b /\ <<"line", f, n>> \in s.endpoints[e].names
  \/ \E c \in s.unmatched.calls : c.backend = b /\ c.site = <<"line", f, n>>
ReportsName(s, b, x) ==
  \/ x \in s.unmatched.names
  \/ \E e \in DOMAIN s.endpoints : e[1] = b /\ <<"export", x>> \in s.endpoints[e].names
Items(s) == UNION {{<<f, n>> : n \in DOMAIN repo.items[f]} : f \in s.frontend \cap DOMAIN repo.items}

\* The exports a slice takes of a backend's client, the URLs an item writes
\* with the backend's base (in a variable that is not named as the base), and
\* where such a URL is used: at a request that names its variable, unless
\* another that holds one has the same name there.
Taken(s, b) == UNION {UNION {Imports(f)[x] : x \in {y \in DOMAIN Imports(f) : b \in ClientsOf(y)}} : f \in s.frontend}
Writes(b, i) ==
  /\ i.arg.e = "join" /\ i.arg.of.e = "base" /\ i.arg.of.name \in Recipe[b].baseNames
  /\ BuildUrlCall(Null, i.arg.url, FALSE) # Null
  /\ i.k = "let" => i.name \notin Recipe[b].baseNames
UsedAt(b, items, n, m) ==
  /\ items[n].k = "let" /\ n < m /\ m <= items[n].until /\ items[m].k = "call"
  /\ items[m].arg.e = "name" /\ items[m].arg.name = items[n].name
  /\ ~\E l \in n + 1 .. m - 1 : items[l].k = "let" /\ items[l].name = items[n].name /\ m <= items[l].until /\ Writes(b, items[l])

\* Every name a slice takes from a generated client, and every URL its files
\* write with a backend's base, is reported: as a way to an endpoint, or as
\* reaching none.  A URL held in a variable is reported where it is written or
\* at a request that uses that variable, not another of its name (scan).
NothingIsLost ==
  \A dir \in DOMAIN results : \A b \in Backends :
    LET s == results[dir]
    IN /\ \A x \in Taken(s, b) : ReportsName(s, b, x)
       /\ \A i \in Items(s) :
            LET items == repo.items[i[1]]
            IN Writes(b, items[i[2]]) =>
                 \/ Reports(s, b, i[1], i[2])
                 \/ \E m \in DOMAIN items : UsedAt(b, items, i[2], m) /\ Reports(s, b, i[1], m)

\* A URL written out does not make an endpoint of a route whose parameter
\* takes a segment that another route of the same verb spells out, so that
\* /jobs/batch is not also a request for /jobs/:id (matchCall).  Of routes
\* with optional parameters, or a star before their end, the longer way round
\* may be the only one.
MostSpecificRoute ==
  \A dir \in DOMAIN results :
    LET s == results[dir]
        plain(route) == \A n \in 1 .. Len(route) : ~route[n].optional /\ (route[n].kind = "rest" => n = Len(route))
        written(x) == x.arg.e = "text" \/ (x.arg.e = "join" /\ x.arg.of.e = "base")
        beaten(call, e, r) ==
          /\ r.httpMethod = e.httpMethod /\ Len(r.path) = Len(e.path) /\ Len(call) = Len(e.path)
          /\ \E n \in DOMAIN call : r.path[n] # e.path[n]
          /\ \A n \in DOMAIN call :
               r.path[n] = e.path[n] \/ (e.path[n].kind = "param" /\ r.path[n] = call[n] /\ call[n].kind = "static")
    IN \A e \in DOMAIN s.endpoints : \A i \in Items(s) :
         LET x == repo.items[i[1]][i[2]]
         IN <<"line", i[1], i[2]>> \in s.endpoints[e].names /\ written(x) /\ plain(e[2].path) =>
              ~\E r \in prepared[e[1]].routes : beaten(x.arg.url, e[2], r)

\* A relative path requested through a shared client, not through a helper of
\* a service, goes to one backend, unless the clients that the file has name
\* several (the client context of a file).
OneBackend ==
  \A dir \in DOMAIN results : \A i \in Items(results[dir]) :
    LET x == repo.items[i[1]][i[2]]
        clients == ({Find(i[1], y) : y \in DOMAIN Imports(i[1])} \cup {i[1]}) \cap repo.creates
        named == {b \in Backends : \E f \in clients : Mentions(b, f)}
    IN /\ x.k = "call" /\ x.arg.e = "text"
       /\ x.on # Null /\ x.on \notin DOMAIN By(repo.services, i[1], <<>>)
       /\ Cardinality(named) <= 1
       => Cardinality({b \in Backends : Reports(results[dir], b, i[1], i[2])}) <= 1
=============================================================================
