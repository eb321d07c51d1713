--------------------------- MODULE MC_SliceAnalysis ---------------------------
(* A small monorepo: two frontends, a library, and three backends, with the  *)
(* parts that may or may not be there chosen independently.                  *)
EXTENDS SliceAnalysis

CONSTANTS
  Unset,      \* a host no adapter sets
  TypeNames   \* kind of adapter -> model -> the plural of its name

Ember == INSTANCE EmberData
MCParsedAdapter(name, class) == Ember!ParseAdapter(name, class)
MCStoreRequests(adapters, related, calls) == Ember!FindEmberDataRequests(adapters, related, calls)

P(dir, stem, ext) == [dir |-> dir, stem |-> stem, mark |-> Null, ext |-> ext]
Web == <<"apps", "web">>
App == <<"apps", "tracker">>
Api == <<"apps", "api">>
Legacy == <<"apps", "legacy">>
Audit == <<"apps", "audit">>
Ui == <<"libs", "ui">>
WebSrc == Append(Web, "src")
ApiSrc == Append(Api, "src")
Routes == Append(Legacy, "routes")
Main == P(WebSrc, "main", "ts")
Page == P(WebSrc, "page", "tsx")
Calls == P(WebSrc, "calls", "ts")
HttpClient == P(Append(Ui, "src"), "http", "ts")
Badge == P(Append(Ui, "src"), "badge", "tsx")
Index == P(Append(Ui, "src"), "index", "ts")
Story == [Badge EXCEPT !.mark = "stories"]
Generated == P(Append(WebSrc, "generated"), "api", "ts")
AppModule == P(ApiSrc, "app.module", "ts")
Users == P(Append(ApiSrc, "users"), "users.controller", "ts")
Teams == P(Append(ApiSrc, "teams"), "teams.controller", "ts")
Service == P(Append(ApiSrc, "users"), "users.service", "ts")
Logs == P(Append(Audit, "src"), "logs.controller", "ts")
Server == P(Legacy, "app", "js")
Routing == P(Routes, "index", "js")
Jobs == P(Routes, "jobs", "js")
Entry == P(Append(App, "app"), "app", "js")
Fetcher == P(App \o <<"app", "services">>, "fetcher", "js")

ClientName == <<"@acme", "client">>
MCRecipe == <<
  [dir |-> Api, framework |-> "nestjs", clientPackage |-> ClientName, root |-> [file |-> AppModule, name |-> "AppModule"],
   entry |-> Null, baseNames |-> {}],
  [dir |-> Legacy, framework |-> "express", clientPackage |-> Null, root |-> Null, entry |-> Server, baseNames |-> {"LEGACY"}],
  [dir |-> Audit, framework |-> "nestjs", clientPackage |-> Null, root |-> Null, entry |-> Null, baseNames |-> {"AUDIT"}]>>
MCTypeNames == [k \in {"json-api", "rest"} |-> [job |-> "jobs", log |-> "logs"]]

W(dir, name, depends) == [dir |-> dir, name |-> name, exports |-> <<>>, wild |-> <<>>, fields |-> <<>>, depends |-> depends, scripts |-> <<>>]
MCWorkspaces == {
  [W(Web, <<"web">>, {ClientName}) EXCEPT !.scripts = <<P(<<"src">>, "main", "ts")>>],
  W(App, <<"tracker">>, {<<"ember-source">>}), W(Api, <<"api">>, {}), W(Legacy, <<"legacy">>, {}), W(Audit, <<"audit">>, {}),
  W(<<"apps", "empty">>, <<"empty">>, {ClientName}),
  [W(Ui, <<"@acme", "ui">>, {}) EXCEPT !.exports = (<<>> :> <<P(<<"dist">>, "index", "js")>>)]}

Bare(segs) == [k |-> "bare", up |-> 0, path |-> P(Front(segs), Last(segs), Null)]
Near(up, dir, stem) == [k |-> "relative", up |-> up, path |-> P(dir, stem, Null)]
Name(x) == [name |-> x, typeOnly |-> FALSE]
Import(spec, list) == [k |-> "import", spec |-> spec, typeOnly |-> FALSE, names |-> {Name(x) : x \in list}, namespace |-> Null]
Export(form, id) == [form |-> form, id |-> id]

S(value) == [kind |-> "static", value |-> value, optional |-> FALSE]
V == [kind |-> "param", value |-> Null, optional |-> FALSE]
X(e, name, url, of) == [e |-> e, name |-> name, url |-> url, of |-> of]
BaseOf(name) == X("base", name, <<>>, Null)
Join(name, url) == X("join", Null, url, BaseOf(name))
Var(name) == X("name", name, <<>>, Null)
Text(url) == X("text", "/", url, Null)
Call(on, name, arg, method) == [k |-> "call", on |-> on, name |-> name, arg |-> arg, method |-> method]
Let(name, until, arg) == [k |-> "let", name |-> name, until |-> until, arg |-> arg]
Use(arg) == [k |-> "use", arg |-> arg]

\* The requests of calls.ts: an alias and a URL of the same name in an inner
\* scope, a URL used without a request, and calls of clients and helpers.
MCItems(shadowed) == <<
  Let("url", IF shadowed THEN 4 ELSE 1, Join("LEGACY", <<S("jobs")>>)),
  Let("url", 4, Join("LEGACY", <<S("jobs"), V>>)),
  Call(Null, "fetch", Var("url"), Null),
  Call("axios", "put", Join("LEGACY", <<S("jobs"), S("batch")>>), Null),
  Use(Join("AUDIT", <<S("logs")>>)),
  Call("http", "get", Text(<<S("logs")>>), Null),
  Call("axios", "get", Text(<<S("logs")>>), Null),
  Call(Null, "send", Text(<<S("jobs")>>), "post"),
  Use(Join("LEGACY", <<S("nowhere")>>))>>
Sender == {[name |-> "request", params |-> <<"path">>, prefixed |-> {<<"LEGACY", "path">>}, passes |-> {}],
           [name |-> "send", params |-> <<"path">>, prefixed |-> {}, passes |-> {<<"request", "path">>}],
           [name |-> "other", params |-> <<"path">>, prefixed |-> {<<"AUDIT", "path">>}, passes |-> {}]}

D(name, http, routes) == [name |-> name, http |-> http, routes |-> routes]
M(name, decorators) == [name |-> name, decorators |-> decorators, operationId |-> Null]
C(name, prefix, methods) == [name |-> name, decorators |-> <<D("Controller", Null, <<>>)>>, prefixes |-> <<prefix>>, methods |-> methods]
MCClasses ==
  Users :> <<C("UsersController", <<S("users")>>, <<M(<<"list">>, <<D("Get", "get", <<>>)>>), M(<<"one">>, <<D("Get", "get", << <<V>> >>)>>)>>)>>
  @@ Teams :> <<C("TeamsController", <<S("teams")>>, <<M(<<"list">>, <<D("Get", "get", <<>>)>>)>>)>>
  @@ Logs :> <<C("LogsController", <<S("logs")>>, <<M(<<"list">>, <<D("Get", "get", <<>>)>>), M(<<"add">>, <<D("Post", "post", <<>>)>>),
                 M(<<"none">>, <<D("Get", "get", << <<S("hidden")>> >>), D("ApiExcludeEndpoint", Null, <<>>)>>)>>)>>
MCModules(teams) ==
  (AppModule :> [imported |-> [UsersController |-> [file |-> Users, name |-> "UsersController"], TeamsController |-> [file |-> Teams, name |-> "TeamsController"]],
                 arrays |-> [more |-> <<[k |-> "class", name |-> "TeamsController"], [k |-> "spread", name |-> "more"]>>],
                 modules |-> [AppModule |-> [imports |-> <<[k |-> "class", name |-> "AppModule"]>>,
                   controllers |-> <<[k |-> "class", name |-> "UsersController"]>> \o IF teams THEN <<[k |-> "spread", name |-> "more"]>> ELSE <<>>]]])

R(router, method, path) == [k |-> "route", router |-> router, method |-> method, paths |-> {path}]
Factory(name) == [k |-> "let", name |-> name, spec |-> Null, factory |-> TRUE]
Mount(router, prefix, what) == [k |-> "use", router |-> router, prefixes |-> {prefix}, targets |-> <<what>>]
MCExpress ==
  Server :> [dynamicSiblings |-> FALSE, items |-> <<Factory("app"),
              Mount("app", <<S("jobs")>>, [k |-> "require", name |-> Null, spec |-> Near(0, <<>>, "routes")])>>]
  @@ Routing :> [dynamicSiblings |-> TRUE, items |-> <<Factory("router"), Factory("inner"), R("router", "get", <<V>>), R("router", "post", <<>>), R("inner", "put", <<S("batch")>>), R("inner", "put", <<V>>),
              Mount("router", <<>>, [k |-> "name", name |-> "inner", spec |-> Null]), Mount("inner", <<S("deep")>>, [k |-> "computed", name |-> Null, spec |-> Null])>>]
  @@ Jobs :> [dynamicSiblings |-> FALSE, items |-> <<Factory("router"), R("router", "get", <<S("late")>>), [k |-> "export", name |-> "router"]>>]

MCClients == [JobsApi |-> [jobsGet |-> [method |-> "get", segments |-> <<S("jobs"), V>>]],
              LogsApi |-> [logsGet |-> [method |-> "get", segments |-> <<S("logs")>>]]]
Receiver(of, api) == [new |-> of # Null, instanceOf |-> of, api |-> api]

MCAdapters == [application |-> [extends |-> [kind |-> "rest", parent |-> Null], members |-> <<[k |-> "host", value |-> "LEGACY"]>>],
               log |-> [extends |-> [kind |-> Null, parent |-> "application"], members |-> <<[k |-> "host", value |-> "AUDIT"]>>]]
Store(model, op, n) == [model |-> model, op |-> op, site |-> <<Entry, n>>]

MCRepo(ui, teams, shadowed, loads, calls, asked, wanted) ==
  [files |-> {Main, Page, Calls, HttpClient, Badge, Index, Story, Generated, AppModule, Users, Teams, Service, Logs, Server, Routing, Jobs, Entry, Fetcher},
   workspaces |-> MCWorkspaces,
   aliases |-> [d \in {w.dir : w \in MCWorkspaces} |->
                 IF d = Web THEN <<[pattern |-> <<"@", "lib">>, star |-> TRUE, targets |-> <<P(WebSrc, "none", Null), P(<<"apps", "web">>, "src", Null)>>]>> ELSE <<>>],
   statements |->
     Main :> (<<Import(Near(0, <<>>, "page"), {}), [k |-> "call", spec |-> Bare(<<"@", "lib", "calls">>)]>>
              \o IF ui THEN <<[k |-> "export", spec |-> Bare(<<"@acme", "ui">>), typeOnly |-> FALSE, names |-> {}, namespace |-> Null]>> ELSE <<>>)
     @@ Page :> <<Import(Bare(ClientName), {Export("hook", <<"list">>), Export("key", <<"one">>), Export("type", <<"Absent">>)})>>
     @@ Calls :> <<Import(Bare(<<"@acme", "ui", "http">>), {"send"}), Import(Near(0, <<"generated">>, "api"), {})>>
     @@ Index :> <<Import(Near(0, <<>>, "badge"), {}), Import(Near(0, <<>>, "badge.stories"), {})>>
     @@ Badge :> <<Import(Bare(ClientName), {Export("hook", <<"list", "teams">>)}), Import(Near(0, <<>>, "index"), {})>>
     @@ Users :> <<Import(Near(0, <<>>, "users.service"), {})>>
     @@ Service :> <<Import(Near(2, <<>>, "nothing"), {}), Import(Near(0, <<>>, "users.controller"), {}), Import(Near(3, <<"audit", "src">>, "logs.controller"), {})>>
     @@ Routing :> <<[k |-> "call", spec |-> Near(1, <<>>, "app")]>>,
   loads |-> IF loads THEN {Routing} ELSE {},
   items |-> Calls :> MCItems(shadowed) @@ Entry :> <<Call("fetcher", "send", Text(<<S("jobs")>>), "post")>>,
   functions |-> HttpClient :> Sender @@ Fetcher :> Sender,
   bases |-> Calls :> calls @@ HttpClient :> asked @@ Fetcher :> {"LEGACY"},
   creates |-> {HttpClient},
   service |-> (Fetcher :> "fetcher"),
   services |-> (Entry :> [fetcher |-> "fetcher"]),
   classes |-> MCClasses, modules |-> MCModules(teams), express |-> MCExpress,
   clients |-> (Generated :> MCClients),
   constructs |-> (Calls :> {"LogsApi"}),
   clientCalls |-> (Calls :> <<[receiver |-> Receiver("LogsApi", FALSE), name |-> "logsGet"], [receiver |-> Receiver(Null, TRUE), name |-> "jobsGet"]>>),
   related |-> [job |-> {"log"}, log |-> {"job"}], adapters |-> MCAdapters, storeCalls |-> {Store("job", "findRecord", 7), Store("job", Null, 8)},
   wanted |-> wanted]

MCCheckouts == {[MCRepo(ui, teams, shadowed, loads, calls, asked, wanted) EXCEPT !.files = @ \ gone] :
              ui \in BOOLEAN, teams \in BOOLEAN, shadowed \in BOOLEAN, loads \in BOOLEAN,
              calls \in {{"LEGACY", "AUDIT"}, {"LEGACY"}}, asked \in {{"AUDIT"}, {"LEGACY", "AUDIT"}},
              wanted \in {<<Web, App, <<"apps", "gone">> >>, Null}, gone \in {{}, {AppModule}}}

-----------------------------------------------------------------------------
(* The operators of the analysis against reference definitions, over small *)
(* inputs.                                                                 *)

Opt == [V EXCEPT !.optional = TRUE]
Paths(kinds, n) == UNION {[1 .. k -> kinds] : k \in 0 .. n}

\* A route with optional parameters reaches what it does with some of them
\* left out; its score is the best of those (matchScore).
Shorter(route) ==
  {[n \in DOMAIN SetToSortSeq(kept, <) |-> route[SetToSortSeq(kept, <)[n]]] :
     kept \in {k \in SUBSET DOMAIN route : \A n \in DOMAIN route \ k : route[n].optional}}
PlainScore(call, route) ==
  IF /\ Len(call) = Len(route)
     /\ \A n \in DOMAIN call : route[n].kind = "static" => call[n].kind = "static" /\ call[n].value = route[n].value
  THEN Cardinality({n \in DOMAIN route : route[n].kind = "static"}) ELSE -1
ASSUME ScoreIsBestFit ==
  \A call \in Paths({S("a"), S("b"), V}, 3), route \in Paths({S("a"), V, Opt}, 3) :
    MatchScore(call, route) = Max({PlainScore(call, r) : r \in Shorter(route)})

\* A path in a module's own words beats a directory's index, and what an
\* import finds is a file of the checkout (resolveSourceFile, resolve).
Both == {P(WebSrc, "page", "ts"), P(Append(WebSrc, "page"), "index", "ts"), P(Append(Ui, "src"), "index", "ts"),
         P(WebSrc, "ui", "ts"), P(Append(Ui, "src"), "deep", "ts"), P(Append(Ui, "lib"), "extra", "js")}
UiPackage == [W(Ui, <<"@acme", "ui">>, {}) EXCEPT !.wild = <<[prefix |-> <<>>, targets |-> <<P(<<"dist">>, "x", "js")>>]>>]
Pages == {W(Web, <<"web">>, {}), UiPackage}
AliasOf(star, segs) == [Web |-> IF star = Null THEN <<>> ELSE <<[pattern |-> segs, star |-> star, targets |-> <<P(WebSrc, "ui", Null)>>]>>]
ASSUME ImportsFindFiles ==
  \A files \in SUBSET Both, spec \in {Near(0, <<>>, "page"), Bare(<<"@acme", "ui">>), Bare(<<"@acme", "ui", "deep">>), Bare(<<"@", "page">>), Bare(<<"react">>)},
     star \in {Null, FALSE} :
    LET found == Resolve(files, Pages, [d \in {Web, Ui} |-> IF d = Web THEN AliasOf(star, <<"@acme", "ui">>).Web ELSE <<>>], P(WebSrc, "main", "ts"), spec)
        page == P(WebSrc, "page", "ts")
    IN /\ found \in files \cup {Null}
       /\ spec \in {Near(0, <<>>, "page"), Bare(<<"@", "page">>)} /\ page \in files => found = page
       /\ spec = Bare(<<"@acme", "ui">>) /\ star = FALSE /\ P(WebSrc, "ui", "ts") \in files => found = P(WebSrc, "ui", "ts")
       /\ spec = Bare(<<"react">>) => found = Null

\* Published endpoints have names of their own, and each could have been
\* found by its candidates had no module reached it (assignOperationIds).
Ep(c, id, path, verb) == [file |-> c, controller |-> c, methodKey |-> id, httpMethod |-> verb, path |-> path, explicitOperationId |-> Null]
Listed == {Ep("c", <<"get">>, <<S("a")>>, "get"), Ep("c", <<"get">>, <<S("a"), V>>, "get"), Ep("d", <<"get">>, <<V>>, "put"),
           Ep("d", <<"get", "a">>, <<S("b")>>, "get"), Ep("d", <<"get">>, <<S("a")>>, "get")}
ASSUME IdsAreUnique ==
  \A list \in {l \in UNION {[1 .. k -> Listed] : k \in 0 .. 4} : \A m, n \in DOMAIN l : m # n => l[m] # l[n]} :
    LET ids == AssignOperationIds(list)
    IN /\ \A e, f \in DOMAIN ids : e # f => ids[e] # ids[f]
       /\ \A e \in DOMAIN ids : ids[e] \in CandidateOperationIds(e)
       /\ {<<e.path, e.httpMethod>> : e \in DOMAIN ids} = {<<e.path, e.httpMethod>> : e \in Range(list)}

\* Modules that import each other are each walked once, after one that
\* imports it, and what the walk reaches comes first (orderEndpoints).
ModuleNames == {"m", "n", "o"}
Ref(m) == [file |-> m, name |-> m]
Graph(edges) == [m \in ModuleNames |-> [imported |-> [x \in ModuleNames |-> Ref(x)], arrays |-> <<>>,
  modules |-> (m :> [imports |-> [k \in DOMAIN edges[m] |-> [k |-> "class", name |-> edges[m][k]]], controllers |-> <<>>])]]
ASSUME ModulesInOrder ==
  \A edges \in [ModuleNames -> {<<>>, <<"n">>, <<"n", "o">>, <<"o", "m">>}] :
    LET order == ModuleOrder(Graph(edges), Ref("m"))
        after(x, y) == \E i, j \in DOMAIN order : i < j /\ order[i] = Ref(x) /\ order[j] = Ref(y)
    IN /\ order[1] = Ref("m") /\ \A i, j \in DOMAIN order : i # j => order[i] # order[j]
       /\ \A i \in DOMAIN order \ {1} : \E x \in ModuleNames : after(x, order[i].name) /\ order[i].name \in Range(edges[x])
       /\ \A x \in {r.name : r \in Range(order)} : \A y \in Range(edges[x]) : Ref(y) \in Range(order)
       /\ edges["m"] # <<>> /\ edges["m"][1] # "m" => order[2] = Ref(edges["m"][1])

\* A condition that cannot be decided hides no request that either outcome
\* makes, and nothing after a statement that ends is made (walk).
Ajax(verb, of) == [v |-> "ajax", name |-> verb, url |-> <<>>, id |-> FALSE, of |-> of]
Build(id) == [v |-> "build", name |-> Null, url |-> <<>>, id |-> id, of |-> Null]
Named(x) == [v |-> "name", name |-> x, url |-> <<>>, id |-> FALSE, of |-> Null]
Do(value, ends) == [s |-> "do", value |-> value, ends |-> ends]
Set(x, value) == [s |-> "let", name |-> x, value |-> value]
If(cond, yes, no) == [s |-> "if", cond |-> cond, yes |-> yes, no |-> no]
Try(yes, no, last) == [s |-> "try", yes |-> yes, no |-> no, last |-> last]
Cond(c, models) == [c |-> c, models |-> models]
Simple == {Do(Ajax("post", Named("x")), FALSE), Do(Ajax("get", Build(FALSE)), TRUE), Set("x", Build(FALSE)), Set("x", Build(TRUE)),
           Do([v |-> "super", name |-> "query", url |-> <<>>, id |-> FALSE, of |-> Null], FALSE)}
Bodies == UNION {[1 .. k -> Simple] : k \in 0 .. 2}
Asked(body) == Ember!WalkBody([job |-> Ember!ParseAdapter("job", MCAdapters.application)], Ember!ResolveAdapter([job |-> Ember!ParseAdapter("job", MCAdapters.application)], "job"), "job", body)
ASSUME BranchesAreCovered ==
  \A yes, no \in Bodies, after \in Simple :
    LET asked(cond) == Asked(<<Set("x", Build(TRUE)), If(cond, yes, no), after>>)
        tried == Asked(<<Set("x", Build(TRUE)), Try(yes, Null, <<>>), after>>)
    IN /\ asked(Cond("is", {"job"})) \cup asked(Cond("is", {"log"})) \subseteq asked(Cond("unknown", {}))
       /\ asked(Cond("is", {"job"})) = Asked(<<Set("x", Build(TRUE))>> \o yes \o <<after>>)
       /\ tried = Asked(<<Set("x", Build(TRUE))>> \o yes \o <<after>>)

\* The nearest adapter that sets a host decides it, also when the parents of
\* an adapter lead back to it (resolveAdapter).
Adapter(parent, host) == [extends |-> [kind |-> Null, parent |-> parent], members |-> IF host = Unset THEN <<>> ELSE <<[k |-> "host", value |-> host]>>]
ASSUME NearestHostWins ==
  \A hosts \in [{"job", "application"} -> {Unset, Null, "LEGACY", "AUDIT"}], up \in {"application", "job", Null}, down \in {"job", Null} :
    LET adapters == [job |-> Ember!ParseAdapter("job", Adapter(up, hosts["job"])), application |-> Ember!ParseAdapter("application", Adapter(down, hosts["application"]))]
        host == Ember!ResolveAdapter(adapters, "job").host
    IN host = CASE hosts["job"] # Unset -> hosts["job"]
                [] hosts["job"] = Unset /\ up = "application" /\ hosts["application"] # Unset -> hosts["application"]
                [] OTHER -> Null
=============================================================================
