------------------------------ MODULE Endpoints ------------------------------
(***************************************************************************)
(* The endpoints of the backends: controllers of a NestJS workspace with   *)
(* the names its generated client gives them                               *)
(* (apps/worker/src/slices/nest-endpoints.ts and nest-modules.ts), and     *)
(* routes of an Express app (express-routes.ts).                           *)
(*                                                                         *)
(* An endpoint is [file, controller, methodKey, httpMethod, path,          *)
(* explicitOperationId].  An operation id is the sequence of its words, so *)
(* that ids made of different parts can be the same.                       *)
(***************************************************************************)
EXTENDS Integers, Sequences, FiniteSets, SequencesExt, FiniteSetsExt, TLC

CONSTANTS
  Null,       \* null, undefined, a part that is not there
  All,        \* "*", everything a module exports
  MaxPrefix   \* bound: segments of the prefix of an Express mount

Flat(list) == FoldLeft(LAMBDA a, b : a \o b, <<>>, list)

-----------------------------------------------------------------------------
(* Controllers.  A class is [name, decorators, prefixes, methods], a       *)
(* method [name, decorators, operationId], a decorator [name, http, routes]. *)

\* swaggerPath: optional parameters publish as plain ones.
SwaggerPath(prefix, route) ==
  LET joined == prefix \o route IN [n \in DOMAIN joined |-> [joined[n] EXCEPT !.optional = FALSE]]

\* routeStrings: the routes a decorator declares, one empty one if it says none.
RouteStrings(routes) == IF routes = <<>> THEN << <<>> >> ELSE routes

Has(decorators, name) == \E n \in DOMAIN decorators : decorators[n].name = name

\* The routes that the controllers of a file declare, [class, method, http,
\* path], in their order.
DeclaredRoutes(classes) ==
  LET Of(c, m, d, prefix) ==
        [n \in DOMAIN RouteStrings(d.routes) |->
           [class |-> c, method |-> m, http |-> d.http, path |-> SwaggerPath(prefix, RouteStrings(d.routes)[n])]]
      OfMethod(c, m) ==
        Flat([d \in DOMAIN m.decorators |->
           IF m.decorators[d].http = Null \/ Has(m.decorators, "ApiExcludeEndpoint") THEN <<>>
           ELSE Flat([p \in DOMAIN RouteStrings(c.prefixes) |-> Of(c, m, m.decorators[d], RouteStrings(c.prefixes)[p])])])
      OfClass(c) == Flat([m \in DOMAIN c.methods |-> OfMethod(c, c.methods[m])])
      published  == SelectSeq(classes, LAMBDA c : Has(c.decorators, "Controller") /\ ~Has(c.decorators, "ApiExcludeController"))
  IN Flat([n \in DOMAIN published |-> OfClass(published[n])])

\* parseControllerEndpoints
ParseControllerEndpoints(file, classes) ==
  LET found == DeclaredRoutes(classes)
  IN [n \in DOMAIN found |->
        [file |-> file, controller |-> found[n].class.name, methodKey |-> found[n].method.name, httpMethod |-> found[n].http,
         path |-> found[n].path, explicitOperationId |-> found[n].method.operationId]]

-----------------------------------------------------------------------------
(* Modules.  A module file is [imported, arrays, modules]: local names of  *)
(* classes with their [file, name], local arrays, and its @Module classes   *)
(* with the elements of imports and controllers; an element is [k, name],  *)
(* a class (behind forwardRef and forRoot) or a spread of an array.        *)

\* collect of parseModuleFile
Collect(file, f, elements) ==
  LET class(name) == IF name \in DOMAIN f.imported THEN f.imported[name] ELSE [file |-> file, name |-> name]
      Refs(list, Of(_)) ==
        Flat([n \in DOMAIN list |-> IF list[n].k = "class" THEN <<class(list[n].name)>>
                                    ELSE IF list[n].name \in DOMAIN f.arrays THEN Of(list[n].name) ELSE <<>>])
      spread[name \in DOMAIN f.arrays, seen \in SUBSET DOMAIN f.arrays] ==
        IF name \in seen THEN <<>> ELSE Refs(f.arrays[name], LAMBDA x : spread[x, seen \cup {name}])
  IN Refs(elements, LAMBDA x : spread[x, {}])

\* The walk of orderEndpoints: modules in pre-order of their imports, each
\* once.
ModuleOrder(moduleFiles, root) ==
  LET ImportsOf(ref) == Collect(ref.file, moduleFiles[ref.file], moduleFiles[ref.file].modules[ref.name].imports)
      modules == UNION {{[file |-> f, name |-> m] : m \in DOMAIN moduleFiles[f].modules} : f \in DOMAIN moduleFiles}
      refs == modules \cup {root} \cup UNION {Range(ImportsOf(m)) : m \in modules}
      walk[stack \in Seq(refs), done \in Seq(modules)] ==
        CASE stack = <<>> -> done
          [] stack # <<>> /\ Last(stack) \notin modules \ Range(done) -> walk[Front(stack), done]
          [] OTHER -> walk[Front(stack) \o Reverse(ImportsOf(Last(stack))), Append(done, Last(stack))]
  IN walk[<<root>>, <<>>]

\* orderEndpoints: the endpoints of the controllers of the modules reached,
\* each once, and the others.
OrderEndpoints(moduleFiles, root, endpoints) ==
  LET order == IF root = Null THEN <<>> ELSE ModuleOrder(moduleFiles, root)
      refs  == Flat([n \in DOMAIN order |->
                 Collect(order[n].file, moduleFiles[order[n].file],
                         moduleFiles[order[n].file].modules[order[n].name].controllers)])
      Of(ref) == SelectSeq(endpoints, LAMBDA e : e.file = ref.file /\ e.controller = ref.name)
      ordered == FoldLeft(LAMBDA s, ref : s \o SelectSeq(Of(ref), LAMBDA e : e \notin Range(s)), <<>>, refs)
  IN [ordered |-> ordered, unreached |-> SelectSeq(endpoints, LAMBDA e : e \notin Range(ordered))]

-----------------------------------------------------------------------------
(* Operation ids                                                           *)

BaseId(e) == IF e.explicitOperationId = Null THEN e.methodKey ELSE e.explicitOperationId
\* The id of an endpoint whose name is taken: with the static segments of its
\* path, or else its verb.
LongId(e) ==
  LET static == SelectSeq(e.path, LAMBDA s : s.kind # "param")
  IN BaseId(e) \o IF static = <<>> THEN <<e.httpMethod>> ELSE [n \in DOMAIN static |-> static[n].value]

\* The name an endpoint is published under: counted when both are taken.
UniqueId(e, taken) ==
  LET counted(n) == Append(LongId(e), ToString(n))
      free == {n \in 2 .. Cardinality(taken) + 2 : counted(n) \notin taken}
  IN IF BaseId(e) \notin taken THEN BaseId(e)
     ELSE IF LongId(e) \notin taken THEN LongId(e)
     ELSE counted(Min(free))

\* assignOperationIds: grouped by path, in the order the paths appear; of two
\* endpoints of a path and method the later takes the place of the earlier.
AssignOperationIds(ordered) ==
  LET at(n)  == <<ordered[n].path, ordered[n].httpMethod>>
      first(n, by(_)) == CHOOSE m \in DOMAIN ordered : by(m) = by(n) /\ \A l \in 1 .. m - 1 : by(l) # by(n)
      path(n) == ordered[n].path
      last   == {n \in DOMAIN ordered : \A m \in n + 1 .. Len(ordered) : at(m) # at(n)}
      order  == SetToSortSeq(last, LAMBDA a, b : \/ first(a, path) < first(b, path)
                                                 \/ first(a, path) = first(b, path) /\ first(a, at) < first(b, at))
  IN FoldLeft(LAMBDA ids, n : (ordered[n] :> UniqueId(ordered[n], Range(ids))) @@ ids, <<>>, order)

\* candidateOperationIds
CandidateOperationIds(e) == {BaseId(e), LongId(e), Append(LongId(e), "2"), Append(LongId(e), "3")}

\* The ids an endpoint of a backend may be published under.
OperationIds(moduleFiles, root, endpoints) ==
  LET Ids(assigned, unreached) ==
        [e \in Range(endpoints) |-> CASE e \in unreached -> CandidateOperationIds(e)
                                      [] e \in DOMAIN assigned -> {assigned[e]}
                                      [] OTHER -> {}]
      Of(order) == Ids(AssignOperationIds(order.ordered), Range(order.unreached))
  IN Of(OrderEndpoints(moduleFiles, root, endpoints))

\* buildClientNameIndex with orvalExportNames: an export is [form, id], one of
\* the forms the generated client has of an id.
ClientNameIndex(ids, export) == {e \in DOMAIN ids : export # All /\ export.id \in ids[e]}

-----------------------------------------------------------------------------
(* Express.  A file is a sequence of items: let [k, name, spec, factory],  *)
(* route [k, router, method, paths] (a chained one too), use [k, router,   *)
(* prefixes, targets] and export [k, name]; a target is [k, name, spec], a *)
(* name, a require or one of a path built at run time.                     *)

\* parseExpressFile
ParseExpressFile(items, dynamicSiblings) ==
  LET of(k) == SelectSeq(items, LAMBDA i : i.k = k)
      lets == Range(of("let"))
      routers == SelectSeq(of("let"), LAMBDA i : i.factory)
      named(name) == {l \in lets : l.name = name /\ l.spec # Null}
      isRouter(name) == \E n \in DOMAIN routers : routers[n].name = name
      mount(t) ==
        CASE t.k = "require" -> [kind |-> "module", spec |-> t.spec]
          [] t.k = "name" /\ named(t.name) # {} -> [kind |-> "module", spec |-> (CHOOSE l \in named(t.name) : TRUE).spec]
          [] t.k = "name" /\ named(t.name) = {} -> IF isRouter(t.name) THEN [kind |-> "local", name |-> t.name] ELSE Null
          [] t.k = "computed" -> IF dynamicSiblings THEN [kind |-> "siblings"] ELSE Null
      routed(k) == SelectSeq(of(k), LAMBDA i : isRouter(i.router))
      exports == of("export")
  IN [main |-> CASE exports # <<>> -> Last(exports).name
                 [] exports = <<>> /\ routers # <<>> -> routers[1].name
                 [] OTHER -> Null,
      endpoints |-> UNION {{[router |-> r.router, method |-> r.method, path |-> p] : p \in r.paths} : r \in Range(routed("route"))},
      mounts |-> UNION {{[router |-> u.router, prefix |-> p, target |-> mount(t)] :
                          p \in IF u.prefixes = {} THEN {<<>>} ELSE u.prefixes,
                          t \in {x \in Range(u.targets) : mount(x) # Null}} : u \in Range(routed("use"))}]

\* The routers reached from the entry file through mounts that stay in the
\* backend, each visited once.  target[f][spec] is the file of a specifier,
\* beside[f] the files beside f.
ReachedRouters(parsed, entry, target, beside) ==
  LET served(f) == f # Null /\ f \in DOMAIN parsed /\ parsed[f].main # Null
      main(f, prefix) == [file |-> f, router |-> parsed[f].main, prefix |-> prefix]
      mounted(at) == {m \in parsed[at.file].mounts : m.router = at.router /\ Len(at.prefix \o m.prefix) <= MaxPrefix}
      Mounts(at) ==
        UNION {LET prefix == at.prefix \o m.prefix
               IN CASE m.target.kind = "local" -> {[at EXCEPT !.router = m.target.name, !.prefix = prefix]}
                    [] m.target.kind = "module" -> {main(g, prefix) : g \in {h \in {target[at.file][m.target.spec]} : served(h)}}
                    [] m.target.kind = "siblings" -> {main(g, prefix) : g \in {h \in beside[at.file] : served(h)}}
                 : m \in mounted(at)}
      mounts   == UNION {parsed[f].mounts : f \in DOMAIN parsed}
      routers  == {parsed[f].main : f \in DOMAIN parsed} \cup {m.target.name : m \in {x \in mounts : x.target.kind = "local"}}
      segments == UNION {Range(m.prefix) : m \in mounts}
      walk[visited \in SUBSET [file : DOMAIN parsed, router : routers, prefix : Seq(segments)]] ==
        LET more == visited \cup UNION {Mounts(at) : at \in visited}
        IN IF more = visited THEN visited ELSE walk[more]
  IN IF served(entry) THEN walk[{main(entry, <<>>)}] ELSE {}

\* findExpressEndpoints: the routes of the routers reached.
FindExpressEndpoints(parsed, entry, target, beside) ==
  LET Served(f, at) ==
        {[file |-> f, controller |-> f, methodKey |-> <<>>, httpMethod |-> e.method,
          path |-> at.prefix \o e.path, explicitOperationId |-> Null] :
           e \in {x \in parsed[f].endpoints : x.router = at.router}}
      reached == ReachedRouters(parsed, entry, target, beside)
  IN UNION {UNION {Served(f, at) : at \in {x \in reached : x.file = f}} : f \in DOMAIN parsed}
=============================================================================
