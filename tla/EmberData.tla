------------------------------ MODULE EmberData ------------------------------
(***************************************************************************)
(* The requests an Ember app makes through Ember Data                      *)
(* (apps/worker/src/slices/ember-data.ts): each store call, related model  *)
(* and save becomes the URL its model's adapter builds.                    *)
(*                                                                         *)
(* A URL is a sequence of segments as in UrlCalls.  An adapter's class is  *)
(* [extends, members]: what it extends, [kind, parent], and its members    *)
(* [k, value], host (a base name, or Null), namespace (a URL, or Null),    *)
(* pathForType (a segment, or Null) or [k, op, body], an operation it      *)
(* overrides.  A body is a sequence of statements: if [s, cond, yes, no],  *)
(* let [s, name, value], do [s, value, ends] (an expression, a return or a *)
(* throw) and try [s, yes, no, last].  A value is [v, name, url, id, of]:  *)
(* a variable, build (this.buildURL of the model name, with an id or not), *)
(* a join of a value (of) and url, ajax (name the method, of the URL),      *)
(* super (name the operation) or other.                                    *)
(***************************************************************************)
EXTENDS Integers, Sequences, FiniteSets, SequencesExt, FiniteSetsExt

CONSTANTS
  Null,      \* null, undefined, a part that is not there
  Unset,     \* a host that no member sets
  TypeNames  \* kind of adapter -> model -> the plural of its name, dashed or in camel case

\* DEFAULTS
Operations == {"findRecord", "findAll", "query", "queryRecord", "createRecord", "updateRecord", "deleteRecord"}
Method(op) == CASE op = "createRecord" -> "post" [] op = "updateRecord" -> "patch" [] op = "deleteRecord" -> "delete" [] OTHER -> "get"
NamesRecord(op) == op \in {"findRecord", "updateRecord", "deleteRecord"}
Segment(kind, value) == [kind |-> kind, value |-> value, optional |-> FALSE]
Id == Segment("param", Null)

-----------------------------------------------------------------------------
(* Adapters                                                                *)

\* parseAdapter: a later member takes the place of an earlier one.
ParseAdapter(name, class) ==
  LET start == [name |-> name, kind |-> class.extends.kind, parent |-> class.extends.parent,
                host |-> Unset, namespace |-> Null, pathForType |-> Null, overrides |-> <<>>]
      Assign(a, m) ==
        CASE m.k = "host" -> [a EXCEPT !.host = m.value]
          [] m.k = "namespace" -> [a EXCEPT !.namespace = IF m.value = Null THEN @ ELSE m.value]
          [] m.k = "pathForType" -> [a EXCEPT !.pathForType = IF m.value = Null THEN @ ELSE m.value]
          [] m.k = "override" -> [a EXCEPT !.overrides = (m.op :> m.body) @@ @]
  IN FoldLeft(Assign, start, class.members)

\* resolveAdapter, from adapters by name: the nearest adapter that says
\* something decides it; the parents of an adapter may form a cycle.
Inherited(adapters, chain) ==
  LET saying(part, unset) == SelectSeq(chain, LAMBDA n : adapters[n][part] # unset)
      first(list, part, default) == IF list = <<>> THEN default ELSE adapters[list[1]][part]
      last(list, part, default)  == IF list = <<>> THEN default ELSE adapters[Last(list)][part]
  IN IF chain = <<>> THEN Null
     ELSE [host        |-> first(saying("host", Unset), "host", Null),
           namespace   |-> first(saying("namespace", Null), "namespace", <<>>),
           pathForType |-> first(saying("pathForType", Null), "pathForType", Null),
           kind        |-> last(saying("kind", Null), "kind", "json-api"),
           overrides   |-> FoldLeft(LAMBDA f, n : f @@ adapters[n].overrides, <<>>, chain)]
ResolveAdapter(adapters, model) ==
  LET RECURSIVE Chain(_, _)
      Chain(name, seen) ==
        IF name = Null \/ name \notin DOMAIN adapters \/ name \in Range(seen) THEN seen
        ELSE Chain(adapters[name].parent, Append(seen, name))
  IN Inherited(adapters, Chain(IF model \in DOMAIN adapters THEN model ELSE "application", <<>>))

\* pluralize with camelize for REST adapters: the segment of a model's path.
TypeSegment(kind, model) == Segment("static", TypeNames[kind][model])
PrefixOf(adapter, name) ==
  Append(adapter.namespace, IF adapter.pathForType # Null THEN adapter.pathForType ELSE TypeSegment(adapter.kind, name))
PrefixFor(adapters, adapter, model, name) ==
  LET Or(found) == IF name = model \/ found = Null THEN adapter ELSE found
  IN PrefixOf(Or(ResolveAdapter(adapters, name)), name)

\* defaultRequest
DefaultRequest(adapters, adapter, model, op) ==
  [host |-> adapter.host,
   method |-> IF op = "updateRecord" /\ adapter.kind = "rest" THEN "put" ELSE Method(op),
   url |-> PrefixFor(adapters, adapter, model, model) \o IF NamesRecord(op) THEN <<Id>> ELSE <<>>]

-----------------------------------------------------------------------------
(* Overridden operations                                                   *)

\* evaluate: what a condition says of the model, Null when it depends on more.
Evaluate(cond, model) ==
  LET RECURSIVE Says(_)
      Says(c) ==
        CASE c.c = "is"  -> model \in c.models
          [] c.c = "not" -> IF Says(c.left) = Null THEN Null ELSE ~Says(c.left)
          [] c.c = "and" -> IF FALSE \in {Says(c.left), Says(c.right)} THEN FALSE
                            ELSE IF Null \in {Says(c.left), Says(c.right)} THEN Null ELSE TRUE
          [] c.c = "or"  -> IF TRUE \in {Says(c.left), Says(c.right)} THEN TRUE
                            ELSE IF Null \in {Says(c.left), Says(c.right)} THEN Null ELSE FALSE
          [] c.c = "unknown" -> Null
  IN Says(cond)

\* tokensOf: the URLs a value can be, env giving those of each variable.
TokensOf(adapters, adapter, model, env, value) ==
  LET RECURSIVE Of(_)
      Of(x) == CASE x.v = "name" -> IF x.name \in DOMAIN env THEN env[x.name] ELSE {}
                 [] x.v = "build" -> {PrefixFor(adapters, adapter, model, IF x.name = Null THEN model ELSE x.name)
                                        \o IF x.id THEN <<Id>> ELSE <<>>}
                 [] x.v = "join" -> {u \o x.url : u \in Of(x.of)}
                 [] OTHER -> {}
  IN Of(value)

\* collect: the requests inside a value.
Collected(adapters, adapter, model, env, value) ==
  CASE value.v = "ajax" -> {[host |-> adapter.host, method |-> value.name, url |-> u] : u \in TokensOf(adapters, adapter, model, env, value.of)}
    [] value.v = "super" -> {DefaultRequest(adapters, adapter, model, value.name)}
    [] OTHER -> {}

\* merge: what the variables are after branches that meet.
Merge(env, branches) ==
  LET names == UNION {DOMAIN b : b \in branches}
      in(b, n) == IF n \in DOMAIN b THEN b[n] ELSE IF n \in DOMAIN env THEN env[n] ELSE {}
  IN [n \in names |-> UNION {in(b, n) : b \in branches}] @@ env

\* walk: what a body requests, [env, ends, requests]; a statement after one
\* that always ends is not reached.
WalkBody(adapters, adapter, model, body) ==
  LET More(s, env, ends, requests) == [env |-> env, ends |-> ends, requests |-> s.requests \cup requests]
      Said(s, value) == Collected(adapters, adapter, model, s.env, value)
      RECURSIVE Walk(_, _), Branch(_, _)
      Walk(s, list) == FoldLeft(LAMBDA t, x : IF t.ends THEN t ELSE Branch(t, x), s, list)
      Branch(s, x) ==
        CASE x.s = "do"  -> More(s, s.env, x.ends, Said(s, x.value))
          [] x.s = "let" -> More(s, (x.name :> TokensOf(adapters, adapter, model, s.env, x.value)) @@ s.env, FALSE, Said(s, x.value))
          [] x.s = "try" ->
               LET tried  == Walk(s, x.yes)
                   caught == IF x.no = Null THEN tried ELSE Walk([tried EXCEPT !.ends = FALSE], x.no)
                   closed == Walk([caught EXCEPT !.ends = FALSE], x.last)
               IN [closed EXCEPT !.ends = @ \/ (tried.ends /\ x.no = Null)]
          [] x.s = "if" ->
               LET cond == Evaluate(x.cond, model)
                   yes  == IF cond = FALSE THEN s ELSE Walk(s, x.yes)
                   no   == IF cond = TRUE THEN s ELSE Walk(s, x.no)
                   open == {b \in {yes, no} : ~b.ends}
               IN CASE cond = TRUE  -> yes
                    [] cond = FALSE -> no
                    [] OTHER -> [env |-> IF open = {} THEN s.env ELSE Merge(s.env, {b.env : b \in open}),
                                 ends |-> yes.ends /\ no.ends, requests |-> yes.requests \cup no.requests]
  IN Walk([env |-> <<>>, ends |-> FALSE, requests |-> {}], body).requests

\* operationRequests
OperationRequests(adapters, model, op) ==
  LET By(adapter) ==
        IF adapter = Null \/ adapter.host = Null THEN {}
        ELSE IF op \notin DOMAIN adapter.overrides THEN {DefaultRequest(adapters, adapter, model, op)}
        ELSE WalkBody(adapters, adapter, model, adapter.overrides[op])
  IN By(ResolveAdapter(adapters, model))

-----------------------------------------------------------------------------
(* findEmberDataRequests.  calls are the store calls [model, op, site] of  *)
(* the app (op Null for a peek), related the async relationships of each   *)
(* model file.                                                             *)

\* The models an app touches: those of its calls and of their relationships.
Touched(related, calls) ==
  LET grow(m) == m \cup UNION {related[x] \cap DOMAIN related : x \in m}
      closed[n \in 0 .. Cardinality(DOMAIN related)] ==
        IF n = 0 THEN {c.model : c \in calls} \cap DOMAIN related ELSE grow(closed[n - 1])
  IN closed[Cardinality(DOMAIN related)]

FindEmberDataRequests(adapters, related, calls) ==
  LET seen == {<<c.model, c.op, c.site, FALSE>> : c \in {x \in calls : x.model \in DOMAIN related /\ x.op # Null}}
      loaded(m) == {<<t, "findRecord", <<"model", m, t>>, TRUE>> : t \in related[m] \cap DOMAIN related}
      saved(m)  == {<<m, op, <<"model", m, Null>>, TRUE>> : op \in {"updateRecord", "deleteRecord"}}
      made == seen \cup UNION {loaded(m) \cup saved(m) : m \in Touched(related, calls)}
  IN UNION {{[request |-> r, site |-> x[3], inferred |-> x[4]] : r \in OperationRequests(adapters, x[1], x[2])} : x \in made}
=============================================================================
