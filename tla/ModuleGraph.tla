----------------------------- MODULE ModuleGraph -----------------------------
(***************************************************************************)
(* How an import finds its file in a checkout where nothing is installed   *)
(* (apps/worker/src/slices/module-graph.ts and workspaces.ts).             *)
(*                                                                         *)
(* A path is [dir, stem, mark, ext]: the segments of its directory, the    *)
(* file's name, a mark before the extension ("test", "d", ...) and the     *)
(* extension, Null for one without.  A specifier is [k, up, path], k being *)
(* "relative" (up so many directories), "root" (from the repository), or   *)
(* "bare", whose path starts with the segments of a package name.          *)
(***************************************************************************)
EXTENDS Integers, Sequences, FiniteSets, SequencesExt, FiniteSetsExt

CONSTANTS
  Null,   \* null, undefined, a part that is not there
  All     \* "*", everything a module exports

CodeExtensions == <<"ts", "tsx", "js", "jsx", "mjs", "cjs", "mts", "cts", "gts", "gjs">>
NonSource == {"__tests__", "__mocks__", "__fixtures__", "node_modules", "dist", "cypress", "mirage"}

\* The first of a sequence with a property, or Null.
FirstOf(list, Good(_)) == LET n == SelectInSeq(list, Good) IN IF n = 0 THEN Null ELSE list[n]

IsApplicationSource(file) ==
  /\ Range(file.dir) \cap NonSource = {}
  /\ file.mark \notin {"test", "spec", "stories", "cy", "d"}

\* siblingModules
SiblingModules(files, file) ==
  {g \in files : /\ g # file /\ g.dir = file.dir
                 /\ g.ext \in {"ts", "js", "mjs", "cjs", "mts", "cts"} /\ g.mark \notin {"test", "spec", "d"}}

\* listCodeFiles
ListCodeFiles(files, dir) ==
  {f \in files : /\ IsPrefix(dir, f.dir) /\ f.ext \in Range(CodeExtensions) /\ f.mark # "d"
                 /\ "node_modules" \notin {f.dir[i] : i \in (Len(dir) + 1) .. Len(f.dir)}}

-----------------------------------------------------------------------------
(* What a module imports.  A statement is an import or re-export [k, spec, *)
(* typeOnly, names, namespace] with names a set of [name, typeOnly], a     *)
(* call import() or require() [k, spec], or a use [k, local, name] of a    *)
(* member of a namespace import.                                           *)

\* parseModule: the names taken from each specifier imported at runtime.
ParseModule(statements) ==
  LET all    == Range(statements)
      froms  == {s \in all : s.k \in {"import", "export"} /\ ~s.typeOnly}
      calls  == {s \in all : s.k = "call"}
      specs  == {s.spec : s \in froms \cup calls}
      named(s) == {n.name : n \in {m \in s.names : ~m.typeOnly}}
      used(s)  == {u.name : u \in {v \in all : v.k = "use" /\ v.local = s.namespace}}
      taken(s) == CASE s.k = "call" -> {All}
                    [] s.k = "export" -> IF s.names = {} THEN {All} ELSE named(s)
                    [] s.k = "import" -> named(s) \cup IF s.namespace = Null THEN {} ELSE used(s)
  IN [p \in specs |-> UNION {taken(s) : s \in {t \in froms \cup calls : t.spec = p}}]

-----------------------------------------------------------------------------
(* Resolution                                                              *)

\* resolveSourceFile: the path itself, the TypeScript file behind a path
\* written for its output, the path with an extension, a directory's index.
ResolveSourceFile(files, base) ==
  LET with(p, exts)  == [n \in DOMAIN exts |-> [p EXCEPT !.ext = exts[n]]]
      index          == [dir |-> Append(base.dir, base.stem), stem |-> "index", mark |-> Null, ext |-> Null]
      candidates     == IF base.ext = Null THEN with(base, CodeExtensions) \o with(index, CodeExtensions)
                        ELSE <<base>> \o IF base.ext \in {"js", "jsx", "mjs", "cjs"}
                                         THEN with(base, <<"ts", "tsx", "mts", "cts">>) ELSE <<>>
  IN FirstOf(candidates, LAMBDA f : f \in files)

\* The file of the first of some paths that has one.
FirstFile(files, paths) ==
  FoldLeft(LAMBDA found, p : IF found # Null THEN found ELSE ResolveSourceFile(files, p), Null, paths)

\* readPathAliases: [pattern, star, targets] of a tsconfig and of those it
\* extends or references, each read once; the longest pattern first.
ReadPathAliases(configs, start) ==
  LET aliases == UNION {Range(configs[c].paths) : c \in DOMAIN configs}
      load[s \in [seen : SUBSET DOMAIN configs, entries : Seq(aliases)], c \in DOMAIN configs] ==
        FoldLeft(LAMBDA t, d : IF d \in t.seen \/ d \notin DOMAIN configs THEN t ELSE load[t, d],
                 [seen |-> s.seen \cup {c}, entries |-> s.entries \o configs[c].paths],
                 configs[c].extends \o configs[c].references)
      found == IF start \in DOMAIN configs THEN load[[seen |-> {}, entries |-> <<>>], start].entries ELSE <<>>
      order == SortSeq([n \in DOMAIN found |-> n],
                       LAMBDA a, b : \/ Len(found[a].pattern) > Len(found[b].pattern)
                                     \/ Len(found[a].pattern) = Len(found[b].pattern) /\ a < b)
  IN [n \in DOMAIN order |-> found[order[n]]]

\* workspaceOf: the deepest workspace that holds a file.
WorkspaceOf(workspaces, file) ==
  LET holding == {w \in workspaces : IsPrefix(w.dir, file.dir)}
  IN IF holding = {} THEN Null ELSE CHOOSE w \in holding : \A v \in holding : Len(v.dir) <= Len(w.dir)

Segments(path) == Append(path.dir, path.stem)
AtPath(segs, path) == [path EXCEPT !.dir = Front(segs), !.stem = Last(segs)]

\* packageFor: the workspace a bare specifier names, the longest name first.
PackageFor(workspaces, path) ==
  LET named == {w \in workspaces : w.name # Null /\ IsPrefix(w.name, Segments(path))}
  IN IF named = {} THEN Null ELSE CHOOSE w \in named : \A v \in named : Len(v.name) <= Len(w.name)

\* A path inside a package, and the source a path into its output stands for:
\* that of a declaration file is the file it declares.
Inside(w, target) == [target EXCEPT !.dir = w.dir \o @]
Source(w, target) ==
  [target EXCEPT !.dir = w.dir \o <<"src">> \o Tail(@),
                 !.mark = IF @ = "d" THEN Null ELSE @,
                 !.ext = IF target.mark = "d" \/ target.ext \in {"js", "cjs", "mjs"} THEN Null ELSE @]

\* resolvePackage.  exports maps a subpath to its targets in the order of
\* conditions, wild has [prefix, targets] for keys with a star, fields are
\* the entry fields of the manifest in their order.
ResolvePackage(files, w, path) ==
  LET sub     == SubSeq(Segments(path), Len(w.name) + 1, Len(Segments(path)))
      plain   == [dir |-> <<>>, stem |-> "index", mark |-> Null, ext |-> Null]
      below(dir) == AtPath(dir \o sub, path)
      starred(x) == [n \in DOMAIN x.targets |-> AtPath(x.targets[n].dir \o SubSeq(sub, Len(x.prefix) + 1, Len(sub)), x.targets[n])]
      listed  == IF sub \in DOMAIN w.exports THEN w.exports[sub]
                 ELSE FoldLeft(LAMBDA c, x : IF IsStrictPrefix(x.prefix, sub) THEN c \o starred(x) ELSE c, <<>>, w.wild)
      candidates == listed \o IF sub = <<>> THEN w.fields \o <<[plain EXCEPT !.dir = <<"src">>], plain>>
                              ELSE <<below(<<>>), below(<<"src">>)>>
      \* A declaration found gives way to the source of the path, then to its own.
      Behind(direct, source) ==
        IF source # Null \/ direct = Null THEN source
        ELSE ResolveSourceFile(files, [direct EXCEPT !.mark = Null, !.ext = Null])
      Or(direct, t) ==
        IF direct # Null /\ direct.mark # "d" THEN direct
        ELSE Behind(direct, IF t.dir # <<>> /\ t.dir[1] \in {"dist", "build", "lib"}
                            THEN ResolveSourceFile(files, Source(w, t)) ELSE Null)
  IN FoldLeft(LAMBDA found, t : IF found # Null THEN found ELSE Or(ResolveSourceFile(files, Inside(w, t)), t),
              Null, candidates)

\* resolve.  aliases is ReadPathAliases of the workspace of the file.
Resolve(files, workspaces, aliases, from, spec) ==
  LET w    == WorkspaceOf(workspaces, from)
      segs == Segments(spec.path)
      matches(e) == IF e.star THEN IsStrictPrefix(e.pattern, segs) ELSE e.pattern = segs
      fits == IF w = Null THEN <<>> ELSE SelectSeq(aliases[w.dir], matches)
      onto(e, t) == IF e.star THEN AtPath(Segments(t) \o SubSeq(segs, Len(e.pattern) + 1, Len(segs)), spec.path) ELSE t
      aliased == FoldLeft(LAMBDA c, e : c \o [n \in DOMAIN e.targets |-> onto(e, e.targets[n])], <<>>, fits)
      conventional == IF w # Null /\ segs[1] = "@" THEN <<AtPath(w.dir \o <<"src">> \o Tail(segs), spec.path)>> ELSE <<>>
      p     == PackageFor(workspaces, spec.path)
      paths == CASE spec.k = "root" -> <<spec.path>>
                 [] spec.k = "relative" ->
                      IF spec.up > Len(from.dir) THEN <<>>
                      ELSE <<[spec.path EXCEPT !.dir = SubSeq(from.dir, 1, Len(from.dir) - spec.up) \o @]>>
                 [] spec.k = "bare" -> aliased \o conventional
      Or(found) == IF found # Null \/ spec.k # "bare" \/ p = Null THEN found ELSE ResolvePackage(files, p, spec.path)
  IN Or(FirstFile(files, paths))
=============================================================================
