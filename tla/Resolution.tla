----------------------------- MODULE Resolution -----------------------------
(***************************************************************************)
(* The whole-graph resolution of a MemoryGraph (resolve_all and the ladder *)
(* under it, src/memory.rs) between the ingests that feed it, the paging   *)
(* that hides part of the graph from it and the reloads that make it       *)
(* forget what it had parsed.                                              *)
(*                                                                         *)
(* Files are numbered in the order of their paths, and Key[f] is what      *)
(* crate_and_module makes of the path. A path of a use or of a call is a   *)
(* sequence of segments. What a lookup finds is a set of at most one       *)
(* element. The links between a file and its own nodes, that no resolution *)
(* owns, are left out; the list of links is a set.                         *)
(***************************************************************************)
EXTENDS Integers, FiniteSets, SequencesExt

CONSTANTS
  Key,       \* Key[f] = <<crate, module>>, module a sequence of segments
  Decl,      \* Decl[f][v]: what the parser finds in version v of file f
  Pageable   \* bound: the nodes that paging may demote

Files == DOMAIN Key
Versions(f) == DOMAIN Decl[f]

NoDecl == [fns |-> {}, data |-> {}, methods |-> {}, uses |-> {},
           aliases |-> [x \in {} |-> <<>>], calls |-> {}, refs |-> {}]

\* A path has a first segment.
Paths == Seq(STRING) \ {<<>>}

ASSUME KeyAssumption ==
  Files = 1..Len(Key) /\ \A f \in Files : Len(Key[f]) = 2
ASSUME DeclAssumption ==
  \A f \in Files : \A v \in Versions(f) :
    /\ v \in Nat \ {0}
    /\ DOMAIN Decl[f][v] = DOMAIN NoDecl
    /\ Decl[f][v].fns \cap Decl[f][v].data = {}
    /\ \A s \in Decl[f][v].calls : s[2] \in Paths
    /\ \A x \in DOMAIN Decl[f][v].aliases : Decl[f][v].aliases[x] \in Paths

VARIABLES
  res,      \* the resident nodes
  cold,     \* cold[n]: the links archived on the COLD node n
  edges,    \* the links <<from, to, type>> between resident nodes
  parsed,   \* parsed[f]: the version of f parsed in this process, 0 for none:
            \*   pending_calls, _data_refs, _aliases and _methods of f
  marks,    \* data_symbols: the symbols marked as a static or a const
  src,      \* src[f]: the version of f that sources holds, 0 for none
  dirty,    \* needs_resolution
  paged,    \* observed: a node has been demoted
  loaded,   \* observed: the memory has been reloaded
  returned  \* observed: the links that a page-in brought back

vars == <<res, cold, edges, parsed, marks, src, dirty, paged, loaded, returned>>

-----------------------------------------------------------------------------
(* Nodes *)

File(f) == <<"file", f, <<>>>>
Use(f, p) == <<"use", f, p>>
Sym(f, name) == <<"sym", f, <<name>>>>

\* The nodes that update_memory_graph upserts for version v of f.
Nodes(f, v) ==
  {File(f)} \cup {Use(f, p) : p \in Decl[f][v].uses}
            \cup {Sym(f, x) : x \in Decl[f][v].fns \cup Decl[f][v].data}

Marked(f, v) == {Sym(f, x) : x \in Decl[f][v].data}

\* A graph as the resolution reads it: its resident nodes, its pending facts
\* and its marks.
Pending(ps) == [f \in Files |-> IF ps[f] = 0 THEN NoDecl ELSE Decl[f][ps[f]]]
Graph(N, ps, M) == [res |-> N, decl |-> Pending(ps), marks |-> M]

Symbols(g) == {n \in g.res : n[1] = "sym"}
DataSymbols(g) == g.marks \cap g.res
Uses(g, f) == {n[3] : n \in {n \in g.res : n[1] = "use" /\ n[2] = f}}

-----------------------------------------------------------------------------
(* Lookups *)

\* What a lookup finds, where it finds only one.
Only(S) == {x \in S : S = {x}}

\* The indices are filled in the order of the paths: the last file wins.
LastOf(S) == {f \in S : \A h \in S : h <= f}

FileAt(g, key) == LastOf({f \in Files : File(f) \in g.res /\ Key[f] = key})

\* defs, over the symbols syms.
Defs(syms, key, name) ==
  {Sym(f, name) : f \in LastOf({f \in Files : Key[f] = key /\ Sym(f, name) \in syms})}

\* parse_modpath, from crate c.
ModPath(c, p) ==
  IF Head(p) \in {"crate", "self", "super"} THEN <<c, Tail(p)>> ELSE <<Head(p), Tail(p)>>

\* resolve_use: the longest prefix that is a module, of another crate its root too.
ResolveUse(g, c, p) ==
  LET t == ModPath(c, p)
      key(len) == <<t[1], SubSeq(t[2], 1, len)>>
      found == {len \in (IF t[1] = c THEN 1 ELSE 0)..Len(t[2]) : FileAt(g, key(len)) # {}}
  IN UNION {FileAt(g, key(len)) : len \in LastOf(found)}

\* resolve_bare_modpath: a sub-module of the caller's own crate.
BareModPath(g, syms, c, prefix, name) ==
  IF FileAt(g, <<c, prefix>>) = {} THEN {} ELSE Defs(syms, <<c, prefix>>, name)

\* resolve_qualified
Qualified(g, syms, f, p) ==
  LET c == Key[f][1]
      prefix == Front(p)
      hits == {u \in Uses(g, f) : Last(u) = Head(prefix)}
      \* resolve_module_exact, then the symbol of its file
      InModule(abs) ==
        UNION {Defs(syms, Key[d], Last(p)) : d \in FileAt(g, ModPath(c, abs))}
  IN IF Head(prefix) = "crate" THEN InModule(prefix)
     ELSE IF hits = {} THEN BareModPath(g, syms, c, prefix, Last(p))
     ELSE UNION {InModule(u \o Tail(prefix)) : u \in Only(hits)}

\* The ladder of a bare name: its imports, the own module, a unique symbol.
Bare(g, syms, f, name) ==
  LET c == Key[f][1]
      imports == {u \in Uses(g, f) : Last(u) = name /\ Len(u) > 1}
      cands == UNION {Defs(syms, Key[d], name) :
                        d \in UNION {ResolveUse(g, c, Front(u)) : u \in imports}}
      own == Defs(syms, Key[f], name)
  IN IF cands # {} THEN Only(cands)
     ELSE IF own # {} THEN own
     ELSE Only({s \in syms : s[3] = <<name>>})

\* A renamed import, applied once.
Unaliased(g, f, p) ==
  LET aliases == g.decl[f].aliases
  IN IF Head(p) \in DOMAIN aliases THEN aliases[Head(p)] \o Tail(p) ELSE p

Owners(g, p) == {f \in Files : <<p[1], p[2]>> \in g.decl[f].methods}

\* Fault: a homonym counts only while its symbol is resident.
ResidentTypeHit(g, p) == Only({Sym(f, p[2]) : f \in Owners(g, p)} \cap g.res)

\* type_method and tm_count: the owners are counted whether resident or not.
TypeHit(g, p) == {Sym(f, p[2]) : f \in Only(Owners(g, p))} \cap g.res

\* resolve_call: a path of two segments reads as module::name and Type::method.
ResolveCall(g, f, path) ==
  LET p == Unaliased(g, f, path)
      syms == Symbols(g)
  IN IF Len(p) = 1 THEN Bare(g, syms, f, p[1])
     ELSE IF p[1] = "Self" THEN IF Len(p) = 2 THEN Defs(syms, Key[f], p[2]) ELSE {}
     ELSE Only(Qualified(g, syms, f, p) \cup (IF Len(p) = 2 THEN TypeHit(g, p) ELSE {}))

ResolveRef(g, f, path) ==
  LET p == Unaliased(g, f, path)
  IN IF Len(p) = 1 THEN Bare(g, DataSymbols(g), f, p[1])
     ELSE Qualified(g, DataSymbols(g), f, p)

-----------------------------------------------------------------------------
(* The three passes *)

LinkModuleImports(g) ==
  LET resident == {f \in Files : File(f) \in g.res}
      indexed == {f \in resident : f \in FileAt(g, Key[f])}
      imported(f) == (UNION {ResolveUse(g, Key[f][1], u) : u \in Uses(g, f)}) \ {f}
      parent(f) == IF Key[f][2] = <<>> THEN {}
                   ELSE FileAt(g, <<Key[f][1], Front(Key[f][2])>>) \ {f}
      imports == {{<<File(f), File(t), "DependsOn">> : t \in imported(f)} : f \in resident}
      hierarchy == {{<<File(t), File(f), "Contains">> : t \in parent(f)} : f \in indexed}
  IN UNION (imports \cup hierarchy)

\* The links of a set of sites <<symbol, path>> of file f, resolved by Target.
Links(g, f, sites, Target(_, _, _), type) ==
  UNION {{<<Sym(f, s[1]), t, type>> : t \in Target(g, f, s[2]) \ {Sym(f, s[1])}} :
           s \in {s \in sites : Sym(f, s[1]) \in g.res}}

ResolveSymbolCalls(g) ==
  UNION {Links(g, f, g.decl[f].calls, ResolveCall, "Calls") : f \in Files}

ResolveDataFlow(g) ==
  UNION {Links(g, f, g.decl[f].refs, ResolveRef, "DataFlow") : f \in Files}

Hierarchy(E) == {e \in E : e[1][1] = "file"}

\* Fault: every Calls link is pruned, those that cannot be rebuilt too.
PrunedWhole(g, E) == {e \in E \ Hierarchy(E) : e[3] = "DataFlow" /\ g.decl[e[1][2]].refs = {}}

\* Fault: only the links between files are pruned.
PrunedImports(g, E) == E \ Hierarchy(E)

\* prune_resolution_edges: what the passes are about to rebuild.
Pruned(g, E) ==
  {e \in E \ Hierarchy(E) : (IF e[3] = "Calls" THEN g.decl[e[1][2]].calls
                                               ELSE g.decl[e[1][2]].refs) = {}}

ResolveAll(g, E) ==
  Pruned(g, E) \cup LinkModuleImports(g) \cup ResolveSymbolCalls(g) \cup ResolveDataFlow(g)

-----------------------------------------------------------------------------
(* Actions *)

Init ==
  /\ res = {} /\ edges = {} /\ marks = {} /\ returned = {}
  /\ cold = [n \in {} |-> {}]
  /\ parsed = [f \in Files |-> 0]
  /\ src = [f \in Files |-> 0]
  /\ dirty = FALSE /\ paged = FALSE /\ loaded = FALSE

Touching(E, S) == {e \in E : e[1] \in S \/ e[2] \in S}

Without(g, S) == [n \in DOMAIN g \ S |-> g[n]]

\* Fault: the symbols of the former version stay.
EvictFileNode(f) == {File(f)} \cap res

\* evict_file_nodes: it looks for the nodes of the file among the resident ones.
EvictFileNodes(f) == {n \in res : n[2] = f}

\* process_delta: the same source changes nothing, another one first evicts the
\* nodes of the file; upsert_node forgets the COLD shadow of what it brings.
ProcessDelta(f, v) ==
  IF src[f] = v
  THEN /\ UNCHANGED <<res, cold, marks, parsed, src>>
       /\ edges' = edges
  ELSE LET evicted == IF src[f] = 0 THEN {} ELSE EvictFileNodes(f)
       IN /\ res' = (res \ evicted) \cup Nodes(f, v)
          /\ cold' = Without(cold, Nodes(f, v))
          /\ edges' = edges \ Touching(edges, evicted)
          /\ marks' = marks \cup Marked(f, v)
          /\ parsed' = [parsed EXCEPT ![f] = v]
          /\ src' = [src EXCEPT ![f] = v]

\* ingest_deferred
IngestDeferred(f, v) ==
  /\ ProcessDelta(f, v)
  /\ returned' = returned \cap edges'
  /\ dirty' = TRUE
  /\ UNCHANGED <<paged, loaded>>

\* resolve, that does nothing when no ingest is pending.
Resolve ==
  /\ dirty
  /\ edges' = ResolveAll(Graph(res, parsed, marks), edges)
  /\ returned' = returned \cap edges'
  /\ dirty' = FALSE
  /\ UNCHANGED <<res, cold, parsed, marks, src, paged, loaded>>

\* checkpoint, which resolves first, and open: only nodes, links, COLD entries
\* and sources are in a snapshot.
Reload ==
  /\ ~dirty
  /\ parsed' = [f \in Files |-> 0]
  /\ marks' = {}
  /\ loaded' = TRUE
  /\ UNCHANGED <<res, cold, edges, src, dirty, paged, returned>>

\* demote, whichever node enforce_paging or a page-in picks.
Demote(n) ==
  /\ n \in res
  /\ res' = res \ {n}
  /\ cold' = [m \in DOMAIN cold \cup {n} |->
                IF m = n THEN Touching(edges, {n}) ELSE cold[m]]
  /\ edges' = edges \ Touching(edges, {n})
  /\ returned' = returned \cap edges'
  /\ paged' = TRUE
  /\ UNCHANGED <<parsed, marks, src, dirty, loaded>>

Other(e, n) == IF e[1] = n THEN e[2] ELSE e[1]

\* page_in: a link to a resident node is restored, one to a COLD node handed to
\* it, any other is stale.
PageIn(n) ==
  LET relinked == {e \in cold[n] : Other(e, n) \in res}
  IN /\ n \in DOMAIN cold
     /\ res' = res \cup {n}
     /\ edges' = edges \cup relinked
     /\ cold' = [m \in DOMAIN cold \ {n} |->
                   cold[m] \cup {e \in cold[n] : Other(e, n) = m}]
     /\ returned' = returned \cup relinked
     /\ UNCHANGED <<parsed, marks, src, dirty, paged, loaded>>

Next ==
  \/ \E f \in Files : \E v \in Versions(f) : IngestDeferred(f, v)
  \/ Resolve
  \/ Reload
  \/ \E n \in Pageable : Demote(n) \/ PageIn(n)

Spec == Init /\ [][Next]_vars

-----------------------------------------------------------------------------
(* Properties *)

Live == Graph(res, parsed, marks)

\* The graph a fresh process builds from the sources alone, in one batch.
Fresh == Graph(UNION {Nodes(f, src[f]) : f \in {f \in Files : src[f] # 0}}, src,
               UNION {Marked(f, src[f]) : f \in {f \in Files : src[f] # 0}})

(* Until something was demoted or reloaded, the resolved links are those that *)
(* a fresh process resolves from the current sources in one batch, whatever   *)
(* the order, the number and the grouping of the ingests: resolve_all is a    *)
(* pure function of the final state. The one thing a history leaves behind is *)
(* the mark of a symbol that was a static or a const in an earlier version.   *)
ResolvedFromSources ==
  ~dirty /\ ~paged /\ ~loaded /\ DataSymbols(Live) = DataSymbols(Fresh)
    => edges = ResolveAll(Fresh, {})

(* The sites of a file loaded from a snapshot are gone, so nothing could      *)
(* rebuild its call and data links: no resolution and no ingest takes one     *)
(* away, but for the ingest of another version of the file at one of its ends *)
(* (which loses the links into that file: see the README).                    *)
LoadedLinksSurvive ==
  [][\A e \in edges \ Hierarchy(edges) :
       parsed[e[1][2]] = 0 /\ {e[1], e[2]} \cap DOMAIN cold' = {} =>
         e \in edges' \/ \E f \in {e[1][2], e[2][2]} : src'[f] # src[f]]_vars

\* Path p of file f, an alias expanded, reads as symbol t in only one way.
ReadsAs(g, f, p, t) ==
  \/ Len(p) = 1 /\ Key[t[2]] = Key[f]
  \/ Len(p) = 1 /\ \E u \in Uses(g, f) : Last(u) = p[1]
  \/ Len(p) = 1 /\ \A s \in Symbols(g) : s[3] = t[3] => s = t
  \/ Len(p) = 2 /\ p[1] = "Self" /\ Key[t[2]] = Key[f]
  \/ Len(p) = 2 /\ {h \in Files : <<p[1], p[2]>> \in g.decl[h].methods} = {t[2]}
  \/ Len(p) > 1 /\ Key[t[2]] = ModPath(Key[f][1], <<"crate">> \o Front(p))
  \/ Len(p) > 1 /\ p[1] = "crate" /\ Key[t[2]] = ModPath(Key[f][1], Front(p))
  \/ Len(p) > 1 /\ \E u \in Uses(g, f) :
       Last(u) = p[1] /\ Key[t[2]] = ModPath(Key[f][1], u \o Tail(Front(p)))

(* No wrong link is invented: every call link that a resolution adds is       *)
(* named by a call site of its source that reads as its target in only one    *)
(* way, even while other definitions of the name are COLD: a method that two  *)
(* files define for one type name is ambiguous, resident or not.              *)
LinksAreGrounded ==
  [][dirty /\ ~dirty' =>
       \A e \in edges' \ edges : e[3] = "Calls" =>
         \E s \in Live.decl[e[1][2]].calls :
           LET p == Unaliased(Live, e[1][2], s[2])
           IN /\ Sym(e[1][2], s[1]) = e[1]
              /\ e[2][3] = <<Last(p)>>
              /\ ReadsAs(Live, e[1][2], p, e[2])]_vars

(* A call link of a parsed file that its parsed version does not name is      *)
(* there only because a page-in brought it back from an earlier version: no   *)
(* order of ingests, evictions, resolutions and reloads leaves one behind.    *)
OnlyPageInIsStale ==
  \A e \in edges \ returned : e[3] = "Calls" /\ parsed[e[1][2]] # 0 =>
    \E s \in Live.decl[e[1][2]].calls :
      /\ Sym(e[1][2], s[1]) = e[1]
      /\ e[2][3] = <<Last(Unaliased(Live, e[1][2], s[2]))>>

=============================================================================
