-------------------------- MODULE ResolutionProofs --------------------------
(***************************************************************************)
(* Resolution proved, for any files, names, versions of their sources,     *)
(* layout of the crate and nodes that may be paged: the links that a       *)
(* resolution makes are a function of the current sources whatever was     *)
(* demoted, paged in or deferred on the way; only a page-in leaves a call  *)
(* link its file no longer names; no resolution invents a call link or     *)
(* drops a link that it could not make again.                              *)
(***************************************************************************)
EXTENDS Resolution, SequenceTheorems, TLAPS

-----------------------------------------------------------------------------
(* Lookups *)

(* A definition that is found is a symbol of the module asked for, by the    *)
(* name asked for; and so on.                                                *)
LEMMA DefsAre ==
  ASSUME NEW syms, NEW key, NEW name, NEW t \in Defs(syms, key, name)
  PROVE  /\ t \in syms /\ t[1] = "sym" /\ t[2] \in Files
         /\ t[3] = <<name>> /\ Key[t[2]] = key
<1>1. PICK h \in Files : Key[h] = key /\ Sym(h, name) \in syms /\ t = Sym(h, name)
  BY DEF Defs, LastOf
<1>2. t[1] = "sym" /\ t[2] = h /\ t[3] = <<name>>
  BY <1>1 DEF Sym
<1> QED
  BY <1>1, <1>2

(* A file that is found at a place is there, and it is the one of that place. *)
LEMMA FileAtIs ==
  ASSUME NEW g, NEW key, NEW d \in FileAt(g, key)
  PROVE  d \in Files /\ File(d) \in g.res /\ Key[d] = key
  BY DEF FileAt, LastOf

(* The only one of a set is all of it.                                       *)
LEMMA OnlyIs ==
  ASSUME NEW S, NEW x \in Only(S)
  PROVE  S = {x} /\ x \in S
  BY DEF Only

(* A qualified path is its prefix and its last segment; its prefix, taken    *)
(* from the root of the crate, is itself.                                    *)
LEMMA PrefixOfPath ==
  ASSUME NEW p \in Paths, Len(p) > 1
  PROVE  /\ Head(Front(p)) = p[1]
         /\ Head(<<"crate">> \o Front(p)) = "crate"
         /\ Tail(<<"crate">> \o Front(p)) = Front(p)
<1> DEFINE q == Front(p)
           n == Len(p)
           r == <<"crate">> \o q
           S == STRING \cup {"crate"}
<1>1. p \in Seq(S) /\ n \in Nat /\ n > 1
  BY SeqMonotonic, LenProperties DEF Paths
<1>2. \A i \in 1..(n - 1) : p[i] \in S
  BY <1>1, ElementOfSeq
<1>3. /\ q \in Seq(S) /\ Len(q) = n - 1
      /\ \A i \in 1..(n - 1) : q[i] = p[i]
  BY <1>1, <1>2, SubSeqProperties DEF Front
<1> HIDE DEF q, n
<1>4. Head(q) = p[1]
  BY <1>1, <1>3
<1>5. <<"crate">> \in Seq(S) /\ Len(<<"crate">>) = 1
  OBVIOUS
<1>6. /\ r \in Seq(S) /\ Len(r) = n
      /\ \A i \in 1..n : r[i] = IF i <= 1 THEN "crate" ELSE q[i - 1]
  BY <1>1, <1>3, <1>5, ConcatProperties
<1>7. Head(r) = "crate"
  BY <1>1, <1>6
<1> HIDE DEF r
<1>8. Tail(r) = q
  <2>1. r # <<>>
    BY <1>1, <1>6
  <2>2. /\ Tail(r) \in Seq(S) /\ Len(Tail(r)) = n - 1
        /\ \A i \in 1..(n - 1) : Tail(r)[i] = r[i + 1]
    BY <1>6, <2>1, HeadTailProperties
  <2>3. \A i \in 1..(n - 1) : Tail(r)[i] = q[i]
    BY <1>1, <1>6, <2>2
  <2> QED
    BY <1>3, <2>2, <2>3, SeqEqual
<1> QED
  BY <1>3, <1>4, <1>7, <1>8 DEF q, r

(* A bare name that is found is found by that name, and read in one way.     *)
LEMMA BareFinds ==
  ASSUME NEW g, NEW syms, NEW f, NEW name, NEW t \in Bare(g, syms, f, name)
  PROVE  /\ t \in syms /\ t[3] = <<name>>
         /\ \/ Key[t[2]] = Key[f]
            \/ \E u \in Uses(g, f) : Last(u) = name
            \/ \A s \in syms : s[3] = t[3] => s = t
<1> DEFINE imports == {u \in Uses(g, f) : Last(u) = name /\ Len(u) > 1}
           cands == UNION {Defs(syms, Key[d], name) :
                       d \in UNION {ResolveUse(g, Key[f][1], Front(u)) : u \in imports}}
           own == Defs(syms, Key[f], name)
           named == {s \in syms : s[3] = <<name>>}
<1>1. \/ cands # {} /\ t \in Only(cands)
      \/ t \in own
      \/ t \in Only(named)
  BY DEF Bare
<1>2. CASE cands # {} /\ t \in Only(cands)
  <2>1. t \in cands
    BY <1>2, OnlyIs
  <2>2. PICK d : t \in Defs(syms, Key[d], name)
    BY <2>1
  <2>3. \E u \in imports : TRUE
    BY <2>1
  <2> QED
    BY <2>2, <2>3, DefsAre
<1>3. CASE t \in own
  BY <1>3, DefsAre
<1>4. CASE t \in Only(named)
  <2>1. named = {t} /\ t \in named
    BY <1>4, OnlyIs
  <2>2. t \in syms /\ t[3] = <<name>>
    BY <2>1
  <2>3. \A s \in syms : s[3] = t[3] => s = t
    BY <2>1, <2>2
  <2> QED
    BY <2>2, <2>3
<1> QED
  BY <1>1, <1>2, <1>3, <1>4

(* So is a qualified path.                                                   *)
LEMMA QualifiedFinds ==
  ASSUME NEW g, NEW syms, NEW f, NEW p, NEW t \in Qualified(g, syms, f, p)
  PROVE  /\ t \in syms /\ t[3] = <<Last(p)>> /\ t[1] = "sym" /\ t[2] \in Files
         /\ \/ Key[t[2]] = <<Key[f][1], Front(p)>>
            \/ /\ Head(Front(p)) = "crate"
               /\ Key[t[2]] = ModPath(Key[f][1], Front(p))
            \/ \E u \in Uses(g, f) :
                 /\ Last(u) = Head(Front(p))
                 /\ Key[t[2]] = ModPath(Key[f][1], u \o Tail(Front(p)))
<1> DEFINE c == Key[f][1]
           prefix == Front(p)
           hits == {u \in Uses(g, f) : Last(u) = Head(prefix)}
           InModule(abs) ==
             UNION {Defs(syms, Key[d], Last(p)) : d \in FileAt(g, ModPath(c, abs))}
<1>1. \/ Head(prefix) = "crate" /\ t \in InModule(prefix)
      \/ t \in BareModPath(g, syms, c, prefix, Last(p))
      \/ \E u \in Only(hits) : t \in InModule(u \o Tail(prefix))
  BY DEF Qualified
<1>2. ASSUME NEW abs, t \in InModule(abs)
      PROVE  /\ t \in syms /\ t[3] = <<Last(p)>> /\ t[1] = "sym" /\ t[2] \in Files
             /\ Key[t[2]] = ModPath(c, abs)
  <2>1. PICK d \in FileAt(g, ModPath(c, abs)) : t \in Defs(syms, Key[d], Last(p))
    BY <1>2
  <2> QED
    BY <2>1, DefsAre, FileAtIs
<1> HIDE DEF InModule, hits
<1>3. CASE Head(prefix) = "crate" /\ t \in InModule(prefix)
  BY <1>2, <1>3
<1>4. CASE t \in BareModPath(g, syms, c, prefix, Last(p))
  <2>1. t \in Defs(syms, <<c, prefix>>, Last(p))
    BY <1>4 DEF BareModPath
  <2> QED
    BY <2>1, DefsAre
<1>5. ASSUME NEW u \in Only(hits), t \in InModule(u \o Tail(prefix))
      PROVE  /\ t \in syms /\ t[3] = <<Last(p)>> /\ t[1] = "sym" /\ t[2] \in Files
             /\ u \in Uses(g, f) /\ Last(u) = Head(prefix)
             /\ Key[t[2]] = ModPath(c, u \o Tail(prefix))
  <2>1. u \in hits
    BY OnlyIs
  <2> QED
    BY <1>2, <1>5, <2>1 DEF hits
<1> QED
  BY <1>1, <1>3, <1>4, <1>5

(* What ResolveCall finds is a resident symbol, named by the last segment of *)
(* the path, an alias expanded, which reads as it in only one way.           *)
LEMMA ResolveCallFinds ==
  ASSUME NEW g, NEW f \in Files, NEW path, NEW p, p = Unaliased(g, f, path), p \in Paths,
         NEW t \in ResolveCall(g, f, path)
  PROVE  /\ t \in g.res /\ t[3] = <<Last(p)>> /\ ReadsAs(g, f, p, t)
<1> DEFINE syms == Symbols(g)
<1>0. syms \subseteq g.res
  BY DEF Symbols
<1>1. Len(p) = 1 \/ Len(p) > 1
  <2>1. Len(p) \in Nat /\ Len(p) # 0
    BY LenProperties, EmptySeq DEF Paths
  <2>2. \A n \in Nat \ {0} : n = 1 \/ n > 1
    OBVIOUS
  <2> QED
    BY <2>1, <2>2, Zenon
<1>2. Len(p) = 1 => Last(p) = p[1]
  BY DEF Last
<1>3. Len(p) = 2 => Last(p) = p[2]
  BY DEF Last
<1>4. CASE Len(p) = 1
  <2>1. t \in Bare(g, syms, f, p[1])
    BY <1>4 DEF ResolveCall
  <2>2. /\ t \in syms /\ t[3] = <<p[1]>>
        /\ \/ Key[t[2]] = Key[f]
           \/ \E u \in Uses(g, f) : Last(u) = p[1]
           \/ \A s \in syms : s[3] = t[3] => s = t
    BY <2>1, BareFinds
  <2> HIDE DEF syms
  <2> QED
    BY <1>0, <1>2, <1>4, <2>2 DEF ReadsAs, syms
<1>5. CASE Len(p) # 1 /\ p[1] = "Self"
  <2>1. Len(p) = 2 /\ t \in Defs(syms, Key[f], p[2])
    BY <1>5 DEF ResolveCall
  <2> QED
    BY <1>0, <1>3, <1>5, <2>1, DefsAre DEF ReadsAs
<1>6. CASE Len(p) # 1 /\ p[1] # "Self"
  <2>0. Len(p) > 1
    BY <1>1, <1>6
  <2>1. \/ t \in Qualified(g, syms, f, p)
        \/ Len(p) = 2 /\ t \in TypeHit(g, p)
    BY <1>6, OnlyIs DEF ResolveCall
  <2>2. CASE t \in Qualified(g, syms, f, p)
    <3> DEFINE c == Key[f][1]
    <3>1. /\ Head(Front(p)) = p[1]
          /\ Head(<<"crate">> \o Front(p)) = "crate"
          /\ Tail(<<"crate">> \o Front(p)) = Front(p)
      BY <2>0, PrefixOfPath
    <3>2. ModPath(c, <<"crate">> \o Front(p)) = <<c, Front(p)>>
      BY <3>1 DEF ModPath
    <3>3. /\ t \in syms /\ t[3] = <<Last(p)>>
          /\ \/ Key[t[2]] = <<c, Front(p)>>
             \/ /\ Head(Front(p)) = "crate"
                /\ Key[t[2]] = ModPath(c, Front(p))
             \/ \E u \in Uses(g, f) :
                  /\ Last(u) = Head(Front(p))
                  /\ Key[t[2]] = ModPath(c, u \o Tail(Front(p)))
      BY <2>2, QualifiedFinds
    <3> HIDE DEF syms
    <3>4. ReadsAs(g, f, p, t)
      BY <2>0, <3>1, <3>2, <3>3, Zenon DEF ReadsAs
    <3> QED
      BY <1>0, <3>3, <3>4
  <2>3. CASE Len(p) = 2 /\ t \in TypeHit(g, p)
    <3>1. PICK h \in Only(Owners(g, p)) : t = Sym(h, p[2])
      BY <2>3 DEF TypeHit
    <3>2. Owners(g, p) = {h} /\ t[2] = h /\ t[3] = <<p[2]>> /\ t \in g.res
      BY <2>3, <3>1, OnlyIs DEF Sym, TypeHit
    <3>3. ReadsAs(g, f, p, t)
      BY <2>3, <3>2 DEF ReadsAs, Owners
    <3> QED
      BY <1>3, <2>3, <3>2, <3>3
  <2> QED
    BY <2>1, <2>2, <2>3
<1> QED
  BY <1>4, <1>5, <1>6

-----------------------------------------------------------------------------
(* What the passes make of a graph *)

(* What ResolveRef finds is resident.                                        *)
LEMMA ResolveRefFinds ==
  ASSUME NEW g, NEW f, NEW path, NEW t \in ResolveRef(g, f, path)
  PROVE  t \in g.res
<1> DEFINE p == Unaliased(g, f, path)
           syms == DataSymbols(g)
<1>1. t \in Bare(g, syms, f, p[1]) \/ t \in Qualified(g, syms, f, p)
  BY DEF ResolveRef
<1>2. t \in syms
  BY <1>1, BareFinds, QualifiedFinds
<1> QED
  BY <1>2 DEF DataSymbols

(* A call link comes of a call site, a data link of a reference, and a link  *)
(* between files joins files that are there.                                 *)
LEMMA CallLinks ==
  ASSUME NEW g, NEW e \in ResolveSymbolCalls(g)
  PROVE  \E f \in Files : \E s \in g.decl[f].calls : \E t \in ResolveCall(g, f, s[2]) :
           /\ e = <<Sym(f, s[1]), t, "Calls">> /\ Sym(f, s[1]) \in g.res
  BY DEF ResolveSymbolCalls, Links

LEMMA DataLinks ==
  ASSUME NEW g, NEW e \in ResolveDataFlow(g)
  PROVE  \E f \in Files : \E s \in g.decl[f].refs : \E t \in ResolveRef(g, f, s[2]) :
           /\ e = <<Sym(f, s[1]), t, "DataFlow">> /\ Sym(f, s[1]) \in g.res
  BY DEF ResolveDataFlow, Links

(* An import leads to files that are there.                                  *)
LEMMA ResolveUseFinds ==
  ASSUME NEW g, NEW c, NEW p, NEW t \in ResolveUse(g, c, p)
  PROVE  t \in Files /\ File(t) \in g.res
<1>1. \E key : t \in FileAt(g, key)
  BY DEF ResolveUse
<1> QED
  BY <1>1, FileAtIs

(* The links between files join files that are there.                        *)
LEMMA FileLinks ==
  ASSUME NEW g, NEW e \in LinkModuleImports(g)
  PROVE  \E f \in Files : \E t \in Files :
           /\ File(f) \in g.res /\ File(t) \in g.res
           /\ e \in {<<File(f), File(t), "DependsOn">>, <<File(f), File(t), "Contains">>}
<1> DEFINE resident == {f \in Files : File(f) \in g.res}
           indexed == {f \in resident : f \in FileAt(g, Key[f])}
           imported(f) == (UNION {ResolveUse(g, Key[f][1], u) : u \in Uses(g, f)}) \ {f}
           parent(f) == IF Key[f][2] = <<>> THEN {}
                        ELSE FileAt(g, <<Key[f][1], Front(Key[f][2])>>) \ {f}
<1>1. \/ e \in UNION {{<<File(f), File(t), "DependsOn">> : t \in imported(f)} : f \in resident}
      \/ e \in UNION {{<<File(t), File(f), "Contains">> : t \in parent(f)} : f \in indexed}
  BY DEF LinkModuleImports
<1>2. ASSUME NEW f \in resident, NEW t \in imported(f)
      PROVE  t \in Files /\ File(t) \in g.res
  BY ResolveUseFinds
<1>3. ASSUME NEW f \in indexed, NEW t \in parent(f)
      PROVE  t \in Files /\ File(t) \in g.res
  BY FileAtIs
<1> HIDE DEF imported, parent
<1> QED
  BY <1>1, <1>2, <1>3

(* The sources of the links.                                                 *)
LEMMA SourcesOfLinks ==
  ASSUME NEW f, NEW x, NEW t, NEW type
  PROVE  /\ <<Sym(f, x), t, type>>[1] = Sym(f, x) /\ <<Sym(f, x), t, type>>[2] = t
         /\ <<Sym(f, x), t, type>>[3] = type
         /\ Sym(f, x)[1] = "sym" /\ Sym(f, x)[2] = f
         /\ File(f)[1] = "file" /\ File(f)[2] = f
  BY DEF Sym, File

\* Every call site of a graph is a path once its alias is expanded.
ReadsPaths(g) == \A f \in Files : \A s \in g.decl[f].calls : Unaliased(g, f, s[2]) \in Paths

\* The call site s of the source of e reads as the target of e in only one way.
Grounds(g, e, s) ==
  LET p == Unaliased(g, e[1][2], s[2])
  IN /\ Sym(e[1][2], s[1]) = e[1]
     /\ e[2][3] = <<Last(p)>>
     /\ ReadsAs(g, e[1][2], p, e[2])

\* The sites whose resolution owns the link e.
Sites(g, e) == IF e[3] = "Calls" THEN g.decl[e[1][2]].calls ELSE g.decl[e[1][2]].refs

(* A resolution leaves what it cannot rebuild; what it adds joins nodes that *)
(* are there, and a call link has a site that it is grounded in.             *)
LEMMA ResolveAllAdds ==
  ASSUME NEW g, ReadsPaths(g), NEW E, NEW e \in ResolveAll(g, E), e \notin Pruned(g, E)
  PROVE  /\ e[1] \in g.res /\ e[2] \in g.res
         /\ e[3] = "Calls" => \E s \in g.decl[e[1][2]].calls : Grounds(g, e, s)
         /\ e[1][1] # "file" => Sites(g, e) # {}
<1>1. e \in LinkModuleImports(g) \/ e \in ResolveSymbolCalls(g) \/ e \in ResolveDataFlow(g)
  BY DEF ResolveAll
<1>2. CASE e \in LinkModuleImports(g)
  <2>1. PICK f \in Files, t \in Files :
           /\ File(f) \in g.res /\ File(t) \in g.res
           /\ e \in {<<File(f), File(t), "DependsOn">>, <<File(f), File(t), "Contains">>}
    BY <1>2, FileLinks
  <2>2. e[1] = File(f) /\ e[2] = File(t) /\ e[3] # "Calls"
    BY <2>1
  <2>3. e[1][1] = "file"
    BY <2>2 DEF File
  <2> QED
    BY <2>1, <2>2, <2>3
<1>3. CASE e \in ResolveSymbolCalls(g)
  <2>0. PICK f \in Files : \E s \in g.decl[f].calls : \E t \in ResolveCall(g, f, s[2]) :
           e = <<Sym(f, s[1]), t, "Calls">> /\ Sym(f, s[1]) \in g.res
    BY <1>3, CallLinks
  <2>1a. PICK s \in g.decl[f].calls : \E t \in ResolveCall(g, f, s[2]) :
           e = <<Sym(f, s[1]), t, "Calls">> /\ Sym(f, s[1]) \in g.res
    BY <2>0
  <2>1. PICK t \in ResolveCall(g, f, s[2]) :
           e = <<Sym(f, s[1]), t, "Calls">> /\ Sym(f, s[1]) \in g.res
    BY <2>1a
  <2>2. /\ e[1] = Sym(f, s[1]) /\ e[1][2] = f /\ e[2] = t /\ e[3] = "Calls"
    BY <2>1, SourcesOfLinks
  <2> DEFINE p == Unaliased(g, f, s[2])
  <2>3. t \in g.res /\ t[3] = <<Last(p)>> /\ ReadsAs(g, f, p, t)
    BY ResolveCallFinds DEF ReadsPaths
  <2>4. Grounds(g, e, s)
    BY <2>2, <2>3 DEF Grounds
  <2>5. Sites(g, e) # {}
    BY <2>2 DEF Sites
  <2> QED
    BY <2>1, <2>2, <2>3, <2>4, <2>5
<1>4. CASE e \in ResolveDataFlow(g)
  <2>0. PICK f \in Files : \E s \in g.decl[f].refs : \E t \in ResolveRef(g, f, s[2]) :
           e = <<Sym(f, s[1]), t, "DataFlow">> /\ Sym(f, s[1]) \in g.res
    BY <1>4, DataLinks
  <2>1a. PICK s \in g.decl[f].refs : \E t \in ResolveRef(g, f, s[2]) :
           e = <<Sym(f, s[1]), t, "DataFlow">> /\ Sym(f, s[1]) \in g.res
    BY <2>0
  <2>1. PICK t \in ResolveRef(g, f, s[2]) :
           e = <<Sym(f, s[1]), t, "DataFlow">> /\ Sym(f, s[1]) \in g.res
    BY <2>1a
  <2>2. e[1] = Sym(f, s[1]) /\ e[1][2] = f /\ e[2] = t /\ e[3] = "DataFlow"
    BY <2>1, SourcesOfLinks
  <2>3. t \in g.res
    BY ResolveRefFinds
  <2>4. Sites(g, e) # {}
    BY <2>2 DEF Sites
  <2> QED
    BY <2>1, <2>2, <2>3, <2>4
<1> QED
  BY <1>1, <1>2, <1>3, <1>4

(* Pruning keeps of the links those that no resolution makes.                *)
LEMMA PrunedIs ==
  ASSUME NEW g, NEW E
  PROVE  Pruned(g, E) = {e \in E : e[1][1] # "file" /\ Sites(g, e) = {}}
  BY DEF Pruned, Hierarchy, Sites

(* What pruning keeps once it keeps again.                                   *)
LEMMA PrunedStays ==
  ASSUME NEW g, NEW E
  PROVE  Pruned(g, E) \subseteq ResolveAll(g, E)
  BY DEF ResolveAll

-----------------------------------------------------------------------------
(* The invariant: versions are versions, links join resident nodes, and      *)
(* nodes, resident or COLD, are of files that have been ingested.            *)

Versioned ==
  /\ parsed \in [Files -> Nat] /\ src \in [Files -> Nat]
  /\ \A f \in Files : parsed[f] \in Versions(f) \cup {0}

Placed ==
  /\ \A e \in edges : e[1] \in res /\ e[2] \in res
  /\ \A n \in res \cup DOMAIN cold : n[2] \in Files /\ src[n[2]] # 0
  /\ \A n \in DOMAIN cold : \A e \in cold[n] : e[1] = n \/ e[2] = n

IInv == Versioned /\ Placed /\ OnlyPageInIsStale

(* The graph of the current state, field by field.                           *)
LEMMA LiveFields ==
  /\ Live.res = res /\ Live.marks = marks
  /\ \A f \in Files : Live.decl[f] = IF parsed[f] = 0 THEN NoDecl ELSE Decl[f][parsed[f]]
  BY DEF Live, Graph, Pending

(* Expanding an alias of a parsed file yields a path.                        *)
LEMMA LiveReadsPaths == Versioned => ReadsPaths(Live)
<1> SUFFICES ASSUME Versioned PROVE ReadsPaths(Live)
  OBVIOUS
<1> SUFFICES ASSUME NEW f \in Files, NEW s \in Live.decl[f].calls
             PROVE  Unaliased(Live, f, s[2]) \in Paths
  BY DEF ReadsPaths
<1> DEFINE d == Live.decl[f]
           p == s[2]
           a == d.aliases[Head(p)]
<1>1. parsed[f] \in Versions(f) /\ d = Decl[f][parsed[f]]
  <2>1. NoDecl.calls = {}
    BY DEF NoDecl
  <2> QED
    BY <2>1, LiveFields DEF Versioned
<1>2. p \in Paths /\ \A x \in DOMAIN d.aliases : d.aliases[x] \in Paths
  BY <1>1, DeclAssumption
<1>3. CASE Head(p) \notin DOMAIN d.aliases
  BY <1>2, <1>3 DEF Unaliased
<1>4. CASE Head(p) \in DOMAIN d.aliases
  <2>1. a \in Paths /\ Unaliased(Live, f, p) = a \o Tail(p)
    BY <1>2, <1>4 DEF Unaliased
  <2> HIDE DEF a, p
  <2>2. /\ a \in Seq(STRING) /\ Len(a) \in Nat /\ Len(a) # 0
    BY <2>1, LenProperties, EmptySeq DEF Paths
  <2>3. Tail(p) \in Seq(STRING) /\ Len(Tail(p)) \in Nat
    BY <1>2, HeadTailProperties, LenProperties DEF Paths
  <2>4. /\ a \o Tail(p) \in Seq(STRING) /\ Len(a \o Tail(p)) = Len(a) + Len(Tail(p))
    BY <2>2, <2>3, ConcatProperties
  <2>5. Len(a \o Tail(p)) # 0
    BY <2>2, <2>3, <2>4
  <2>6. a \o Tail(p) # <<>>
    BY <2>5, EmptySeq
  <2> QED
    BY <2>1, <2>4, <2>6 DEF p, Paths
<1> QED
  BY <1>3, <1>4

(* The nodes of a file name it.                                              *)
LEMMA NodesAreOfTheirFile ==
  ASSUME NEW f, NEW v, NEW n \in Nodes(f, v)
  PROVE  n[2] = f
  BY DEF Nodes, File, Use, Sym

(* What an ingest changes: nothing where the version is the same; otherwise  *)
(* the nodes of the file are those of the new version, and no link is left   *)
(* that touched an old one.                                                  *)
LEMMA IngestChanges ==
  ASSUME Versioned, Placed, NEW f \in Files, NEW v \in Versions(f), IngestDeferred(f, v)
  PROVE  /\ edges' \subseteq edges /\ returned' = returned \cap edges'
         /\ dirty' /\ UNCHANGED <<paged, loaded>>
         /\ src[f] = v => UNCHANGED <<res, cold, marks, parsed, src, edges>>
         /\ src[f] # v =>
              /\ src'[f] = v /\ parsed'[f] = v /\ v \in Nat \ {0}
              /\ \A h \in Files \ {f} : src'[h] = src[h] /\ parsed'[h] = parsed[h]
              /\ Versioned'
              /\ res' = {n \in res : n[2] # f} \cup Nodes(f, v)
              /\ edges' = {e \in edges : e[1][2] # f /\ e[2][2] # f}
              /\ marks' = marks \cup Marked(f, v)
              /\ DOMAIN cold' = DOMAIN cold \ Nodes(f, v)
              /\ \A n \in DOMAIN cold' : cold'[n] = cold[n]
<1>1. /\ returned' = returned \cap edges' /\ dirty' /\ UNCHANGED <<paged, loaded>>
      /\ ProcessDelta(f, v)
  BY DEF IngestDeferred
<1>2. CASE src[f] = v
  <2>1. UNCHANGED <<res, cold, marks, parsed, src>> /\ edges' = edges
    BY <1>1, <1>2 DEF ProcessDelta
  <2> QED
    BY <1>1, <1>2, <2>1
<1>3. CASE src[f] # v
  <2> DEFINE evicted == IF src[f] = 0 THEN {} ELSE EvictFileNodes(f)
  <2>1. /\ res' = (res \ evicted) \cup Nodes(f, v)
        /\ cold' = Without(cold, Nodes(f, v))
        /\ edges' = edges \ Touching(edges, evicted)
        /\ marks' = marks \cup Marked(f, v)
        /\ parsed' = [parsed EXCEPT ![f] = v]
        /\ src' = [src EXCEPT ![f] = v]
    BY <1>1, <1>3 DEF ProcessDelta
  <2>2. evicted = {n \in res : n[2] = f}
    <3>1. CASE src[f] = 0
      BY <3>1 DEF Placed
    <3>2. CASE src[f] # 0
      BY <3>2 DEF EvictFileNodes
    <3> QED
      BY <3>1, <3>2
  <2> HIDE DEF evicted
  <2>3. res' = {n \in res : n[2] # f} \cup Nodes(f, v)
    BY <2>1, <2>2
  <2>4. edges' = {e \in edges : e[1][2] # f /\ e[2][2] # f}
    BY <2>1, <2>2 DEF Touching, Placed
  <2>5. v \in Nat \ {0}
    BY DeclAssumption
  <2>6. /\ src'[f] = v /\ parsed'[f] = v
        /\ \A h \in Files \ {f} : src'[h] = src[h] /\ parsed'[h] = parsed[h]
        /\ src' \in [Files -> Nat] /\ parsed' \in [Files -> Nat]
    BY <2>1, <2>5 DEF Versioned
  <2>7. Versioned'
    BY <2>6 DEF Versioned
  <2>8. /\ DOMAIN cold' = DOMAIN cold \ Nodes(f, v)
        /\ \A n \in DOMAIN cold' : cold'[n] = cold[n]
    BY <2>1 DEF Without
  <2> QED
    BY <1>1, <1>3, <2>1, <2>3, <2>4, <2>5, <2>6, <2>7, <2>8
<1> QED
  BY <1>2, <1>3

(* A demotion takes a node of a file and its links out of the graph.          *)
LEMMA DemoteChanges ==
  ASSUME Placed, NEW n, Demote(n)
  PROVE  /\ n \in res /\ res' = res \ {n} /\ DOMAIN cold' = DOMAIN cold \cup {n}
         /\ \A m \in DOMAIN cold' \ {n} : cold'[m] = cold[m]
         /\ \A e \in cold'[n] : e[1] = n \/ e[2] = n
         /\ edges' = {e \in edges : e[1] # n /\ e[2] # n}
         /\ returned' = returned \cap edges' /\ paged'
         /\ UNCHANGED <<parsed, marks, src, dirty, loaded>>
<1>1. /\ n \in res /\ res' = res \ {n}
      /\ cold' = [m \in DOMAIN cold \cup {n} |->
                    IF m = n THEN Touching(edges, {n}) ELSE cold[m]]
      /\ edges' = edges \ Touching(edges, {n})
      /\ returned' = returned \cap edges' /\ paged'
      /\ UNCHANGED <<parsed, marks, src, dirty, loaded>>
  BY DEF Demote
<1>2. edges' = {e \in edges : e[1] # n /\ e[2] # n}
  BY <1>1 DEF Touching
<1>3. \A e \in cold'[n] : e[1] = n \/ e[2] = n
  BY <1>1 DEF Touching
<1>4. DOMAIN cold' = DOMAIN cold \cup {n} /\ \A m \in DOMAIN cold' \ {n} : cold'[m] = cold[m]
  BY <1>1
<1> QED
  BY <1>1, <1>2, <1>3, <1>4

(* A page-in brings a node back with the links that still have both ends.     *)
LEMMA PageInChanges ==
  ASSUME Placed, NEW n, PageIn(n)
  PROVE  /\ n \in DOMAIN cold /\ res' = res \cup {n}
         /\ edges \subseteq edges' /\ edges' \ edges \subseteq returned'
         /\ returned \subseteq returned'
         /\ \A e \in edges' \ edges : e[1] \in res' /\ e[2] \in res'
         /\ DOMAIN cold' = DOMAIN cold \ {n}
         /\ \A m \in DOMAIN cold' : \A e \in cold'[m] : e \in cold[m] \/ e[1] = m \/ e[2] = m
         /\ UNCHANGED <<parsed, marks, src, dirty, paged, loaded>>
<1> DEFINE relinked == {e \in cold[n] : Other(e, n) \in res}
<1>1. /\ n \in DOMAIN cold /\ res' = res \cup {n} /\ edges' = edges \cup relinked
      /\ cold' = [m \in DOMAIN cold \ {n} |->
                    cold[m] \cup {e \in cold[n] : Other(e, n) = m}]
      /\ returned' = returned \cup relinked
      /\ UNCHANGED <<parsed, marks, src, dirty, paged, loaded>>
  BY DEF PageIn
<1>2. \A e \in relinked : e[1] \in res' /\ e[2] \in res'
  BY <1>1 DEF Other, Placed
<1>3. \A m \in DOMAIN cold' : \A e \in cold'[m] : e \in cold[m] \/ e[1] = m \/ e[2] = m
  BY <1>1 DEF Other
<1>4. DOMAIN cold' = DOMAIN cold \ {n}
  BY <1>1
<1> HIDE DEF relinked
<1> QED
  BY <1>1, <1>2, <1>3, <1>4

(* A resolution leaves the nodes and the facts alone.                        *)
LEMMA ResolveChanges ==
  ASSUME Versioned, Resolve
  PROVE  /\ dirty /\ ~dirty' /\ edges' = ResolveAll(Live, edges)
         /\ returned' = returned \cap edges'
         /\ UNCHANGED <<res, cold, parsed, marks, src, paged, loaded>>
         /\ \A e \in edges' : e \notin Pruned(Live, edges) =>
              /\ e[1] \in res /\ e[2] \in res
              /\ e[3] = "Calls" => \E s \in Live.decl[e[1][2]].calls : Grounds(Live, e, s)
              /\ e[1][1] # "file" => Sites(Live, e) # {}
         /\ \A e \in edges : e[1][1] # "file" /\ Sites(Live, e) = {} => e \in edges'
<1>1. /\ dirty /\ ~dirty' /\ edges' = ResolveAll(Live, edges)
      /\ returned' = returned \cap edges'
      /\ UNCHANGED <<res, cold, parsed, marks, src, paged, loaded>>
  BY DEF Resolve, Live
<1>2. \A e \in edges' : e \notin Pruned(Live, edges) =>
        /\ e[1] \in res /\ e[2] \in res
        /\ e[3] = "Calls" => \E s \in Live.decl[e[1][2]].calls : Grounds(Live, e, s)
        /\ e[1][1] # "file" => Sites(Live, e) # {}
  BY <1>1, LiveReadsPaths, LiveFields, ResolveAllAdds
<1>3. \A e \in edges : e[1][1] # "file" /\ Sites(Live, e) = {} => e \in edges'
  BY <1>1, PrunedIs, PrunedStays
<1> QED
  BY <1>1, <1>2, <1>3

(* A file that is not parsed again keeps its sites and its aliases.          *)
LEMMA DeclStays ==
  ASSUME NEW h \in Files, parsed'[h] = parsed[h]
  PROVE  /\ Live'.decl[h] = Live.decl[h]
         /\ \A p : Unaliased(Live', h, p) = Unaliased(Live, h, p)
<1>1. Live'.decl[h] = Live.decl[h]
  BY DEF Live, Graph, Pending
<1> QED
  BY <1>1 DEF Unaliased

(* The invariant holds at the start.                                         *)
LEMMA InitIInv == Init => IInv
<1> SUFFICES ASSUME Init PROVE IInv
  OBVIOUS
<1>1. Versioned
  BY DEF Init, Versioned
<1>2. Placed
  BY DEF Init, Placed
<1>3. OnlyPageInIsStale
  BY DEF Init, OnlyPageInIsStale
<1> QED
  BY <1>1, <1>2, <1>3 DEF IInv

\* The links that no page-in brought back, of parsed files, name what they are of.
Named(e) ==
  e[3] = "Calls" /\ parsed[e[1][2]] # 0 =>
    \E s \in Live.decl[e[1][2]].calls :
      /\ Sym(e[1][2], s[1]) = e[1]
      /\ e[2][3] = <<Last(Unaliased(Live, e[1][2], s[2]))>>

(* A link stays named while its file is not parsed again.                    *)
LEMMA NamedStays ==
  ASSUME NEW e, e[1][2] \in Files, parsed'[e[1][2]] = parsed[e[1][2]], Named(e)
  PROVE  Named(e)'
<1> SUFFICES ASSUME e[3] = "Calls", parsed'[e[1][2]] # 0
             PROVE  \E s \in Live'.decl[e[1][2]].calls :
                      /\ Sym(e[1][2], s[1]) = e[1]
                      /\ e[2][3] = <<Last(Unaliased(Live', e[1][2], s[2]))>>
  BY DEF Named
<1>1. PICK s \in Live.decl[e[1][2]].calls :
        /\ Sym(e[1][2], s[1]) = e[1]
        /\ e[2][3] = <<Last(Unaliased(Live, e[1][2], s[2]))>>
  BY DEF Named
<1> QED
  BY <1>1, DeclStays

(* The property OnlyPageInIsStale, said of links.                            *)
LEMMA StaleIs == OnlyPageInIsStale <=> \A e \in edges \ returned : Named(e)
  BY DEF OnlyPageInIsStale, Named

(* The same of the next state.                                               *)
LEMMA StaleIsNext == OnlyPageInIsStale' <=> \A e \in edges' \ returned' : Named(e)'
  BY DEF OnlyPageInIsStale, Named

(* Every step keeps it: a resolution makes only named links, and every other *)
(* step removes links, brings some back or forgets what was parsed.          *)
LEMMA NextIInv == IInv /\ [Next]_vars => IInv'
<1> SUFFICES ASSUME IInv, [Next]_vars PROVE IInv'
  OBVIOUS
<1>0. /\ Versioned /\ Placed /\ \A e \in edges \ returned : Named(e)
      /\ \A e \in edges : e[1][2] \in Files
  BY StaleIs DEF IInv, Placed
<1>s. ASSUME Versioned', Placed', \A e \in edges' \ returned' : Named(e)'
      PROVE  IInv'
  BY <1>s, StaleIsNext DEF IInv
<1>1. ASSUME NEW f \in Files, NEW v \in Versions(f), IngestDeferred(f, v)
      PROVE  IInv'
  <2>1. CASE src[f] = v
    <3>1. /\ UNCHANGED <<res, cold, marks, parsed, src, edges>>
          /\ returned' = returned \cap edges'
      BY <1>0, <1>1, <2>1, IngestChanges
    <3>2. \A e \in edges' \ returned' : Named(e)'
      BY <1>0, <3>1, NamedStays
    <3> QED
      BY <1>0, <1>s, <3>1, <3>2 DEF Versioned, Placed
  <2>2. CASE src[f] # v
    <3>1. /\ src'[f] = v /\ v \in Nat \ {0}
          /\ \A h \in Files \ {f} : src'[h] = src[h] /\ parsed'[h] = parsed[h]
          /\ Versioned'
          /\ res' = {n \in res : n[2] # f} \cup Nodes(f, v)
          /\ edges' = {e \in edges : e[1][2] # f /\ e[2][2] # f}
          /\ DOMAIN cold' = DOMAIN cold \ Nodes(f, v)
          /\ \A n \in DOMAIN cold' : cold'[n] = cold[n]
          /\ returned' = returned \cap edges'
      BY <1>0, <1>1, <2>2, IngestChanges
    <3>2. Placed'
      <4>1. \A e \in edges' : e[1] \in res' /\ e[2] \in res'
        BY <1>0, <3>1 DEF Placed
      <4>2. \A n \in res' \cup DOMAIN cold' : n[2] \in Files /\ src'[n[2]] # 0
        BY <1>0, <3>1, NodesAreOfTheirFile DEF Placed
      <4>3. \A n \in DOMAIN cold' : \A e \in cold'[n] : e[1] = n \/ e[2] = n
        BY <1>0, <3>1 DEF Placed
      <4> QED
        BY <4>1, <4>2, <4>3 DEF Placed
    <3>3. ASSUME NEW e \in edges' \ returned' PROVE Named(e)'
      <4>1. e \in edges \ returned /\ e[1][2] \in Files \ {f}
        BY <1>0, <3>1
      <4> QED
        BY <1>0, <3>1, <4>1, NamedStays
    <3> QED
      BY <1>s, <3>1, <3>2, <3>3
  <2> QED
    BY <2>1, <2>2
<1>2. CASE Resolve
  <2>1. /\ returned' = returned \cap edges' /\ edges' = ResolveAll(Live, edges)
        /\ UNCHANGED <<res, cold, parsed, src>>
        /\ \A e \in edges' : e \notin Pruned(Live, edges) =>
             /\ e[1] \in res /\ e[2] \in res
             /\ e[3] = "Calls" => \E s \in Live.decl[e[1][2]].calls : Grounds(Live, e, s)
    BY <1>0, <1>2, ResolveChanges
  <2>2. \A e \in Pruned(Live, edges) : e \in edges /\ Sites(Live, e) = {}
    BY PrunedIs
  <2>3. Versioned'
    BY <1>0, <2>1 DEF Versioned
  <2>4. \A e \in edges' : e[1] \in res /\ e[2] \in res
    BY <1>0, <2>1, <2>2 DEF Placed
  <2>5. Placed'
    BY <1>0, <2>1, <2>4 DEF Placed
  <2>6. ASSUME NEW e \in edges' \ returned' PROVE Named(e)'
    <3>1. e[1][2] \in Files
      BY <1>0, <2>1, <2>4 DEF Placed
    <3>2. Named(e)
      <4>1. CASE e \in Pruned(Live, edges)
        BY <1>0, <2>1, <2>2, <4>1
      <4>2. CASE e \notin Pruned(Live, edges)
        BY <2>1, <4>2 DEF Named, Grounds
      <4> QED
        BY <4>1, <4>2
    <3> QED
      BY <2>1, <3>1, <3>2, NamedStays
  <2> QED
    BY <1>s, <2>3, <2>5, <2>6
<1>3. CASE Reload
  <2>1. /\ parsed' = [f \in Files |-> 0]
        /\ UNCHANGED <<res, cold, edges, src, returned>>
    BY <1>3 DEF Reload
  <2>2. Versioned'
    BY <1>0, <2>1 DEF Versioned
  <2>3. Placed'
    BY <1>0, <2>1 DEF Placed
  <2>4. \A e \in edges' \ returned' : Named(e)'
    BY <1>0, <2>1 DEF Named
  <2> QED
    BY <1>s, <2>2, <2>3, <2>4
<1>4. ASSUME NEW n \in Pageable, Demote(n) PROVE IInv'
  <2>1. /\ n \in res /\ res' = res \ {n} /\ DOMAIN cold' = DOMAIN cold \cup {n}
        /\ \A m \in DOMAIN cold' \ {n} : cold'[m] = cold[m]
        /\ \A e \in cold'[n] : e[1] = n \/ e[2] = n
        /\ edges' = {e \in edges : e[1] # n /\ e[2] # n}
        /\ returned' = returned \cap edges'
        /\ UNCHANGED <<parsed, src>>
    BY <1>0, <1>4, DemoteChanges
  <2>2. Versioned'
    BY <1>0, <2>1 DEF Versioned
  <2>3. Placed'
    BY <1>0, <2>1 DEF Placed
  <2>4. ASSUME NEW e \in edges' \ returned' PROVE Named(e)'
    BY <1>0, <2>1, NamedStays
  <2> QED
    BY <1>s, <2>2, <2>3, <2>4
<1>5. ASSUME NEW n \in Pageable, PageIn(n) PROVE IInv'
  <2>1. /\ n \in DOMAIN cold /\ res' = res \cup {n}
        /\ edges \subseteq edges' /\ edges' \ edges \subseteq returned'
        /\ returned \subseteq returned'
        /\ \A e \in edges' \ edges : e[1] \in res' /\ e[2] \in res'
        /\ DOMAIN cold' = DOMAIN cold \ {n}
        /\ \A m \in DOMAIN cold' : \A e \in cold'[m] : e \in cold[m] \/ e[1] = m \/ e[2] = m
        /\ UNCHANGED <<parsed, src>>
    BY <1>0, <1>5, PageInChanges
  <2>2. Versioned'
    BY <1>0, <2>1 DEF Versioned
  <2>3. Placed'
    BY <1>0, <2>1 DEF Placed
  <2>4. ASSUME NEW e \in edges' \ returned' PROVE Named(e)'
    BY <1>0, <2>1, NamedStays
  <2> QED
    BY <1>s, <2>2, <2>3, <2>4
<1>6. CASE UNCHANGED vars
  <2>1. UNCHANGED <<res, cold, edges, parsed, src, returned>>
    BY <1>6 DEF vars
  <2>2. \A e \in edges' \ returned' : Named(e)'
    BY <1>0, <2>1, NamedStays
  <2> QED
    BY <1>0, <1>s, <2>1, <2>2 DEF Versioned, Placed
<1> QED
  BY <1>1, <1>2, <1>3, <1>4, <1>5, <1>6 DEF Next

(* The invariant holds of every reachable state.                             *)
LEMMA InductiveInvariant == Spec => []IInv
  BY InitIInv, NextIInv, PTL DEF Spec

(* Whatever is ingested, demoted, paged in or left deferred, a call link of a *)
(* file parsed in this process is one that its parsed version names, unless a *)
(* page-in brought the link back from an earlier version.                    *)
THEOREM StaleLinksArePagedIn == Spec => []OnlyPageInIsStale
<1>1. IInv => OnlyPageInIsStale
  BY DEF IInv
<1> QED
  BY <1>1, InductiveInvariant, PTL

(* resolve_all prunes only the links it makes again: no step but an ingest   *)
(* or a demotion, which remove a node, takes away a link that came with a    *)
(* loaded graph and that the passes cannot rebuild.                          *)
THEOREM LoadedLinksStay == Spec => LoadedLinksSurvive
<1> DEFINE Survive == \A e \in edges \ Hierarchy(edges) :
                        parsed[e[1][2]] = 0 /\ {e[1], e[2]} \cap DOMAIN cold' = {} =>
                          e \in edges' \/ \E f \in {e[1][2], e[2][2]} : src'[f] # src[f]
<1>1. ASSUME IInv, [Next]_vars PROVE Survive
  <2> SUFFICES ASSUME NEW e \in edges \ Hierarchy(edges), parsed[e[1][2]] = 0,
                      {e[1], e[2]} \cap DOMAIN cold' = {}, e \notin edges'
               PROVE  src'[e[1][2]] # src[e[1][2]] \/ src'[e[2][2]] # src[e[2][2]]
    OBVIOUS
  <2>0. /\ Versioned /\ Placed /\ e \in edges /\ e[1][1] # "file" /\ e[1][2] \in Files
    BY <1>1 DEF IInv, Placed, Hierarchy
  <2>1. ASSUME NEW f \in Files, NEW v \in Versions(f), IngestDeferred(f, v)
        PROVE  src'[e[1][2]] # src[e[1][2]] \/ src'[e[2][2]] # src[e[2][2]]
    <3>1. CASE src[f] = v
      BY <2>0, <2>1, <3>1, IngestChanges
    <3>2. CASE src[f] # v
      <4>1. src'[f] = v /\ edges' = {d \in edges : d[1][2] # f /\ d[2][2] # f}
        BY <2>0, <2>1, <3>2, IngestChanges
      <4> QED
        BY <2>0, <3>2, <4>1
    <3> QED
      BY <3>1, <3>2
  <2>2. CASE Resolve
    <3>1. Sites(Live, e) = {}
      BY <2>0, LiveFields DEF Sites, NoDecl
    <3> QED
      BY <2>0, <2>2, <3>1, ResolveChanges
  <2>3. CASE Reload \/ UNCHANGED vars
    BY <2>0, <2>3 DEF Reload, vars
  <2>4. ASSUME NEW n \in Pageable, Demote(n) PROVE FALSE
    BY <2>0, <2>4, DemoteChanges
  <2>5. ASSUME NEW n \in Pageable, PageIn(n) PROVE FALSE
    BY <2>0, <2>5, PageInChanges
  <2> QED
    BY <1>1, <2>0, <2>1, <2>2, <2>3, <2>4, <2>5 DEF Next
<1>2. IInv /\ [Next]_vars => [Survive]_vars
  BY <1>1
<1>3. LoadedLinksSurvive <=> [][Survive]_vars
  BY DEF LoadedLinksSurvive
<1> QED
  BY <1>2, <1>3, InductiveInvariant, PTL DEF Spec

(* A resolution invents no call link: each one it adds joins a resident      *)
(* symbol to a resident symbol that a call site of the file reads as, in one *)
(* way only.                                                                 *)
THEOREM ResolvedLinksAreGrounded == Spec => LinksAreGrounded
<1> DEFINE Grounded ==
       dirty /\ ~dirty' =>
       \A e \in edges' \ edges : e[3] = "Calls" =>
         \E s \in Live.decl[e[1][2]].calls :
           LET p == Unaliased(Live, e[1][2], s[2])
           IN /\ Sym(e[1][2], s[1]) = e[1]
              /\ e[2][3] = <<Last(p)>>
              /\ ReadsAs(Live, e[1][2], p, e[2])
<1>1. ASSUME IInv, [Next]_vars PROVE Grounded
  <2> SUFFICES ASSUME dirty, ~dirty', NEW e \in edges' \ edges, e[3] = "Calls"
               PROVE  \E s \in Live.decl[e[1][2]].calls : Grounds(Live, e, s)
    BY Zenon DEF Grounds
  <2>0. Versioned /\ Placed
    BY <1>1 DEF IInv
  <2>1. ASSUME NEW f \in Files, NEW v \in Versions(f), IngestDeferred(f, v) PROVE FALSE
    BY <2>1 DEF IngestDeferred
  <2>2. CASE Resolve
    <3>1. /\ \A d \in edges' : d \notin Pruned(Live, edges) =>
               (d[3] = "Calls" => \E s \in Live.decl[d[1][2]].calls : Grounds(Live, d, s))
      BY <2>0, <2>2, ResolveChanges
    <3>2. e \notin Pruned(Live, edges)
      BY PrunedIs
    <3> QED
      BY <3>1, <3>2
  <2>3. ~Reload /\ ~UNCHANGED vars
    BY DEF Reload, vars
  <2>4. ASSUME NEW n \in Pageable, Demote(n) \/ PageIn(n) PROVE FALSE
    BY <2>4 DEF Demote, PageIn
  <2> QED
    BY <1>1, <2>1, <2>2, <2>3, <2>4 DEF Next
<1>2. IInv /\ [Next]_vars => [Grounded]_vars
  BY <1>1
<1>3. LinksAreGrounded <=> [][Grounded]_vars
  BY DEF LinksAreGrounded
<1> QED
  BY <1>2, <1>3, InductiveInvariant, PTL DEF Spec

-----------------------------------------------------------------------------
(* A resolution reads of a graph its nodes, its facts and the symbols that   *)
(* are there and marked.                                                     *)

Same(g, h) == g.res = h.res /\ g.decl = h.decl /\ DataSymbols(g) = DataSymbols(h)

(* Two such graphs have the same files at each place,                        *)
LEMMA SameFiles ==
  ASSUME NEW g, NEW h, Same(g, h)
  PROVE  /\ Symbols(g) = Symbols(h)
         /\ \A f : Uses(g, f) = Uses(h, f)
         /\ \A key : FileAt(g, key) = FileAt(h, key)
<1>1. Symbols(g) = Symbols(h)
  BY DEF Same, Symbols
<1>2. ASSUME NEW f PROVE Uses(g, f) = Uses(h, f)
  BY DEF Same, Uses
<1>3. ASSUME NEW key PROVE FileAt(g, key) = FileAt(h, key)
  BY DEF Same, FileAt
<1> QED
  BY <1>1, <1>2, <1>3

(* the same readings of an import,                                           *)
LEMMA SameUses ==
  ASSUME NEW g, NEW h, Same(g, h), NEW c, NEW p
  PROVE  ResolveUse(g, c, p) = ResolveUse(h, c, p)
<1> DEFINE t == ModPath(c, p)
           key(len) == <<t[1], SubSeq(t[2], 1, len)>>
           lens == (IF t[1] = c THEN 1 ELSE 0)..Len(t[2])
<1> HIDE DEF key, lens
<1>1. \A len : FileAt(g, key(len)) = FileAt(h, key(len))
  BY SameFiles
<1>2. {len \in lens : FileAt(g, key(len)) # {}} = {len \in lens : FileAt(h, key(len)) # {}}
  BY <1>1
<1> DEFINE at == LastOf({len \in lens : FileAt(g, key(len)) # {}})
<1>3. /\ ResolveUse(g, c, p) = UNION {FileAt(g, key(len)) : len \in at}
      /\ ResolveUse(h, c, p) = UNION {FileAt(h, key(len)) : len \in at}
  BY <1>2 DEF ResolveUse, key, lens
<1> HIDE DEF at
<1>4. {FileAt(g, key(len)) : len \in at} = {FileAt(h, key(len)) : len \in at}
  BY <1>1
<1> QED
  BY <1>3, <1>4

(* of a bare name,                                                           *)
LEMMA SameBare ==
  ASSUME NEW g, NEW h, Same(g, h), NEW syms, NEW f, NEW name
  PROVE  Bare(g, syms, f, name) = Bare(h, syms, f, name)
<1> DEFINE c == Key[f][1]
           own == Defs(syms, Key[f], name)
           named == Only({s \in syms : s[3] = <<name>>})
           imports(k) == {u \in Uses(k, f) : Last(u) = name /\ Len(u) > 1}
           files(k) == UNION {ResolveUse(k, c, Front(u)) : u \in imports(k)}
           cands(k) == UNION {Defs(syms, Key[d], name) : d \in files(k)}
<1>1. imports(g) = imports(h)
  BY SameFiles
<1>2. \A u : ResolveUse(g, c, Front(u)) = ResolveUse(h, c, Front(u))
  BY SameUses
<1>a. ASSUME NEW k
      PROVE  Bare(k, syms, f, name) =
               IF cands(k) # {} THEN Only(cands(k)) ELSE IF own # {} THEN own ELSE named
  BY DEF Bare
<1> HIDE DEF imports
<1>3. {ResolveUse(g, c, Front(u)) : u \in imports(g)} = {ResolveUse(h, c, Front(u)) : u \in imports(h)}
  BY <1>1, <1>2
<1>4. files(g) = files(h)
  BY <1>3
<1> HIDE DEF files
<1>5. cands(g) = cands(h)
  BY <1>4
<1> HIDE DEF cands, own, named
<1> QED
  BY <1>a, <1>5

(* of a qualified path,                                                      *)
LEMMA SameQualified ==
  ASSUME NEW g, NEW h, Same(g, h), NEW syms, NEW f, NEW p
  PROVE  Qualified(g, syms, f, p) = Qualified(h, syms, f, p)
<1> DEFINE c == Key[f][1]
           prefix == Front(p)
           hits(k) == {u \in Uses(k, f) : Last(u) = Head(prefix)}
           InModule(k, abs) ==
             UNION {Defs(syms, Key[d], Last(p)) : d \in FileAt(k, ModPath(c, abs))}
<1>1. hits(g) = hits(h)
  BY SameFiles
<1>2. ASSUME NEW abs PROVE InModule(g, abs) = InModule(h, abs)
  <2>1. FileAt(g, ModPath(c, abs)) = FileAt(h, ModPath(c, abs))
    BY SameFiles
  <2> QED
    BY <2>1
<1>3. BareModPath(g, syms, c, prefix, Last(p)) = BareModPath(h, syms, c, prefix, Last(p))
  BY SameFiles DEF BareModPath
<1>a. ASSUME NEW k
      PROVE  Qualified(k, syms, f, p) =
               IF Head(prefix) = "crate" THEN InModule(k, prefix)
               ELSE IF hits(k) = {} THEN BareModPath(k, syms, c, prefix, Last(p))
               ELSE UNION {InModule(k, u \o Tail(prefix)) : u \in Only(hits(k))}
  BY DEF Qualified
<1> HIDE DEF InModule, hits
<1>4. {InModule(g, u \o Tail(prefix)) : u \in Only(hits(g))}
        = {InModule(h, u \o Tail(prefix)) : u \in Only(hits(h))}
  BY <1>1, <1>2
<1> QED
  BY <1>a, <1>1, <1>2, <1>3, <1>4

(* of a call or a reference,                                                 *)
LEMMA SameTargets ==
  ASSUME NEW g, NEW h, Same(g, h), NEW f, NEW path
  PROVE  /\ ResolveCall(g, f, path) = ResolveCall(h, f, path)
         /\ ResolveRef(g, f, path) = ResolveRef(h, f, path)
<1> DEFINE p == Unaliased(g, f, path)
<1>1. Unaliased(h, f, path) = p
  BY DEF Same, Unaliased
<1>2. Symbols(g) = Symbols(h) /\ DataSymbols(g) = DataSymbols(h)
  BY SameFiles DEF Same
<1> HIDE DEF p
<1>3. TypeHit(g, p) = TypeHit(h, p)
  <2>1. Owners(g, p) = Owners(h, p)
    BY DEF Same, Owners
  <2> QED
    BY <2>1 DEF Same, TypeHit
<1>4. /\ Bare(g, Symbols(g), f, p[1]) = Bare(h, Symbols(h), f, p[1])
      /\ Bare(g, DataSymbols(g), f, p[1]) = Bare(h, DataSymbols(h), f, p[1])
  BY <1>2, SameBare
<1>5. /\ Qualified(g, Symbols(g), f, p) = Qualified(h, Symbols(h), f, p)
      /\ Qualified(g, DataSymbols(g), f, p) = Qualified(h, DataSymbols(h), f, p)
  BY <1>2, SameQualified
<1>6. ResolveCall(g, f, path) = ResolveCall(h, f, path)
  BY <1>1, <1>2, <1>3, <1>4, <1>5 DEF ResolveCall, p
<1>7. ResolveRef(g, f, path) = ResolveRef(h, f, path)
  BY <1>1, <1>4, <1>5 DEF ResolveRef, p
<1> QED
  BY <1>6, <1>7

(* and the same files imported.                                              *)
LEMMA SameImports ==
  ASSUME NEW g, NEW h, Same(g, h)
  PROVE  LinkModuleImports(g) = LinkModuleImports(h)
<1> DEFINE resident(k) == {f \in Files : File(f) \in k.res}
           indexed(k) == {f \in resident(k) : f \in FileAt(k, Key[f])}
           imported(k, f) == (UNION {ResolveUse(k, Key[f][1], u) : u \in Uses(k, f)}) \ {f}
           parent(k, f) == IF Key[f][2] = <<>> THEN {}
                           ELSE FileAt(k, <<Key[f][1], Front(Key[f][2])>>) \ {f}
           imports(k) == {{<<File(f), File(t), "DependsOn">> : t \in imported(k, f)} : f \in resident(k)}
           hierarchy(k) == {{<<File(t), File(f), "Contains">> : t \in parent(k, f)} : f \in indexed(k)}
<1>0. \A k : LinkModuleImports(k) = UNION (imports(k) \cup hierarchy(k))
  BY DEF LinkModuleImports
<1>1. resident(g) = resident(h)
  BY DEF Same
<1>2. indexed(g) = indexed(h)
  BY <1>1, SameFiles
<1>3. ASSUME NEW f PROVE imported(g, f) = imported(h, f)
  <2>1. Uses(g, f) = Uses(h, f) /\ \A u : ResolveUse(g, Key[f][1], u) = ResolveUse(h, Key[f][1], u)
    BY SameFiles, SameUses
  <2>2. {ResolveUse(g, Key[f][1], u) : u \in Uses(g, f)} = {ResolveUse(h, Key[f][1], u) : u \in Uses(h, f)}
    BY <2>1
  <2> QED
    BY <2>2
<1>4. ASSUME NEW f PROVE parent(g, f) = parent(h, f)
  BY SameFiles
<1> HIDE DEF resident, indexed, imported, parent
<1>5. imports(g) = imports(h)
  BY <1>1, <1>3
<1>6. hierarchy(g) = hierarchy(h)
  BY <1>2, <1>4
<1> HIDE DEF imports, hierarchy
<1> QED
  BY <1>0, <1>5, <1>6

(* The passes make the same links of graphs that are the same to them.       *)
LEMMA SameLinks ==
  ASSUME NEW g, NEW h, Same(g, h)
  PROVE  ResolveAll(g, {}) = ResolveAll(h, {})
<1> DEFINE calls(k, f) == Links(k, f, k.decl[f].calls, ResolveCall, "Calls")
           refs(k, f) == Links(k, f, k.decl[f].refs, ResolveRef, "DataFlow")
<1>1. ASSUME NEW f PROVE calls(g, f) = calls(h, f)
  <2> DEFINE sites == {s \in g.decl[f].calls : Sym(f, s[1]) \in g.res}
             of(k, s) == {<<Sym(f, s[1]), t, "Calls">> : t \in ResolveCall(k, f, s[2]) \ {Sym(f, s[1])}}
  <2>1. /\ calls(g, f) = UNION {of(g, s) : s \in sites}
        /\ calls(h, f) = UNION {of(h, s) : s \in sites}
    BY DEF Links, Same
  <2>2. \A s : of(g, s) = of(h, s)
    BY SameTargets
  <2> HIDE DEF of, sites, calls
  <2>3. {of(g, s) : s \in sites} = {of(h, s) : s \in sites}
    BY <2>2
  <2> QED
    BY <2>1, <2>3
<1>2. ASSUME NEW f PROVE refs(g, f) = refs(h, f)
  <2> DEFINE sites == {s \in g.decl[f].refs : Sym(f, s[1]) \in g.res}
             of(k, s) == {<<Sym(f, s[1]), t, "DataFlow">> : t \in ResolveRef(k, f, s[2]) \ {Sym(f, s[1])}}
  <2>1. /\ refs(g, f) = UNION {of(g, s) : s \in sites}
        /\ refs(h, f) = UNION {of(h, s) : s \in sites}
    BY DEF Links, Same
  <2>2. \A s : of(g, s) = of(h, s)
    BY SameTargets
  <2> HIDE DEF of, sites, refs
  <2>3. {of(g, s) : s \in sites} = {of(h, s) : s \in sites}
    BY <2>2
  <2> QED
    BY <2>1, <2>3
<1>3. \A k : /\ ResolveSymbolCalls(k) = UNION {calls(k, f) : f \in Files}
             /\ ResolveDataFlow(k) = UNION {refs(k, f) : f \in Files}
  BY DEF ResolveSymbolCalls, ResolveDataFlow
<1> HIDE DEF calls, refs
<1>4. /\ {calls(g, f) : f \in Files} = {calls(h, f) : f \in Files}
      /\ {refs(g, f) : f \in Files} = {refs(h, f) : f \in Files}
  BY <1>1, <1>2
<1>5. /\ ResolveSymbolCalls(g) = ResolveSymbolCalls(h)
      /\ ResolveDataFlow(g) = ResolveDataFlow(h)
  BY <1>3, <1>4
<1>6. Pruned(g, {}) = Pruned(h, {})
  BY PrunedIs
<1> QED
  BY <1>5, <1>6, SameImports DEF ResolveAll

\* Until something is demoted or reloaded: the nodes and the facts are those of the
\* versions ingested last, no link is one that a resolution would leave alone, and
\* once resolved the links are those of a first resolution.
FromSources ==
  ~paged /\ ~loaded =>
    /\ DOMAIN cold = {}
    /\ \A f \in Files : parsed[f] = src[f]
    /\ \A n : n \in res <=> \E f \in Files : src[f] # 0 /\ n \in Nodes(f, src[f])
    /\ \A e \in edges : e[1][1] # "file" => Sites(Live, e) # {}
    /\ ~dirty => edges = ResolveAll(Live, {})

(* FromSources holds at the start: a graph without nodes has no link to make. *)
LEMMA InitFromSources == Init => FromSources
<1> SUFFICES ASSUME Init PROVE FromSources
  OBVIOUS
<1>1. /\ DOMAIN cold = {} /\ edges = {} /\ res = {} /\ ~dirty
      /\ parsed = [f \in Files |-> 0] /\ src = [f \in Files |-> 0]
  BY DEF Init
<1>2. ResolveAll(Live, {}) = {}
  <2> SUFFICES ASSUME NEW e \in ResolveAll(Live, {}) PROVE FALSE
    OBVIOUS
  <2>1. Versioned
    BY <1>1 DEF Versioned
  <2>2. Pruned(Live, {}) = {}
    BY PrunedIs
  <2>3. e[1] \in Live.res
    BY <2>1, <2>2, LiveReadsPaths, ResolveAllAdds
  <2> QED
    BY <1>1, <2>3, LiveFields
<1> QED
  BY <1>1, <1>2 DEF FromSources

(* Every step keeps it: an ingest keeps the links of sites that are still    *)
(* there, and a resolution makes all of them again.                          *)
LEMMA NextFromSources == IInv /\ FromSources /\ [Next]_vars => FromSources'
<1> SUFFICES ASSUME IInv, FromSources, [Next]_vars, ~paged', ~loaded' PROVE FromSources'
  BY DEF FromSources
<1>0. /\ Versioned /\ Placed /\ \A e \in edges : e[1][2] \in Files
  BY DEF IInv, Placed
<1>a. ASSUME ~paged, ~loaded
      PROVE  /\ DOMAIN cold = {}
             /\ \A f \in Files : parsed[f] = src[f]
             /\ \A n : n \in res <=> \E f \in Files : src[f] # 0 /\ n \in Nodes(f, src[f])
             /\ \A e \in edges : e[1][1] # "file" => Sites(Live, e) # {}
             /\ ~dirty => edges = ResolveAll(Live, {})
  BY <1>a DEF FromSources
<1>b. ASSUME NEW e, e[1][2] \in Files, parsed'[e[1][2]] = parsed[e[1][2]]
      PROVE  Sites(Live', e) = Sites(Live, e)
  BY <1>b, DeclStays DEF Sites
<1>c. ASSUME UNCHANGED <<res, cold, marks, parsed, src, edges, paged, loaded>>,
             dirty' \/ dirty' = dirty
      PROVE  FromSources'
  <2>1. Live' = Live
    BY <1>c DEF Live
  <2>2. /\ DOMAIN cold' = {}
        /\ \A f \in Files : parsed'[f] = src'[f]
        /\ \A n : n \in res' <=> \E f \in Files : src'[f] # 0 /\ n \in Nodes(f, src'[f])
        /\ \A e \in edges' : e[1][1] # "file" => Sites(Live', e) # {}
        /\ ~dirty' => edges' = ResolveAll(Live', {})
    BY <1>a, <1>c, <2>1
  <2> QED
    BY <2>2 DEF FromSources
<1>1. ASSUME NEW f \in Files, NEW v \in Versions(f), IngestDeferred(f, v)
      PROVE  FromSources'
  <2>0. ~paged /\ ~loaded /\ dirty' /\ UNCHANGED <<paged, loaded>>
    BY <1>0, <1>1, IngestChanges
  <2>1. CASE src[f] = v
    BY <1>0, <1>1, <1>c, <2>0, <2>1, IngestChanges
  <2>2. CASE src[f] # v
    <3>1. /\ src'[f] = v /\ parsed'[f] = v /\ v \in Nat \ {0}
          /\ \A h \in Files \ {f} : src'[h] = src[h] /\ parsed'[h] = parsed[h]
          /\ res' = {n \in res : n[2] # f} \cup Nodes(f, v)
          /\ edges' = {e \in edges : e[1][2] # f /\ e[2][2] # f}
          /\ DOMAIN cold' = DOMAIN cold \ Nodes(f, v)
      BY <1>0, <1>1, <2>2, IngestChanges
    <3>2. DOMAIN cold' = {} /\ \A h \in Files : parsed'[h] = src'[h]
      BY <1>a, <2>0, <3>1
    <3>3. ASSUME NEW n
          PROVE  n \in res' <=> \E h \in Files : src'[h] # 0 /\ n \in Nodes(h, src'[h])
      <4>1. n \in res <=> \E h \in Files : src[h] # 0 /\ n \in Nodes(h, src[h])
        BY <1>a, <2>0
      <4>2. \A h \in Files : \A w : n \in Nodes(h, w) => n[2] = h
        BY NodesAreOfTheirFile
      <4> QED
        BY <3>1, <4>1, <4>2
    <3>4. ASSUME NEW e \in edges', e[1][1] # "file" PROVE Sites(Live', e) # {}
      <4>1. e \in edges /\ e[1][2] \in Files \ {f}
        BY <1>0, <3>1
      <4> QED
        BY <1>a, <1>b, <2>0, <3>1, <3>4, <4>1
    <3> QED
      BY <2>0, <3>2, <3>3, <3>4 DEF FromSources
  <2> QED
    BY <2>1, <2>2
<1>2. CASE Resolve
  <2>1. /\ edges' = ResolveAll(Live, edges)
        /\ UNCHANGED <<res, cold, parsed, marks, src, paged, loaded>>
        /\ \A e \in edges' : e \notin Pruned(Live, edges) =>
             (e[1][1] # "file" => Sites(Live, e) # {})
    BY <1>0, <1>2, ResolveChanges
  <2>2. Pruned(Live, edges) = {} /\ Pruned(Live, {}) = {}
    BY <1>a, <2>1, PrunedIs
  <2>3. edges' = ResolveAll(Live, {})
    BY <2>1, <2>2 DEF ResolveAll
  <2>4. Live' = Live
    BY <2>1 DEF Live
  <2>5. \A e \in edges' : e[1][1] # "file" => Sites(Live', e) # {}
    BY <2>1, <2>2, <2>4
  <2> QED
    BY <1>a, <2>1, <2>3, <2>4, <2>5 DEF FromSources
<1>3. ~Reload
  BY DEF Reload
<1>4. ASSUME NEW n \in Pageable, Demote(n) PROVE FALSE
  BY <1>0, <1>4, DemoteChanges
<1>5. ASSUME NEW n \in Pageable, PageIn(n) PROVE FALSE
  BY <1>0, <1>5, <1>a, PageInChanges
<1>6. CASE UNCHANGED vars
  BY <1>6, <1>c DEF vars
<1> QED
  BY <1>1, <1>2, <1>3, <1>4, <1>5, <1>6 DEF Next

(* The graph that parsing the current versions makes is the same, to a       *)
(* resolution, as the current one.                                           *)
LEMMA FreshIsSame ==
  ASSUME Versioned, FromSources, ~paged, ~loaded, DataSymbols(Live) = DataSymbols(Fresh)
  PROVE  Same(Live, Fresh)
<1> DEFINE there == {f \in Files : src[f] # 0}
<1>1. Fresh.res = UNION {Nodes(f, src[f]) : f \in there} /\ Fresh.decl = Pending(src)
  BY DEF Fresh, Graph
<1>2. Fresh.res = res
  BY <1>1 DEF FromSources
<1>3. Live.res = res /\ Live.decl = Pending(parsed)
  BY DEF Live, Graph
<1>4. parsed = src
  BY DEF FromSources, Versioned
<1> QED
  BY <1>1, <1>2, <1>3, <1>4 DEF Same

(* resolve_all is a function of the final sources: until something is demoted *)
(* or reloaded, and where no mark of an earlier version is left, the resolved *)
(* links are those that parsing the current versions afresh and resolving once *)
(* makes, whatever the ingests, their order and the resolutions in between.  *)
THEOREM LinksComeOfSources == Spec => []ResolvedFromSources
<1>1. Init => IInv /\ FromSources
  BY InitIInv, InitFromSources
<1>2. IInv /\ FromSources /\ [Next]_vars => IInv' /\ FromSources'
  BY NextIInv, NextFromSources
<1>3. IInv /\ FromSources => ResolvedFromSources
  <2> SUFFICES ASSUME IInv, FromSources, ~dirty, ~paged, ~loaded,
                      DataSymbols(Live) = DataSymbols(Fresh)
               PROVE  edges = ResolveAll(Fresh, {})
    BY DEF ResolvedFromSources
  <2>1. edges = ResolveAll(Live, {})
    BY DEF FromSources
  <2> QED
    BY <2>1, FreshIsSame, SameLinks DEF IInv
<1> QED
  BY <1>1, <1>2, <1>3, PTL DEF Spec

=============================================================================
