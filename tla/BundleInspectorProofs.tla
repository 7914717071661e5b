------------------------- MODULE BundleInspectorProofs -------------------------
(***************************************************************************)
(* Proofs about BundleInspector, for any bucket, any number of users and   *)
(* listings and any result files. A listing in flight waits in a container *)
(* that shows "loading" and is asked for once, so whatever an answer draws *)
(* into is closed; that ends with a change of user or a second request     *)
(* while a listing is in flight, which is what raced records. Labels that  *)
(* tell the themes of a bucket apart are a hypothesis of one theorem. The  *)
(* rows of a result are told apart by the ends of rows, numbered by rank.  *)
(***************************************************************************)
EXTENDS BundleInspector, FiniteSetTheorems, SequenceTheorems, WellFoundedInduction, TLAPS

-----------------------------------------------------------------------------
(* Paths.                                                                  *)

\* The part of a path that comes before position n.
LEMMA CutIsPath ==
    ASSUME NEW S, NEW q \in Seq(S), NEW n \in 0 .. Len(q)
    PROVE  /\ SubSeq(q, 1, n) \in Seq(S)
           /\ Len(SubSeq(q, 1, n)) = n
           /\ \A i \in 1 .. n : SubSeq(q, 1, n)[i] = q[i]
<1>1. \A i \in 1 .. n : q[i] \in S
  BY LenProperties, ElementOfSeq
<1> QED
  BY <1>1, SubSeqProperties, LenProperties

\* Cutting twice is cutting at the earlier place.
LEMMA CutOfCut ==
    ASSUME NEW S, NEW q \in Seq(S), NEW n \in 0 .. Len(q), NEW m \in 0 .. n
    PROVE  SubSeq(SubSeq(q, 1, n), 1, m) = SubSeq(q, 1, m)
<1>1. m \in 0 .. Len(q)
  BY LenProperties
<1>2. /\ SubSeq(q, 1, n) \in Seq(S) /\ Len(SubSeq(q, 1, n)) = n
      /\ \A i \in 1 .. n : SubSeq(q, 1, n)[i] = q[i]
  BY CutIsPath
<1>3. /\ SubSeq(SubSeq(q, 1, n), 1, m) \in Seq(S)
      /\ Len(SubSeq(SubSeq(q, 1, n), 1, m)) = m
      /\ \A i \in 1 .. m : SubSeq(SubSeq(q, 1, n), 1, m)[i] = SubSeq(q, 1, n)[i]
  BY <1>2, CutIsPath
<1>4. /\ SubSeq(q, 1, m) \in Seq(S) /\ Len(SubSeq(q, 1, m)) = m
      /\ \A i \in 1 .. m : SubSeq(q, 1, m)[i] = q[i]
  BY <1>1, CutIsPath
<1>5. \A i \in 1 .. m : SubSeq(SubSeq(q, 1, n), 1, m)[i] = SubSeq(q, 1, m)[i]
  BY <1>2, <1>3, <1>4
<1> QED
  BY <1>3, <1>4, <1>5, SeqEqual

\* A strict prefix is a cut.
LEMMA PrefixIsCut ==
    ASSUME NEW S, NEW p \in Seq(S), NEW q \in Seq(S), IsStrictPrefix(p, q)
    PROVE  /\ Len(p) \in Nat /\ Len(q) \in Nat /\ Len(p) < Len(q)
           /\ SubSeq(q, 1, Len(p)) = p
<1>1. Len(p) <= Len(q) /\ p # q
  BY DEF IsStrictPrefix, IsPrefix
<1>2. SubSeq(q, 1, Len(p)) = p
  <2>1. SubSeq(p, 1, Len(p)) = SubSeq(q, 1, Len(p))
    BY DEF IsStrictPrefix, IsPrefix
  <2>2. SubSeq(p, 1, Len(p)) = p
    BY SubSeqFull
  <2> QED
    BY <2>1, <2>2
<1>3. Len(p) \in Nat /\ Len(q) \in Nat
  BY LenProperties
<1>4. ASSUME Len(p) = Len(q)
      PROVE  FALSE
  <2>1. SubSeq(q, 1, Len(q)) = q
    BY SubSeqFull
  <2>2. SubSeq(q, 1, Len(p)) = q
    BY <1>4, <2>1
  <2> QED
    BY <1>1, <1>2, <2>2
<1>5. Len(p) < Len(q)
  BY <1>1, <1>3, <1>4
<1> QED
  BY <1>2, <1>3, <1>5

LEMMA CutIsPrefix ==
    ASSUME NEW S, NEW q \in Seq(S), NEW n \in 0 .. Len(q) - 1
    PROVE  IsStrictPrefix(SubSeq(q, 1, n), q)
<1>1. Len(q) \in Nat /\ n \in 0 .. Len(q)
  BY LenProperties
<1>2. SubSeq(q, 1, n) \in Seq(S) /\ Len(SubSeq(q, 1, n)) = n
  BY <1>1, CutIsPath
<1>3. SubSeq(SubSeq(q, 1, n), 1, n) = SubSeq(q, 1, n)
  BY <1>2, SubSeqFull
<1>4. SubSeq(q, 1, n) # q
  BY <1>1, <1>2
<1> QED
  BY <1>1, <1>2, <1>3, <1>4 DEF IsStrictPrefix, IsPrefix

LEMMA RootIsAbove ==
    ASSUME NEW S, NEW q \in Seq(S) \ {<<>>}
    PROVE  IsStrictPrefix(<<>>, q)
<1>1. Len(<<>>) = 0 /\ Len(q) \in Nat
  BY EmptySeq, LenProperties
<1>2. SubSeq(<<>>, 1, 0) = <<>> /\ SubSeq(q, 1, 0) = <<>>
  BY SubSeqEmpty
<1> QED
  BY <1>1, <1>2 DEF IsStrictPrefix, IsPrefix

\* The beginning of a prefix is a cut.
LEMMA PrefixOfPrefix ==
    ASSUME NEW S, NEW p \in Seq(S) \ {<<>>}, NEW r \in Seq(S), NEW q \in Seq(S),
           IsStrictPrefix(p \o r, q)
    PROVE  \E n \in DOMAIN q : p = SubSeq(q, 1, n)
<1> DEFINE m == Len(p)
           k == Len(p \o r)
<1>1. /\ m \in Nat \ {0} /\ Len(r) \in Nat
      /\ p \o r \in Seq(S) /\ k = m + Len(r)
      /\ \A i \in 1 .. m : (p \o r)[i] = p[i]
  BY EmptySeq, LenProperties, ConcatProperties
<1>2. Len(q) \in Nat /\ k < Len(q) /\ SubSeq(q, 1, k) = p \o r /\ DOMAIN q = 1 .. Len(q)
  BY <1>1, PrefixIsCut, LenProperties
<1> HIDE DEF m, k
<1>3. m \in 1 .. Len(q) /\ m \in 0 .. k /\ k \in 0 .. Len(q)
  BY <1>1, <1>2
<1>4. SubSeq(p \o r, 1, m) = p
  <2>1. /\ SubSeq(p \o r, 1, m) \in Seq(S) /\ Len(SubSeq(p \o r, 1, m)) = m
        /\ \A i \in 1 .. m : SubSeq(p \o r, 1, m)[i] = (p \o r)[i]
    BY <1>1, <1>3, CutIsPath DEF k
  <2> QED
    BY <1>1, <2>1, SeqEqual DEF m
<1>5. SubSeq(SubSeq(q, 1, k), 1, m) = SubSeq(q, 1, m)
  BY <1>3, CutOfCut
<1> QED
  BY <1>2, <1>3, <1>4, <1>5

\* A path longer by one segment.
LEMMA LongerPath ==
    ASSUME NEW S, NEW p \in Seq(S), NEW e \in S
    PROVE  /\ Append(p, e) \in Seq(S) /\ Append(p, e) # <<>>
           /\ Len(Append(p, e)) = Len(p) + 1
           /\ Front(Append(p, e)) = p /\ Last(Append(p, e)) = e
           /\ \A n \in 0 .. Len(p) : SubSeq(Append(p, e), 1, n) = SubSeq(p, 1, n)
<1>0. Len(p) \in Nat
  BY LenProperties
<1>1. /\ Append(p, e) \in Seq(S) /\ Append(p, e) # <<>>
      /\ Len(Append(p, e)) = Len(p) + 1
      /\ \A i \in 1 .. Len(p) : Append(p, e)[i] = p[i]
      /\ Append(p, e)[Len(p) + 1] = e
  BY AppendProperties
<1>2. ASSUME NEW n \in 0 .. Len(p)
      PROVE  SubSeq(Append(p, e), 1, n) = SubSeq(p, 1, n)
  <2>1. n \in 0 .. Len(Append(p, e))
    BY <1>0, <1>1
  <2>2. /\ SubSeq(Append(p, e), 1, n) \in Seq(S) /\ Len(SubSeq(Append(p, e), 1, n)) = n
        /\ \A i \in 1 .. n : SubSeq(Append(p, e), 1, n)[i] = Append(p, e)[i]
    BY <2>1, <1>1, CutIsPath
  <2>3. /\ SubSeq(p, 1, n) \in Seq(S) /\ Len(SubSeq(p, 1, n)) = n
        /\ \A i \in 1 .. n : SubSeq(p, 1, n)[i] = p[i]
    BY CutIsPath
  <2>4. \A i \in 1 .. n : SubSeq(Append(p, e), 1, n)[i] = SubSeq(p, 1, n)[i]
    BY <1>0, <1>1, <2>2, <2>3
  <2> QED
    BY <2>2, <2>3, <2>4, SeqEqual
<1>3. Front(Append(p, e)) = p
  <2>1. Front(Append(p, e)) = SubSeq(Append(p, e), 1, Len(p))
    BY <1>0, <1>1 DEF Front
  <2>2. SubSeq(p, 1, Len(p)) = p
    BY SubSeqFull
  <2> QED
    BY <1>0, <1>2, <2>1, <2>2
<1>4. Last(Append(p, e)) = e
  BY <1>1 DEF Last
<1> QED
  BY <1>1, <1>2, <1>3, <1>4

-----------------------------------------------------------------------------
(* What the server lists.                                                  *)

LEMMA ObjectsHavePaths ==
    ASSUME NEW o \in Objects
    PROVE  o.path \in Seq(Segments) /\ Len(o.path) \in Nat
<1>1. o.path \in Seq(Segments)
  BY TreeAssumption
<1> QED
  BY <1>1, LenProperties

LEMMA ListedAreItems ==
    ASSUME NEW u, NEW p \in Seq(Segments)
    PROVE  list_children(u, p) \subseteq Items
<1>1. ASSUME NEW ns
      PROVE  list_prefix(ns, p) \subseteq Items
  <2> SUFFICES ASSUME NEW o \in Objects, IsStrictPrefix(p, o.path)
               PROVE  [seg |-> o.path[Len(p) + 1], dir |-> Len(o.path) > Len(p) + 1] \in Items
    BY DEF list_prefix
  <2>1. o.path \in Seq(Segments)
    BY ObjectsHavePaths
  <2>2. Len(p) \in Nat /\ Len(o.path) \in Nat /\ Len(p) < Len(o.path)
    BY <2>1, PrefixIsCut
  <2>3. o.path[Len(p) + 1] \in Segments
    BY <2>1, <2>2, ElementOfSeq
  <2>4. (Len(o.path) > Len(p) + 1) \in BOOLEAN
    OBVIOUS
  <2> QED
    BY <2>3, <2>4 DEF Items
<1>2. \A items, stage, depth : filter_bundle_level(items, stage, depth) \subseteq items
  BY DEF filter_bundle_level
<1>3. CASE p = <<>>
  <2>1. \A s \in KnownStages : <<NoKey, s>> \in Segments
    BY DEF Segments
  <2>2. list_children(u, p) = {[seg |-> <<NoKey, s>>, dir |-> TRUE] : s \in KnownStages}
    BY <1>3 DEF list_children
  <2>3. \A s \in KnownStages : [seg |-> <<NoKey, s>>, dir |-> TRUE] \in Items
    BY <2>1 DEF Items
  <2> QED
    BY <2>2, <2>3
<1>4. CASE p # <<>>
  BY <1>1, <1>2, <1>4 DEF list_children
<1> QED
  BY <1>3, <1>4

\* The environment alone, besides the user asked for, decides the namespace.
LEMMA ListingsStay ==
    ASSUME environment' = environment
    PROVE  /\ \A u : namespace(u)' = namespace(u)
           /\ \A u, p : list_children(u, p)' = list_children(u, p)
<1>1. \A u : namespace(u)' = namespace(u)
  BY DEF namespace
<1>2. \A u, p : list_children(u, p)' = list_children(u, p)
  BY <1>1 DEF list_children
<1> QED
  BY <1>1, <1>2

-----------------------------------------------------------------------------
(* What is drawn.                                                          *)

LEMMA ContainersAreLonger ==
    ASSUME NEW p \in Seq(Segments), NEW items \in SUBSET Items,
           NEW q \in ContainersOf(p, items)
    PROVE  /\ q \in Paths /\ Len(q) = Len(p) + 1
           /\ \A n \in 0 .. Len(p) : SubSeq(q, 1, n) = SubSeq(p, 1, n)
<1>1. PICK i \in items : q = Append(p, i.seg)
  BY DEF ContainersOf
<1>2. i.seg \in Segments
  BY DEF Items
<1> QED
  BY <1>1, <1>2, LongerPath DEF Paths

LEMMA DrawnArePaths ==
    ASSUME NEW t, DOMAIN t \subseteq Paths, t \in [DOMAIN t -> Nodes],
           NEW p \in Seq(Segments), NEW items \in SUBSET Items
    PROVE  Drawn(t, p, items) \subseteq Paths
<1> SUFFICES ASSUME NEW q \in ContainersOf(p, items) \cup Candidates(t)
             PROVE  q \in Paths
  BY DEF Drawn
<1>1. CASE q \in ContainersOf(p, items)
  BY <1>1, ContainersAreLonger
<1>2. CASE q \in Candidates(t)
  <2>1. PICK c \in DOMAIN t : q \in ContainersOf(c, t[c].children)
    BY <1>2 DEF Candidates
  <2>2. c \in Seq(Segments) /\ t[c].children \in SUBSET Items
    BY DEF Paths, Nodes
  <2> QED
    BY <2>1, <2>2, ContainersAreLonger
<1> QED
  BY <1>1, <1>2

LEMMA RenderedShape ==
    ASSUME ShapeInv, NEW t, DOMAIN t \subseteq Paths, t \in [DOMAIN t -> Nodes],
           NEW p \in Seq(Segments), NEW items \in SUBSET Items
    PROVE  /\ DOMAIN renderChildren(t, p, items) \subseteq Seq(Segments)
           /\ renderChildren(t, p, items) \in
                [DOMAIN renderChildren(t, p, items) -> Containers]
<1> DEFINE d == renderChildren(t, p, items)
<1>1. /\ DOMAIN d = (DOMAIN dom \ Below(p)) \cup Drawn(t, p, items) \cup {p}
      /\ d = [q \in DOMAIN d |-> d[q]]
      /\ d[p] = [view |-> "open", items |-> items]
      /\ \A q \in Drawn(t, p, items) : q # p => d[q] = renderNode(t, q)
      /\ \A q \in DOMAIN dom \ Below(p) :
           (q # p /\ q \notin Drawn(t, p, items)) => d[q] = dom[q]
  BY DEF renderChildren
<1> HIDE DEF d
<1>2. Drawn(t, p, items) \subseteq Seq(Segments)
  BY DrawnArePaths DEF Paths
<1>3. DOMAIN dom \subseteq Seq(Segments) /\ \A q \in DOMAIN dom : dom[q] \in Containers
  BY DEF ShapeInv
<1>4. ASSUME NEW q
      PROVE  renderNode(t, q) \in Containers
  <2>1. CASE Open(t, q)
    <3>1. t[q] \in Nodes
      BY <2>1 DEF Open, Cached
    <3>2. t[q].children \in SUBSET Items
      BY <3>1 DEF Nodes
    <3> QED
      BY <2>1, <3>2 DEF renderNode, Containers
  <2>2. CASE ~Open(t, q)
    BY <2>2 DEF renderNode, Closed, Containers
  <2> QED
    BY <2>1, <2>2
<1>5. [view |-> "open", items |-> items] \in Containers
  BY DEF Containers
<1>6. \A q \in DOMAIN d : d[q] \in Containers
  BY <1>1, <1>3, <1>4, <1>5
<1>7. DOMAIN d \subseteq Seq(Segments)
  BY <1>1, <1>2, <1>3
<1>8. d \in [DOMAIN d -> Containers]
  BY <1>1, <1>6
<1> QED
  BY <1>7, <1>8 DEF d

LEMMA BlankShape ==
    ASSUME ShapeInv, NEW p, NEW view \in {"closed", "loading", "error"}
    PROVE  /\ DOMAIN Blank(p, view) = DOMAIN dom \ Below(p)
           /\ Blank(p, view) \in [DOMAIN Blank(p, view) -> Containers]
BY DEF ShapeInv, Blank, Containers

LEMMA DetachedShape ==
    ASSUME NEW reqs \in SUBSET Requests, NEW p
    PROVE  /\ Detach(reqs, p) \subseteq Requests
           /\ \A l \in Detach(reqs, p) :
                l.live => l \in reqs /\ ~IsStrictPrefix(p, l.prefix)
BY DEF Detach, Requests

-----------------------------------------------------------------------------
(* What the component panel offers.                                        *)

LEMMA DirsAreSegments ==
    ASSUME NEW ns, NEW p \in Seq(Segments), NEW seg \in Dirs(ns, p)
    PROVE  /\ seg \in Segments
           /\ \E o \in Objects : o.ns = ns /\ IsStrictPrefix(p \o <<seg>>, o.path)
<1>1. PICK i \in list_prefix(ns, p) : i.dir /\ seg = i.seg
  BY DEF Dirs
<1>2. PICK o \in Objects :
        /\ o.ns = ns /\ IsStrictPrefix(p, o.path)
        /\ i = [seg |-> o.path[Len(p) + 1], dir |-> Len(o.path) > Len(p) + 1]
  BY DEF list_prefix
<1>3. Len(o.path) > Len(p) + 1 /\ seg = o.path[Len(p) + 1]
  BY <1>1, <1>2
<1>4. o.path \in Seq(Segments)
  BY ObjectsHavePaths
<1>5. /\ Len(p) \in Nat /\ Len(o.path) \in Nat
      /\ SubSeq(o.path, 1, Len(p)) = p
  BY <1>2, <1>4, PrefixIsCut
<1>6. seg \in Segments
  BY <1>3, <1>4, <1>5, ElementOfSeq
<1>7. SubSeq(o.path, 1, Len(p) + 1) = p \o <<seg>>
  <2>1. SubSeq(o.path, 1, Len(p) + 1)
          = SubSeq(o.path, 1, Len(p) + 1 - 1) \o <<o.path[Len(p) + 1]>>
    BY <1>3, <1>4, <1>5, SubSeqRecursiveSecond
  <2>2. Len(p) + 1 - 1 = Len(p)
    BY <1>5
  <2> QED
    BY <1>3, <1>5, <2>1, <2>2
<1>8. IsStrictPrefix(SubSeq(o.path, 1, Len(p) + 1), o.path)
  <2>1. Len(p) + 1 \in 0 .. Len(o.path) - 1
    BY <1>3, <1>5
  <2> QED
    BY <1>4, <2>1, CutIsPrefix
<1> QED
  BY <1>2, <1>6, <1>7, <1>8

LEMMA ThemesAreThere ==
    ASSUME NEW ns, NEW p \in Seq(Segments), NEW e \in theme_entries(ns, p)
    PROVE  /\ e \in ThemeEntries
           /\ \E o \in Objects : o.ns = ns /\ IsStrictPrefix(p \o e.rel, o.path)
<1> DEFINE entry(rel) == [label |-> [n \in DOMAIN rel |-> rel[n][2]], rel |-> rel]
           below == {o \in Objects : o.ns = ns /\ IsPrefix(p, o.path)}
           rels(o) == {SubSeq(o.path, Len(p) + 1, n) : n \in Len(p) + 1 .. Len(o.path) - 1}
<1>0. PICK r \in UNION {rels(o) : o \in below} : e = entry(r)
  BY DEF theme_entries
<1>1. PICK o \in below : r \in rels(o)
  BY <1>0
<1>2. PICK n \in Len(p) + 1 .. Len(o.path) - 1 : r = SubSeq(o.path, Len(p) + 1, n)
  BY <1>1
<1>3. /\ o.path \in Seq(Segments) /\ Len(p) \in Nat /\ Len(o.path) \in Nat
      /\ n \in Nat /\ Len(p) < n /\ n < Len(o.path)
  BY LenProperties, ObjectsHavePaths
<1>4. SubSeq(o.path, 1, Len(p)) = p
  BY SubSeqFull DEF IsPrefix
<1>5. p \o r = SubSeq(o.path, 1, n)
  <2>1. 1 \in 1 .. Len(o.path) + 1 /\ Len(p) \in 1 - 1 .. Len(o.path) /\ n \in Len(p) .. Len(o.path)
    BY <1>3
  <2>2. SubSeq(o.path, 1, Len(p)) \o SubSeq(o.path, Len(p) + 1, n) = SubSeq(o.path, 1, n)
    BY <1>3, <2>1, ConcatAdjacentSubSeq
  <2> QED
    BY <1>2, <1>4, <2>2
<1>6. IsStrictPrefix(p \o r, o.path)
  <2>1. n \in 0 .. Len(o.path) - 1
    BY <1>3
  <2> QED
    BY <1>3, <1>5, <2>1, CutIsPrefix
<1>7. r \in Seq(Segments)
  <2>1. \A i \in Len(p) + 1 .. n : o.path[i] \in Segments
    BY <1>3, ElementOfSeq
  <2> QED
    BY <1>2, <1>3, <2>1, SubSeqProperties
<1>8. entry(r).label \in Seq({s[2] : s \in Segments})
  <2>1. Len(r) \in Nat /\ DOMAIN r = 1 .. Len(r)
    BY <1>7, LenProperties
  <2>2. \A i \in 1 .. Len(r) : r[i] \in Segments
    BY <1>7, ElementOfSeq
  <2>3. entry(r).label \in [1 .. Len(r) -> {s[2] : s \in Segments}]
    BY <2>1, <2>2
  <2> QED
    BY <2>1, <2>3, SeqDef
<1>9. e \in ThemeEntries /\ e.rel = r
  BY <1>0, <1>7, <1>8 DEF ThemeEntries
<1> QED
  BY <1>6, <1>9

\* A type belongs to an entry with the label it was asked for.
LEMMA TypesAreThere ==
    ASSUME NEW ns, NEW p \in Seq(Segments),
           NEW e \in theme_entries(ns, p), NEW s \in types_by_theme(ns, p, e.label)
    PROVE  \E d \in theme_entries(ns, p) :
             /\ d.label = e.label
             /\ s \in Segments
             /\ \E o \in Objects : /\ o.ns = ns
                                  /\ IsStrictPrefix((p \o d.rel) \o <<s>>, o.path)
<1> DEFINE d == CHOOSE x \in theme_entries(ns, p) : x.label = e.label
<1>1. d \in theme_entries(ns, p) /\ d.label = e.label
  OBVIOUS
<1>2. s \in Dirs(ns, p \o d.rel)
  BY DEF types_by_theme
<1> HIDE DEF d
<1>3. p \o d.rel \in Seq(Segments)
  <2>0. d \in ThemeEntries
    BY <1>1, ThemesAreThere
  <2>1. d.rel \in Seq(Segments)
    BY <2>0 DEF ThemeEntries
  <2> QED
    BY <2>1, ConcatProperties
<1>4. /\ s \in Segments
      /\ \E o \in Objects : o.ns = ns /\ IsStrictPrefix((p \o d.rel) \o <<s>>, o.path)
  BY <1>2, <1>3, DirsAreSegments
<1> QED
  BY <1>1, <1>4

-----------------------------------------------------------------------------
(* The shape of the state.                                                 *)

LEMMA ShapeInit == ASSUME TreeInit PROVE ShapeInv
<1>1. MaxListings \in Nat /\ MaxSwitches \in Nat
  BY TreeAssumption
<1>2. EmptyTree = [p \in {} |-> {}] /\ DOMAIN EmptyTree = {}
  BY DEF EmptyTree
<1>3. tree \in [DOMAIN tree -> Nodes] /\ dom \in [DOMAIN dom -> Containers]
  BY <1>2 DEF TreeInit
<1>4. panel \in Panels
  BY DEF TreeInit, Panels
<1>5. user \in Users \cup {NoUser}
  BY DEF TreeInit
<1>6. /\ asked \in 0 .. MaxListings /\ switches \in 0 .. MaxSwitches
      /\ refreshing \in 0 .. switches + 1
  BY <1>1 DEF TreeInit
<1>7. /\ DOMAIN tree = {} /\ DOMAIN dom = {} /\ listings = {}
      /\ environment \in {"dev", "prod"} /\ raced = FALSE
  BY <1>2 DEF TreeInit
<1> QED
  BY <1>3, <1>4, <1>5, <1>6, <1>7 DEF ShapeInv

LEMMA RowsArePaths == ASSUME ShapeInv PROVE Rows \subseteq Paths
<1> SUFFICES ASSUME NEW r \in Rows
             PROVE  r \in Paths
  OBVIOUS
<1>8. PICK p \in DOMAIN dom : r \in {Append(p, i.seg) : i \in dom[p].items}
  BY DEF Rows
<1>9. PICK i \in dom[p].items : r = Append(p, i.seg)
  BY <1>8
<1>1. p \in Seq(Segments) /\ dom[p].items \in SUBSET Items
  BY DEF ShapeInv, Containers
<1>2. i.seg \in Segments
  BY <1>1 DEF Items
<1> QED
  BY <1>9, <1>1, <1>2, LongerPath DEF Paths

LEMMA RunPanelShape ==
    ASSUME ShapeInv, NEW p \in Paths, NEW children \in SUBSET Items
    PROVE  PanelAfter(p, children) \in Panels
BY DEF ShapeInv, PanelAfter, RunPanel, Panels

LEMMA CollapseShape ==
    ASSUME ShapeInv, NEW p \in DOMAIN dom, Collapse(p)
    PROVE  ShapeInv'
<1>1. /\ DOMAIN tree' = DOMAIN tree /\ tree' \in [DOMAIN tree -> Nodes]
      /\ DOMAIN dom' = DOMAIN dom /\ dom' \in [DOMAIN dom -> Containers]
  BY DEF ShapeInv, Collapse, Open, Cached, Nodes, Containers
<1> QED
  BY <1>1 DEF ShapeInv, Collapse

LEMMA ExpandShape ==
    ASSUME ShapeInv, NEW p \in DOMAIN dom, Expand(p)
    PROVE  ShapeInv'
<1>1. /\ DOMAIN tree' = DOMAIN tree /\ tree' \in [DOMAIN tree -> Nodes]
      /\ DOMAIN dom' = DOMAIN dom /\ dom' \in [DOMAIN dom -> Containers]
  BY DEF ShapeInv, Expand, Open, Cached, Nodes, Containers
<1>2. p \in Paths /\ tree[p].children \in SUBSET Items
  BY DEF ShapeInv, Expand, Cached, Nodes
<1>3. panel' \in Panels
  BY <1>2, RunPanelShape DEF Expand
<1> QED
  BY <1>1, <1>3 DEF ShapeInv, Expand

LEMMA RequestShape ==
    ASSUME ShapeInv, NEW p \in Paths, p \in DOMAIN dom, Request(p)
    PROVE  ShapeInv'
<1> DEFINE new == [id |-> asked, prefix |-> p, user |-> user, live |-> TRUE]
<1>1. DOMAIN dom' = DOMAIN dom \ Below(p) /\ dom' \in [DOMAIN dom' -> Containers]
  BY BlankShape DEF Request
<1>2. /\ Detach(listings, p) \subseteq Requests
      /\ \A l \in Detach(listings, p) :
           l.live => l \in listings /\ ~IsStrictPrefix(p, l.prefix)
  BY DetachedShape DEF ShapeInv
<1>3. new \in Requests /\ asked' \in 0 .. MaxListings
  BY TreeAssumption DEF ShapeInv, Request, Requests
<1>4. ~IsStrictPrefix(p, p)
  BY DEF IsStrictPrefix
<1>5. \A l \in listings' : l.live => l.prefix \in DOMAIN dom'
  <2> SUFFICES ASSUME NEW l \in listings', l.live
               PROVE  l.prefix \in DOMAIN dom /\ ~IsStrictPrefix(p, l.prefix)
    BY <1>1 DEF Below
  <2>1. CASE l = new
    BY <1>4, <2>1
  <2>2. CASE l \in Detach(listings, p)
    BY <1>2, <2>2 DEF ShapeInv
  <2> QED
    BY <2>1, <2>2 DEF Request
<1>6. raced' \in BOOLEAN
  BY DEF ShapeInv, Request
<1> HIDE DEF new
<1>7. listings' \subseteq Requests
  BY <1>2, <1>3 DEF Request, new
<1> QED
  BY <1>1, <1>3, <1>5, <1>6, <1>7 DEF ShapeInv, Request

LEMMA AnswerShape ==
    ASSUME ShapeInv, NEW l \in listings, ListingAnswers(l)
    PROVE  ShapeInv'
<1> DEFINE children == list_children(l.user, l.prefix)
           stored == [p \in DOMAIN tree \cup {l.prefix} |->
                        IF p = l.prefix THEN [expanded |-> TRUE, children |-> children]
                        ELSE tree[p]]
           drawn == renderChildren(stored, l.prefix, children)
<1>1. l.prefix \in Paths /\ l.prefix \in Seq(Segments)
  BY DEF ShapeInv, Requests, Paths
<1>2. children \in SUBSET Items
  BY <1>1, ListedAreItems
<1> HIDE DEF children
<1>3. DOMAIN stored \subseteq Paths /\ stored \in [DOMAIN stored -> Nodes]
  <2>1. [expanded |-> TRUE, children |-> children] \in Nodes
    BY <1>2 DEF Nodes
  <2> QED
    BY <1>1, <2>1 DEF ShapeInv
<1>4. tree' = stored
  BY DEF ListingAnswers, children
<1>5. panel' \in Panels
  BY <1>1, <1>2, RunPanelShape DEF ListingAnswers, children
<1>6. /\ DOMAIN dom' \subseteq Seq(Segments) /\ dom' \in [DOMAIN dom' -> Containers]
      /\ listings' \subseteq Requests
      /\ \A k \in listings' : k.live => k.prefix \in DOMAIN dom'
  <2>1. CASE l.live
    <3>1. dom' = [drawn EXCEPT ![l.prefix].view =
                    IF dom[l.prefix].view = "closed" THEN "closed" ELSE "open"]
      BY <2>1 DEF ListingAnswers, children
    <3>2. listings' = Detach(listings \ {l}, l.prefix)
      BY <2>1 DEF ListingAnswers
    <3> HIDE DEF stored
    <3>3. /\ DOMAIN drawn \subseteq Seq(Segments)
          /\ drawn \in [DOMAIN drawn -> Containers]
      BY <1>1, <1>2, <1>3, RenderedShape
    <3>4. DOMAIN drawn = (DOMAIN dom \ Below(l.prefix))
                           \cup Drawn(stored, l.prefix, children) \cup {l.prefix}
      BY DEF renderChildren
    <3> HIDE DEF drawn
    <3>5. DOMAIN dom' = DOMAIN drawn /\ dom' \in [DOMAIN drawn -> Containers]
      BY <3>1, <3>3 DEF Containers
    <3>6. /\ Detach(listings \ {l}, l.prefix) \subseteq Requests
          /\ \A k \in Detach(listings \ {l}, l.prefix) :
               k.live => k \in listings \ {l} /\ ~IsStrictPrefix(l.prefix, k.prefix)
      <4>1. listings \ {l} \in SUBSET Requests
        BY DEF ShapeInv
      <4> QED
        BY <4>1, DetachedShape
    <3>7. ASSUME NEW k \in listings', k.live
          PROVE  k.prefix \in DOMAIN dom'
      <4>1. k \in listings /\ ~IsStrictPrefix(l.prefix, k.prefix)
        BY <3>2, <3>6, <3>7
      <4>2. k.prefix \in DOMAIN dom \ Below(l.prefix)
        BY <3>7, <4>1 DEF ShapeInv, Below
      <4> QED
        BY <3>4, <3>5, <4>2
    <3> QED
      BY <3>2, <3>3, <3>5, <3>6, <3>7
  <2>2. CASE ~l.live
    <3>1. dom' = dom /\ listings' = listings \ {l}
      BY <2>2 DEF ListingAnswers
    <3> QED
      BY <3>1 DEF ShapeInv
  <2> QED
    BY <2>1, <2>2
<1>7. UNCHANGED <<environment, user, asked, switches, refreshing, raced>>
  BY DEF ListingAnswers
<1> HIDE DEF stored
<1>8. DOMAIN tree' \subseteq Paths /\ tree' \in [DOMAIN tree' -> Nodes]
  BY <1>3, <1>4
<1> QED
  BY <1>5, <1>6, <1>7, <1>8 DEF ShapeInv

LEMMA FailureShape ==
    ASSUME ShapeInv, NEW l \in listings, ListingFails(l)
    PROVE  ShapeInv'
<1>1. CASE l.live
  <2>1. PICK view \in {"closed", "error"} : dom' = Blank(l.prefix, view)
    BY <1>1 DEF ListingFails
  <2>2. listings' = Detach(listings \ {l}, l.prefix)
    BY <1>1 DEF ListingFails
  <2>3. DOMAIN dom' = DOMAIN dom \ Below(l.prefix) /\ dom' \in [DOMAIN dom' -> Containers]
    BY <2>1, BlankShape
  <2>4. /\ listings' \subseteq Requests
        /\ \A k \in listings' :
             k.live => k \in listings \ {l} /\ ~IsStrictPrefix(l.prefix, k.prefix)
    <3>1. listings \ {l} \in SUBSET Requests
      BY DEF ShapeInv
    <3> QED
      BY <2>2, <3>1, DetachedShape
  <2>5. \A k \in listings' : k.live => k.prefix \in DOMAIN dom'
    BY <2>3, <2>4 DEF ShapeInv, Below
  <2> QED
    BY <2>3, <2>4, <2>5 DEF ShapeInv, ListingFails
<1>2. CASE ~l.live
  BY <1>2 DEF ShapeInv, ListingFails
<1> QED
  BY <1>1, <1>2

LEMMA UserShape ==
    ASSUME ShapeInv, NEW u \in Users, onUserChange(u)
    PROVE  ShapeInv'
<1>1. DOMAIN EmptyTree = {} /\ \A S : EmptyTree \in [{} -> S]
  BY DEF EmptyTree
<1>2. DOMAIN tree' = {} /\ DOMAIN dom' = {} /\ tree' \in [{} -> Nodes] /\ dom' \in [{} -> Containers]
  BY <1>1 DEF onUserChange
<1>3. listings' \subseteq Requests /\ \A l \in listings' : ~l.live
  BY DEF onUserChange, ShapeInv, Requests
<1>4. switches' \in 0 .. MaxSwitches /\ refreshing' \in 0 .. switches' + 1
  BY TreeAssumption DEF onUserChange, ShapeInv
<1>5. panel' \in Panels
  BY DEF onUserChange, Panels
<1>6. user' \in Users \cup {NoUser} /\ raced' \in BOOLEAN
  BY DEF onUserChange, ShapeInv
<1>7. UNCHANGED <<environment, asked>>
  BY DEF onUserChange
<1> QED
  BY <1>2, <1>3, <1>4, <1>5, <1>6, <1>7 DEF ShapeInv

LEMMA AllDetached ==
    ASSUME ShapeInv, listings' = Detach(listings, <<>>)
    PROVE  listings' \subseteq Requests /\ \A l \in listings' : ~l.live
<1>1. /\ listings' \subseteq Requests
      /\ \A l \in listings' : l.live => l \in listings /\ ~IsStrictPrefix(<<>>, l.prefix)
  BY DetachedShape DEF ShapeInv
<1>2. ASSUME NEW l \in listings', l.live
      PROVE  FALSE
  <2>1. l.prefix \in Seq(Segments) \ {<<>>}
    BY <1>1, <1>2 DEF Requests, Paths
  <2> QED
    BY <1>1, <1>2, <2>1, RootIsAbove
<1> QED
  BY <1>1, <1>2

LEMMA RootShape == ASSUME ShapeInv, loadRoot PROVE ShapeInv'
<1> DEFINE items == list_children(user, <<>>)
<1>0. <<>> \in Seq(Segments)
  BY EmptySeq
<1>1. items \in SUBSET Items
  BY <1>0, ListedAreItems
<1>2. dom' = renderChildren(tree, <<>>, items)
  BY DEF loadRoot
<1> HIDE DEF items
<1>3. DOMAIN dom' \subseteq Seq(Segments) /\ dom' \in [DOMAIN dom' -> Containers]
  <2>1. DOMAIN tree \subseteq Paths /\ tree \in [DOMAIN tree -> Nodes]
    BY DEF ShapeInv
  <2> QED
    BY <1>0, <1>1, <1>2, <2>1, RenderedShape
<1>4. listings' \subseteq Requests /\ \A l \in listings' : ~l.live
  BY AllDetached DEF loadRoot
<1>5. refreshing' \in 0 .. switches' + 1
  BY TreeAssumption DEF loadRoot, ShapeInv
<1> QED
  BY <1>3, <1>4, <1>5 DEF ShapeInv, loadRoot

LEMMA RootFailureShape == ASSUME ShapeInv, RootFails PROVE ShapeInv'
<1>1. DOMAIN EmptyTree = {} /\ EmptyTree \in [{} -> Containers]
  BY DEF EmptyTree
<1>2. DOMAIN dom' = {} /\ dom' \in [{} -> Containers]
  BY <1>1 DEF RootFails
<1>3. listings' \subseteq Requests /\ \A l \in listings' : ~l.live
  BY AllDetached DEF RootFails
<1>4. refreshing' \in 0 .. switches' + 1
  BY TreeAssumption DEF RootFails, ShapeInv
<1> QED
  BY <1>2, <1>3, <1>4 DEF ShapeInv, RootFails

-----------------------------------------------------------------------------
(* The component panel.                                                    *)

LEMMA ComponentPanels ==
    ASSUME ShapeInv, panel.kind = "component"
    PROVE  panel.prefix \in Paths
BY DEF ShapeInv, Panels, EmptyPanel

LEMMA SelectKeeps ==
    ASSUME ShapeInv, NEW p \in Rows, selectComponent(p)
    PROVE  ShapeInv' /\ OfferedInv'
<1>1. p \in Paths
  BY RowsArePaths
<1>2. panel' = [kind |-> "component", prefix |-> p, state |-> "loading"]
  BY DEF selectComponent
<1>3. panel' \in Panels
  BY <1>1, <1>2 DEF Panels
<1>4. ShapeInv'
  BY <1>3 DEF ShapeInv, selectComponent
<1>5. OfferedInv'
  BY <1>2 DEF OfferedInv, selectComponent, isComponentNode
<1> QED
  BY <1>4, <1>5

\* Narrowing to a theme of the component keeps what the panel says true.
LEMMA NarrowKeeps ==
    ASSUME ShapeInv, OfferedInv, panel.kind = "component",
           UNCHANGED <<environment, user, tree, dom, listings, asked, switches,
                       refreshing, raced>>,
           NEW e \in theme_entries(namespace(user), panel.prefix),
           Narrow(namespace(user), e)
    PROVE  ShapeInv' /\ OfferedInv'
<1> DEFINE ns == namespace(user)
           types == types_by_theme(ns, panel.prefix, e.label)
           shown(t) == [kind |-> "component", prefix |-> panel.prefix,
                        state |-> "themes", theme |-> e, type |-> t]
<1>1. PICK t : panel' = shown(t) /\ (t = <<>> \/ \E s \in types : t = <<s>>)
  BY DEF Narrow
<1>2. panel.prefix \in Paths /\ panel.prefix \in Seq(Segments)
  BY ComponentPanels DEF Paths
<1>3. e \in ThemeEntries
  BY <1>2, ThemesAreThere
<1>4. t \in Seq(Segments)
  <2>1. CASE t = <<>>
    BY <2>1, EmptySeq
  <2>2. ASSUME NEW s \in types, t = <<s>>
        PROVE  t \in Seq(Segments)
    <3>1. s \in Segments
      BY <1>2, TypesAreThere
    <3> QED
      BY <2>2, <3>1
  <2> QED
    BY <1>1, <2>1, <2>2
<1>5. ns' = ns
  BY ListingsStay
<1> HIDE DEF ns
<1>6. panel' \in Panels
  BY <1>1, <1>2, <1>3, <1>4 DEF Panels
<1>7. ShapeInv'
  BY <1>6 DEF ShapeInv
<1>8. isComponentNode(panel.prefix)
  BY DEF OfferedInv
<1>9. /\ panel'.kind = "component" /\ panel'.state = "themes"
      /\ panel'.prefix = panel.prefix /\ panel'.theme = e /\ panel'.type = t
  BY <1>1
<1>10. OfferedInv'
  BY <1>1, <1>5, <1>8, <1>9 DEF OfferedInv, ns
<1> QED
  BY <1>7, <1>10

LEMMA ThemeTypesKeeps == ASSUME ShapeInv, OfferedInv, ThemeTypesAnswer PROVE ShapeInv' /\ OfferedInv'
<1>1. CASE panel' = [panel EXCEPT !.state = "plain"]
  <2>1. panel \in [kind : {"component"}, prefix : Paths, state : {"loading", "plain"}]
    BY DEF ShapeInv, ThemeTypesAnswer, Panels, EmptyPanel
  <2>2. panel' \in [kind : {"component"}, prefix : Paths, state : {"loading", "plain"}]
    BY <1>1, <2>1
  <2>3. panel'.kind = "component" /\ panel'.state = "plain" /\ panel'.prefix = panel.prefix
    BY <1>1, <2>1
  <2>4. ShapeInv'
    BY <2>2 DEF ShapeInv, ThemeTypesAnswer, Panels
  <2>5. OfferedInv'
    BY <2>1, <2>3 DEF OfferedInv
  <2> QED
    BY <2>4, <2>5
<1>2. CASE \E e \in theme_entries(namespace(user), panel.prefix) : Narrow(namespace(user), e)
  BY <1>2, NarrowKeeps DEF ThemeTypesAnswer
<1> QED
  BY <1>1, <1>2 DEF ThemeTypesAnswer

LEMMA PickThemeKeeps == ASSUME ShapeInv, OfferedInv, PickTheme PROVE ShapeInv' /\ OfferedInv'
<1>1. PICK e \in theme_entries(namespace(user), panel.prefix) : Narrow(namespace(user), e)
  BY DEF PickTheme
<1> QED
  BY <1>1, NarrowKeeps DEF PickTheme

LEMMA PickTypeKeeps == ASSUME ShapeInv, OfferedInv, PickType PROVE ShapeInv' /\ OfferedInv'
<1> DEFINE ns == namespace(user)
<1>1. PICK s \in types_by_theme(ns, panel.prefix, panel.theme.label) :
        panel' = [panel EXCEPT !.type = <<s>>]
  BY DEF PickType
<1>2. panel.kind = "component" /\ panel.state = "themes"
  BY DEF PickType
<1>3. panel \in [kind : {"component"}, prefix : Paths, state : {"themes"},
                theme : ThemeEntries, type : Seq(Segments)]
  BY <1>2 DEF ShapeInv, Panels, EmptyPanel
<1>4. panel.theme \in theme_entries(ns, panel.prefix) /\ isComponentNode(panel.prefix)
  BY <1>2 DEF OfferedInv
<1>5. s \in Segments
  BY <1>3, <1>4, TypesAreThere DEF Paths
<1>6. panel' \in [kind : {"component"}, prefix : Paths, state : {"themes"},
                 theme : ThemeEntries, type : Seq(Segments)]
  <2>1. <<s>> \in Seq(Segments)
    BY <1>5
  <2> QED
    BY <1>1, <1>3, <2>1
<1>7. ns' = ns
  BY ListingsStay DEF PickType
<1> HIDE DEF ns
<1>8. /\ panel'.kind = "component" /\ panel'.state = "themes" /\ panel'.type = <<s>>
      /\ panel'.prefix = panel.prefix /\ panel'.theme = panel.theme
  BY <1>1, <1>3
<1>9. ShapeInv'
  BY <1>6 DEF ShapeInv, PickType, Panels
<1>10. OfferedInv'
  BY <1>1, <1>4, <1>7, <1>8 DEF OfferedInv, ns
<1> QED
  BY <1>9, <1>10

-----------------------------------------------------------------------------
(* The page while nothing has raced.                                       *)

\* The containers around a row that can be clicked have been listed.
LEMMA ClickableIsReached ==
    ASSUME ShapeInv, ShownInv, NEW p \in Paths, Clickable(p)
    PROVE  Reached(p)
<1> SUFFICES ASSUME NEW n \in 1 .. Len(p) - 1
             PROVE  Cached(tree, SubSeq(p, 1, n))
  BY DEF Reached
<1>1. SubSeq(p, 1, n) \in DOMAIN dom /\ dom[SubSeq(p, 1, n)].view = "open"
  BY DEF Clickable
<1>2. SubSeq(p, 1, n) # <<>>
  <2>1. p \in Seq(Segments) /\ Len(p) \in Nat /\ n \in 0 .. Len(p)
    BY LenProperties DEF Paths
  <2>2. Len(SubSeq(p, 1, n)) = n
    BY <2>1, CutIsPath
  <2> QED
    BY <2>2, EmptySeq
<1> QED
  BY <1>1, <1>2 DEF ShownInv, Open

LEMMA CollapseQuiet ==
    ASSUME ShapeInv, InFlightInv, ShownInv, NEW p \in DOMAIN dom, Collapse(p)
    PROVE  InFlightInv' /\ ShownInv'
<1>1. /\ p \in DOMAIN tree /\ tree[p].expanded
      /\ tree' = [tree EXCEPT ![p].expanded = FALSE]
      /\ dom' = [dom EXCEPT ![p].view = "closed"]
      /\ UNCHANGED <<environment, user, listings, refreshing, panel>>
  BY DEF Collapse, Open, Cached
<1>2. p # <<>>
  BY <1>1 DEF ShapeInv, Paths
<1>3. /\ \A q \in DOMAIN tree : tree[q] \in Nodes
      /\ \A q \in DOMAIN dom : dom[q] \in Containers
  BY DEF ShapeInv
<1>4. /\ DOMAIN tree' = DOMAIN tree /\ DOMAIN dom' = DOMAIN dom
      /\ \A q \in DOMAIN tree : tree'[q].children = tree[q].children
      /\ \A q \in DOMAIN tree : tree'[q].expanded = (tree[q].expanded /\ q # p)
      /\ \A q \in DOMAIN dom : dom'[q].items = dom[q].items
      /\ \A q \in DOMAIN dom : q # p => dom'[q].view = dom[q].view
      /\ dom'[p].view = "closed"
  BY <1>1, <1>3 DEF Nodes, Containers
<1>5. InFlightInv'
  BY <1>1, <1>4 DEF InFlightInv, ShapeInv, Reached, Cached
<1>6. \A u, q : list_children(u, q)' = list_children(u, q)
  BY <1>1, ListingsStay
<1>7. ShownInv'
  BY <1>1, <1>2, <1>4, <1>6 DEF ShownInv, Reached, Cached, Open
<1> QED
  BY <1>5, <1>7

LEMMA ExpandQuiet ==
    ASSUME ShapeInv, InFlightInv, ShownInv, NEW p \in DOMAIN dom, Expand(p)
    PROVE  InFlightInv' /\ ShownInv'
<1>1. /\ p \in DOMAIN tree /\ ~tree[p].expanded
      /\ tree' = [tree EXCEPT ![p].expanded = TRUE]
      /\ dom' = [dom EXCEPT ![p].view = "open"]
      /\ UNCHANGED <<environment, user, listings, refreshing>>
  BY DEF Expand, Open, Cached
<1>2. p # <<>>
  BY <1>1 DEF ShapeInv, Paths
<1>3. /\ \A q \in DOMAIN tree : tree[q] \in Nodes
      /\ \A q \in DOMAIN dom : dom[q] \in Containers
  BY DEF ShapeInv
<1>4. /\ DOMAIN tree' = DOMAIN tree /\ DOMAIN dom' = DOMAIN dom
      /\ \A q \in DOMAIN tree : tree'[q].children = tree[q].children
      /\ \A q \in DOMAIN tree : tree'[q].expanded = (tree[q].expanded \/ q = p)
      /\ \A q \in DOMAIN dom : dom'[q].items = dom[q].items
      /\ \A q \in DOMAIN dom : q # p => dom'[q].view = dom[q].view
      /\ dom'[p].view = "open"
  BY <1>1, <1>3 DEF Nodes, Containers
<1>5. InFlightInv'
  BY <1>1, <1>4 DEF InFlightInv, ShapeInv, Reached, Cached
<1>6. \A u, q : list_children(u, q)' = list_children(u, q)
  BY <1>1, ListingsStay
<1>7. panel'.kind = "run" => panel'.children = list_children(user, panel'.prefix)
  <2>1. panel' = PanelAfter(p, tree[p].children)
    BY DEF Expand
  <2>2. tree[p].children = list_children(user, p)
    BY <1>1 DEF ShownInv
  <2> QED
    BY <2>1, <2>2 DEF ShownInv, PanelAfter, RunPanel
<1>8. ShownInv'
  BY <1>1, <1>2, <1>4, <1>6, <1>7 DEF ShownInv, Reached, Cached, Open
<1> QED
  BY <1>5, <1>8

\* Nothing is asked for below a container that has not been listed.
LEMMA NothingBelow ==
    ASSUME ShapeInv, InFlightInv, NEW p \in Paths, ~Cached(tree, p),
           NEW reqs \in SUBSET listings
    PROVE  /\ Detach(reqs, p) = reqs
           /\ \A l \in reqs : ~IsStrictPrefix(p, l.prefix)
<1>1. ASSUME NEW l \in reqs, IsStrictPrefix(p, l.prefix)
      PROVE  FALSE
  <2>1. p \in Seq(Segments) /\ p # <<>> /\ l.prefix \in Seq(Segments)
    BY DEF ShapeInv, Requests, Paths
  <2>2. Len(p) \in Nat \ {0}
    BY <2>1, EmptySeq
  <2>3. Len(l.prefix) \in Nat /\ Len(p) < Len(l.prefix) /\ SubSeq(l.prefix, 1, Len(p)) = p
    BY <1>1, <2>1, PrefixIsCut
  <2>4. Len(p) \in 1 .. Len(l.prefix) - 1
    BY <2>2, <2>3
  <2>5. Reached(l.prefix)
    BY DEF InFlightInv
  <2> QED
    BY <2>3, <2>4, <2>5 DEF Reached
<1>2. Detach(reqs, p) = reqs
  BY <1>1 DEF Detach
<1> QED
  BY <1>1, <1>2

LEMMA BlankSays ==
    ASSUME NEW p \in DOMAIN dom, NEW view
    PROVE  /\ DOMAIN Blank(p, view) = DOMAIN dom \ Below(p)
           /\ p \in DOMAIN Blank(p, view)
           /\ Blank(p, view)[p] = [view |-> view, items |-> {}]
           /\ \A q \in DOMAIN Blank(p, view) : q # p => Blank(p, view)[q] = dom[q]
BY DEF Blank, Below, IsStrictPrefix

LEMMA RequestQuiet ==
    ASSUME ShapeInv, InFlightInv, ShownInv, NEW p \in Paths, p \in DOMAIN dom,
           Request(p), ~raced'
    PROVE  InFlightInv' /\ ShownInv'
<1> DEFINE new == [id |-> asked, prefix |-> p, user |-> user, live |-> TRUE]
<1>1. /\ Clickable(p) /\ ~Cached(tree, p)
      /\ \A l \in listings : l.prefix # p
      /\ listings' = Detach(listings, p) \cup {new}
      /\ dom' = Blank(p, "loading")
      /\ UNCHANGED <<environment, user, tree, refreshing, panel>>
  BY DEF Request
<1>2. Detach(listings, p) = listings /\ \A l \in listings : ~IsStrictPrefix(p, l.prefix)
  BY <1>1, NothingBelow
<1>3. listings' = listings \cup {new}
  BY <1>1, <1>2
<1>4. /\ DOMAIN dom' = DOMAIN dom \ Below(p) /\ p \in DOMAIN dom'
      /\ dom'[p] = [view |-> "loading", items |-> {}]
      /\ \A q \in DOMAIN dom' : q # p => dom'[q] = dom[q]
  BY <1>1, BlankSays
<1>5. Reached(p)
  BY <1>1, ClickableIsReached
<1>6. refreshing' = 0
  BY <1>1 DEF InFlightInv, ShapeInv
<1>7. ASSUME NEW l \in listings'
      PROVE  /\ l.live /\ l.user = user
             /\ dom'[l.prefix].view = "loading"
             /\ ~Cached(tree, l.prefix) /\ Reached(l.prefix)
  <2>1. CASE l = new
    BY <1>1, <1>4, <1>5, <2>1
  <2>2. CASE l \in listings
    <3>1. /\ l.live /\ l.user = user /\ dom[l.prefix].view = "loading"
          /\ ~Cached(tree, l.prefix) /\ Reached(l.prefix)
      BY <2>2 DEF InFlightInv
    <3>2. l.prefix \in DOMAIN dom /\ l.prefix # p
      BY <1>1, <2>2, <3>1 DEF ShapeInv
    <3>3. l.prefix \in DOMAIN dom'
      BY <1>2, <1>4, <2>2, <3>2 DEF Below
    <3> QED
      BY <1>4, <3>1, <3>2, <3>3
  <2> QED
    BY <1>3, <2>1, <2>2
<1>8. ASSUME NEW k \in listings', NEW l \in listings', k.prefix = l.prefix
      PROVE  k = l
  <2>1. CASE k \in listings /\ l \in listings
    BY <1>8, <2>1 DEF InFlightInv
  <2>2. new.prefix = p
    OBVIOUS
  <2> HIDE DEF new
  <2>3. CASE k = new \/ l = new
    BY <1>1, <1>3, <1>8, <2>2, <2>3
  <2> QED
    BY <1>3, <2>1, <2>3
<1>9. InFlightInv'
  BY <1>1, <1>6, <1>7, <1>8 DEF InFlightInv, Reached, Cached
<1>10. \A u, q : list_children(u, q)' = list_children(u, q)
  BY <1>1, ListingsStay
<1>11. ASSUME NEW q \in DOMAIN dom' \ {<<>>}
       PROVE  /\ dom'[q].view = "open" <=> Open(tree, q)
              /\ dom'[q].items = IF Cached(tree, q) THEN tree[q].children ELSE {}
  <2>1. CASE q = p
    BY <1>1, <1>4, <2>1 DEF Open
  <2>2. CASE q # p
    BY <1>4, <2>2 DEF ShownInv
  <2> QED
    BY <2>1, <2>2
<1>12. ShownInv'
  BY <1>1, <1>10, <1>11 DEF ShownInv, Reached, Cached, Open
<1> QED
  BY <1>9, <1>12

LEMMA FailureQuiet ==
    ASSUME ShapeInv, InFlightInv, ShownInv, NEW l \in listings, ListingFails(l)
    PROVE  InFlightInv' /\ ShownInv'
<1> DEFINE p == l.prefix
<1>1. /\ l.live /\ dom[p].view = "loading" /\ ~Cached(tree, p)
      /\ p \in DOMAIN dom /\ p \in Paths /\ refreshing = 0
  BY DEF InFlightInv, ShapeInv, Requests
<1>2. /\ dom' = Blank(p, "error") /\ listings' = Detach(listings \ {l}, p)
      /\ UNCHANGED <<environment, user, tree, refreshing, panel>>
  BY <1>1 DEF ListingFails
<1>3. listings' = listings \ {l} /\ \A k \in listings' : ~IsStrictPrefix(p, k.prefix)
  <2>1. listings \ {l} \in SUBSET listings
    OBVIOUS
  <2> QED
    BY <1>1, <1>2, <2>1, NothingBelow
<1>4. /\ DOMAIN dom' = DOMAIN dom \ Below(p) /\ p \in DOMAIN dom'
      /\ dom'[p] = [view |-> "error", items |-> {}]
      /\ \A q \in DOMAIN dom' : q # p => dom'[q] = dom[q]
  BY <1>1, <1>2 DEF Blank, Below, IsStrictPrefix
<1>5. ASSUME NEW k \in listings'
      PROVE  /\ k.live /\ k.user = user
             /\ dom'[k.prefix].view = "loading"
             /\ ~Cached(tree, k.prefix) /\ Reached(k.prefix)
  <2>1. /\ k.live /\ k.user = user /\ dom[k.prefix].view = "loading"
        /\ ~Cached(tree, k.prefix) /\ Reached(k.prefix)
    BY <1>3 DEF InFlightInv
  <2>2. k.prefix # p
    BY <1>3 DEF InFlightInv
  <2>3. k.prefix \in DOMAIN dom'
    BY <1>3, <1>4, <2>1 DEF ShapeInv, Below
  <2> QED
    BY <1>4, <2>1, <2>2, <2>3
<1>6. \A k, m \in listings' : k.prefix = m.prefix => k = m
  BY <1>3 DEF InFlightInv
<1>7. InFlightInv'
  BY <1>1, <1>2, <1>5, <1>6 DEF InFlightInv, Reached, Cached
<1>8. \A u, q : list_children(u, q)' = list_children(u, q)
  BY <1>2, ListingsStay
<1>9. ASSUME NEW q \in DOMAIN dom' \ {<<>>}
      PROVE  /\ dom'[q].view = "open" <=> Open(tree, q)
             /\ dom'[q].items = IF Cached(tree, q) THEN tree[q].children ELSE {}
  <2>1. CASE q = p
    BY <1>1, <1>4, <2>1 DEF Open
  <2>2. CASE q # p
    BY <1>4, <2>2 DEF ShownInv
  <2> QED
    BY <2>1, <2>2
<1>10. ShownInv'
  BY <1>2, <1>8, <1>9 DEF ShownInv, Reached, Cached, Open
<1> QED
  BY <1>7, <1>10

LEMMA AnswerQuiet ==
    ASSUME ShapeInv, InFlightInv, ShownInv, NEW l \in listings, ListingAnswers(l)
    PROVE  InFlightInv' /\ ShownInv'
<1> DEFINE p == l.prefix
           children == list_children(user, p)
           stored == [q \in DOMAIN tree \cup {p} |->
                        IF q = p THEN [expanded |-> TRUE, children |-> children]
                        ELSE tree[q]]
           drawn == renderChildren(stored, p, children)
<1>1. /\ l.live /\ l.user = user /\ dom[p].view = "loading" /\ ~Cached(tree, p)
      /\ Reached(p) /\ p \in DOMAIN dom /\ p \in Paths /\ refreshing = 0
  BY DEF InFlightInv, ShapeInv, Requests
<1>2. /\ tree' = stored
      /\ dom' = [drawn EXCEPT ![p].view = "open"]
      /\ listings' = Detach(listings \ {l}, p)
      /\ panel' = PanelAfter(p, children)
      /\ UNCHANGED <<environment, user, refreshing>>
  BY <1>1 DEF ListingAnswers
<1>3. listings' = listings \ {l} /\ \A k \in listings' : ~IsStrictPrefix(p, k.prefix)
  <2>1. listings \ {l} \in SUBSET listings
    OBVIOUS
  <2> QED
    BY <1>1, <1>2, <2>1, NothingBelow
<1>4. /\ DOMAIN stored = DOMAIN tree \cup {p}
      /\ stored[p] = [expanded |-> TRUE, children |-> children]
      /\ \A q \in DOMAIN tree : stored[q] = tree[q]
  BY <1>1 DEF Cached
<1>5. /\ DOMAIN drawn = (DOMAIN dom \ Below(p)) \cup Drawn(stored, p, children) \cup {p}
      /\ drawn[p] = [view |-> "open", items |-> children]
      /\ \A q \in Drawn(stored, p, children) : q # p => drawn[q] = renderNode(stored, q)
      /\ \A q \in DOMAIN dom \ Below(p) :
           (q # p /\ q \notin Drawn(stored, p, children)) => drawn[q] = dom[q]
  BY DEF renderChildren
<1>6. Drawn(stored, p, children) \subseteq Paths
  <2>1. p \in Seq(Segments) /\ children \in SUBSET Items
    BY <1>1, ListedAreItems DEF Paths
  <2>2. stored \in [DOMAIN stored -> Nodes] /\ DOMAIN stored \subseteq Paths
    BY <1>1, <2>1 DEF ShapeInv, Nodes
  <2> HIDE DEF stored, children
  <2> QED
    BY <2>1, <2>2, DrawnArePaths
<1> HIDE DEF stored, drawn, children
<1>7. ASSUME NEW q \in Drawn(stored, p, children)
      PROVE  q # p /\ IsStrictPrefix(p, q) /\ q \notin DOMAIN tree /\ drawn[q] = Closed
  <2>1. IsStrictPrefix(p, q) /\ q # p
    BY DEF Drawn, IsStrictPrefix
  <2>2. q \in Seq(Segments) /\ p \in Seq(Segments) /\ p # <<>>
    BY <1>1, <1>6 DEF Paths
  <2>3. /\ Len(p) \in Nat \ {0} /\ Len(q) \in Nat
        /\ Len(p) < Len(q) /\ SubSeq(q, 1, Len(p)) = p
    BY <2>1, <2>2, PrefixIsCut, EmptySeq
  <2>4. Len(p) \in 1 .. Len(q) - 1
    BY <2>3
  <2>5. q \notin DOMAIN tree
    BY <1>1, <2>3, <2>4 DEF ShownInv, Reached
  <2>6. ~Open(stored, q)
    BY <1>4, <2>1, <2>5 DEF Open, Cached
  <2> QED
    BY <1>5, <2>1, <2>5, <2>6 DEF renderNode
<1>8. /\ DOMAIN dom' = DOMAIN drawn
      /\ dom'[p] = [view |-> "open", items |-> children]
      /\ \A q \in DOMAIN dom' : q # p => dom'[q] = drawn[q]
  BY <1>2, <1>5
<1>9. ASSUME NEW k \in listings'
      PROVE  /\ k.live /\ k.user = user
             /\ dom'[k.prefix].view = "loading"
             /\ k.prefix \notin DOMAIN stored
             /\ \A n \in 1 .. Len(k.prefix) - 1 : SubSeq(k.prefix, 1, n) \in DOMAIN stored
  <2>1. /\ k.live /\ k.user = user /\ dom[k.prefix].view = "loading"
        /\ ~Cached(tree, k.prefix) /\ Reached(k.prefix)
    BY <1>3 DEF InFlightInv
  <2>2. k.prefix # p /\ k.prefix \in DOMAIN dom
    BY <1>3, <2>1 DEF InFlightInv, ShapeInv
  <2>3. k.prefix \in DOMAIN dom \ Below(p) /\ k.prefix \notin Drawn(stored, p, children)
    BY <1>3, <1>7, <2>2 DEF Below
  <2>4. dom'[k.prefix] = dom[k.prefix]
    BY <1>5, <1>8, <2>2, <2>3
  <2> QED
    BY <1>4, <2>1, <2>2, <2>4 DEF Reached, Cached
<1>10. \A k, m \in listings' : k.prefix = m.prefix => k = m
  BY <1>3 DEF InFlightInv
<1>11. InFlightInv'
  BY <1>1, <1>2, <1>9, <1>10 DEF InFlightInv, Reached, Cached
<1>12. \A u, q : list_children(u, q)' = list_children(u, q)
  BY <1>2, ListingsStay
<1>13. ASSUME NEW q \in DOMAIN dom' \ {<<>>}
       PROVE  /\ dom'[q].view = "open" <=> Open(stored, q)
              /\ dom'[q].items = IF Cached(stored, q) THEN stored[q].children ELSE {}
  <2>1. CASE q = p
    BY <1>4, <1>8, <2>1 DEF Open, Cached
  <2>2. CASE q # p /\ q \in Drawn(stored, p, children)
    <3>1. q \notin DOMAIN stored
      BY <1>4, <1>7, <2>2
    <3>2. dom'[q] = [view |-> "closed", items |-> {}]
      BY <1>7, <1>8, <2>2 DEF Closed
    <3> QED
      BY <3>1, <3>2 DEF Open, Cached
  <2>3. CASE q # p /\ q \notin Drawn(stored, p, children)
    <3>1. q \in DOMAIN dom /\ dom'[q] = dom[q]
      BY <1>5, <1>8, <2>3
    <3> QED
      BY <1>4, <2>3, <3>1 DEF ShownInv, Open, Cached
  <2> QED
    BY <2>1, <2>2, <2>3
<1>14. ASSUME NEW q \in DOMAIN stored
       PROVE  /\ \A n \in 1 .. Len(q) - 1 : SubSeq(q, 1, n) \in DOMAIN stored
              /\ stored[q].children = list_children(user, q)
  <2>1. CASE q = p
    BY <1>1, <1>4, <2>1 DEF Reached, Cached, children
  <2>2. CASE q # p
    BY <1>4, <2>2 DEF ShownInv, Reached, Cached
  <2> QED
    BY <2>1, <2>2
<1>15. panel'.kind = "run" => panel'.children = list_children(user, panel'.prefix)
  BY <1>2 DEF ShownInv, PanelAfter, RunPanel, children
<1>16. ShownInv'
  BY <1>2, <1>12, <1>13, <1>14, <1>15 DEF ShownInv, Reached, Cached, Open
<1> QED
  BY <1>11, <1>16

LEMMA UserQuiet ==
    ASSUME ShapeInv, NEW u \in Users, onUserChange(u), ~raced'
    PROVE  InFlightInv' /\ ShownInv'
<1>1. /\ DOMAIN tree' = {} /\ DOMAIN dom' = {} /\ listings' = {} /\ panel'.kind = "empty"
  BY DEF onUserChange, EmptyTree, EmptyPanel
<1>2. refreshing' <= 1
  <2>1. refreshing \in Nat
    BY DEF ShapeInv
  <2>2. ~(refreshing > 0) /\ refreshing' = refreshing + 1
    BY DEF onUserChange
  <2> QED
    BY <2>1, <2>2
<1> QED
  BY <1>1, <1>2 DEF InFlightInv, ShownInv

LEMMA RootQuiet ==
    ASSUME ShapeInv, InFlightInv, ShownInv, loadRoot
    PROVE  InFlightInv' /\ ShownInv'
<1> DEFINE items == list_children(user, <<>>)
           drawn == renderChildren(tree, <<>>, items)
<1>1. /\ refreshing' = 0 /\ dom' = drawn /\ listings' = Detach(listings, <<>>)
      /\ UNCHANGED <<environment, user, tree, panel>>
  BY DEF loadRoot, InFlightInv, ShapeInv
<1>2. DOMAIN tree = {} /\ DOMAIN dom = {} /\ listings = {}
  BY DEF loadRoot, InFlightInv
<1>3. listings' = {}
  BY <1>1, <1>2 DEF Detach
<1>4. \A q : renderNode(tree, q) = [view |-> "closed", items |-> {}]
  BY <1>2 DEF renderNode, Open, Cached, Closed
<1>5. \A q \in DOMAIN drawn \ {<<>>} : drawn[q] = [view |-> "closed", items |-> {}]
  BY <1>2, <1>4 DEF renderChildren
<1> HIDE DEF drawn
<1>6. \A u, q : list_children(u, q)' = list_children(u, q)
  BY <1>1, ListingsStay
<1>7. InFlightInv'
  BY <1>1, <1>3 DEF InFlightInv
<1>8. ShownInv'
  BY <1>1, <1>2, <1>5, <1>6 DEF ShownInv, Reached, Cached, Open
<1> QED
  BY <1>7, <1>8

LEMMA RootFailureQuiet ==
    ASSUME ShapeInv, InFlightInv, ShownInv, RootFails
    PROVE  InFlightInv' /\ ShownInv'
<1>1. /\ refreshing' = 0 /\ DOMAIN dom' = {} /\ listings' = Detach(listings, <<>>)
      /\ UNCHANGED <<environment, user, tree, panel>>
  BY DEF RootFails, EmptyTree, InFlightInv, ShapeInv
<1>2. DOMAIN tree = {} /\ listings = {}
  BY DEF RootFails, InFlightInv
<1>3. listings' = {}
  BY <1>1, <1>2 DEF Detach
<1>4. \A u, q : list_children(u, q)' = list_children(u, q)
  BY <1>1, ListingsStay
<1> QED
  BY <1>1, <1>2, <1>3, <1>4 DEF InFlightInv, ShownInv, Reached, Cached

LEMMA PanelQuiet ==
    ASSUME InFlightInv, ShownInv, panel'.kind # "run" \/ panel' = panel,
           UNCHANGED <<environment, user, tree, dom, listings, refreshing>>
    PROVE  InFlightInv' /\ ShownInv'
<1>1. \A u, q : list_children(u, q)' = list_children(u, q)
  BY ListingsStay
<1>2. InFlightInv'
  BY DEF InFlightInv, Reached, Cached
<1>3. ShownInv'
  BY <1>1 DEF ShownInv, Reached, Cached, Open
<1> QED
  BY <1>2, <1>3

-----------------------------------------------------------------------------
(* The browser.                                                            *)

LEMMA OfferedStays ==
    ASSUME OfferedInv,
           \/ panel'.kind \in {"empty", "run"}
           \/ panel' = panel /\ UNCHANGED <<environment, user>>
    PROVE  OfferedInv'
<1>1. CASE panel'.kind \in {"empty", "run"}
  BY <1>1 DEF OfferedInv
<1>2. CASE panel' = panel /\ UNCHANGED <<environment, user>>
  <2>1. \A u : namespace(u)' = namespace(u)
    BY <1>2, ListingsStay
  <2> QED
    BY <1>2, <2>1 DEF OfferedInv
<1> QED
  BY <1>1, <1>2

LEMMA RunOrSame ==
    ASSUME NEW p, NEW children
    PROVE  PanelAfter(p, children) = panel \/ PanelAfter(p, children).kind = "run"
BY DEF PanelAfter, RunPanel

LEMMA TreeInitInv == ASSUME TreeInit PROVE TreeInv
<1>1. /\ DOMAIN tree = {} /\ DOMAIN dom = {} /\ listings = {} /\ refreshing = 1
      /\ panel.kind = "empty"
  BY DEF TreeInit, EmptyTree, EmptyPanel
<1>2. OfferedInv /\ InFlightInv /\ ShownInv
  BY <1>1 DEF OfferedInv, InFlightInv, ShownInv
<1> QED
  BY <1>2, ShapeInit DEF TreeInv

LEMMA TreeStutters == ASSUME TreeInv, UNCHANGED treeVars PROVE TreeInv'
<1>1. ShapeInv'
  BY DEF TreeInv, ShapeInv, treeVars
<1>2. OfferedInv'
  BY OfferedStays DEF TreeInv, treeVars
<1>3. ~raced' => InFlightInv' /\ ShownInv'
  BY PanelQuiet DEF TreeInv, treeVars
<1> QED
  BY <1>1, <1>2, <1>3 DEF TreeInv

LEMMA TreeStep == ASSUME TreeInv, TreeNext PROVE TreeInv'
<1> USE DEF TreeInv
<1>1. ASSUME NEW p \in Rows, p \in DOMAIN dom, Collapse(p)
      PROVE  TreeInv'
  <2>1. UNCHANGED <<environment, user, panel, raced>>
    BY <1>1 DEF Collapse
  <2> QED
    BY <1>1, <2>1, CollapseShape, OfferedStays, CollapseQuiet
<1>2. ASSUME NEW p \in Rows, p \in DOMAIN dom, Expand(p)
      PROVE  TreeInv'
  <2>1. /\ panel' = panel \/ panel'.kind = "run"
        /\ UNCHANGED <<environment, user, raced>>
    BY <1>2, RunOrSame DEF Expand
  <2> QED
    BY <1>2, <2>1, ExpandShape, OfferedStays, ExpandQuiet
<1>3. ASSUME NEW p \in Rows, p \in DOMAIN dom, Request(p)
      PROVE  TreeInv'
  <2>1. p \in Paths
    BY RowsArePaths
  <2>2. UNCHANGED <<environment, user, panel>> /\ (raced => raced')
    BY <1>3 DEF Request
  <2> QED
    BY <1>3, <2>1, <2>2, RequestShape, OfferedStays, RequestQuiet
<1>4. ASSUME NEW p \in Rows, selectComponent(p)
      PROVE  TreeInv'
  <2>1. /\ panel'.kind # "run"
        /\ UNCHANGED <<environment, user, tree, dom, listings, refreshing, raced>>
    BY <1>4 DEF selectComponent
  <2> QED
    BY <1>4, <2>1, SelectKeeps, PanelQuiet
<1>5. ASSUME NEW l \in listings, ListingAnswers(l)
      PROVE  TreeInv'
  <2>1. /\ panel' = panel \/ panel'.kind = "run"
        /\ UNCHANGED <<environment, user, raced>>
    BY <1>5, RunOrSame DEF ListingAnswers
  <2> QED
    BY <1>5, <2>1, AnswerShape, OfferedStays, AnswerQuiet
<1>6. ASSUME NEW l \in listings, ListingFails(l)
      PROVE  TreeInv'
  <2>1. UNCHANGED <<environment, user, panel, raced>>
    BY <1>6 DEF ListingFails
  <2> QED
    BY <1>6, <2>1, FailureShape, OfferedStays, FailureQuiet
<1>7. ASSUME NEW u \in Users, onUserChange(u)
      PROVE  TreeInv'
  <2>1. panel'.kind = "empty"
    BY <1>7 DEF onUserChange, EmptyPanel
  <2> QED
    BY <1>7, <2>1, UserShape, OfferedStays, UserQuiet
<1>8. CASE loadRoot
  <2>1. UNCHANGED <<environment, user, panel, raced>>
    BY <1>8 DEF loadRoot
  <2> QED
    BY <1>8, <2>1, RootShape, OfferedStays, RootQuiet
<1>9. CASE RootFails
  <2>1. UNCHANGED <<environment, user, panel, raced>>
    BY <1>9 DEF RootFails
  <2> QED
    BY <1>9, <2>1, RootFailureShape, OfferedStays, RootFailureQuiet
<1>10. CASE ThemeTypesAnswer \/ PickTheme \/ PickType
  <2>1. ShapeInv' /\ OfferedInv'
    BY <1>10, ThemeTypesKeeps, PickThemeKeeps, PickTypeKeeps
  <2>2. /\ panel'.kind # "run"
        /\ UNCHANGED <<environment, user, tree, dom, listings, refreshing, raced>>
    <3>1. panel.kind = "component"
      BY <1>10 DEF ThemeTypesAnswer, PickTheme, PickType
    <3>2. panel \in Panels
      BY DEF ShapeInv
    <3>3. panel'.kind = "component"
      BY <1>10, <3>1, <3>2 DEF ThemeTypesAnswer, PickTheme, PickType, Narrow, Panels, EmptyPanel
    <3> QED
      BY <1>10, <3>3 DEF ThemeTypesAnswer, PickTheme, PickType
  <2> QED
    BY <2>1, <2>2, PanelQuiet
<1> QED
  BY <1>1, <1>2, <1>3, <1>4, <1>5, <1>6, <1>7, <1>8, <1>9, <1>10 DEF TreeNext

-----------------------------------------------------------------------------
(* Sets of positions.                                                      *)

\* A set of natural numbers that is not empty has a least element.
LEMMA Smallest ==
    ASSUME NEW S \in SUBSET Nat, S # {}
    PROVE  \E x \in S : \A y \in S : x <= y
<1> DEFINE R == {ss \in Nat \X Nat : ss[1] < ss[2]}
<1>1. IsWellFoundedOn(R, Nat)
  BY NatLessThanWellFounded DEF OpToRel
<1>2. PICK x \in S : \A y \in S : ~ (<<y, x>> \in R)
  <2> HIDE DEF R
  <2> QED
    BY <1>1, WFMin
<1>3. ASSUME NEW y \in S PROVE x <= y
  <2>1. x \in Nat /\ y \in Nat
    OBVIOUS
  <2>2. ~ (y < x)
    BY <1>2, <2>1
  <2> QED
    BY <2>1, <2>2
<1> QED
  BY <1>3

\* One that is bounded has a greatest element.
LEMMA Greatest ==
    ASSUME NEW S \in SUBSET Nat, S # {}, NEW n \in Nat, \A y \in S : y <= n
    PROVE  /\ Max(S) \in S
           /\ \A y \in S : y <= Max(S)
<1>1. PICK d \in {n - y : y \in S} : \A e \in {n - y : y \in S} : d <= e
  <2>1. \A y \in S : n - y \in Nat
    <3>1. \A y \in S : y \in Nat
      OBVIOUS
    <3> QED
      BY <3>1
  <2>2. {n - y : y \in S} \in SUBSET Nat /\ {n - y : y \in S} # {}
    BY <2>1
  <2> QED
    BY <2>2, Smallest
<1>2. PICK x \in S : d = n - x
  BY <1>1
<1>3. ASSUME NEW y \in S PROVE x >= y
  <2>1. n - x <= n - y
    BY <1>1, <1>2
  <2>2. x \in Nat /\ y \in Nat
    OBVIOUS
  <2> QED
    BY <2>1, <2>2
<1> QED
  BY <1>2, <1>3 DEF Max

LEMMA MinIs ==
    ASSUME NEW S \in SUBSET Nat, NEW x \in S, \A y \in S : x <= y
    PROVE  Min(S) = x
<1>1. \A z \in S : (\A y \in S : z =< y) => z = x
  OBVIOUS
<1> QED
  BY <1>1 DEF Min

\* The elements of a set up to a bound: their number ranks the bound.
Upto(S, x) == {y \in S : y <= x}
Rank(S, x) == Cardinality(Upto(S, x))

LEMMA RankType ==
    ASSUME NEW S \in SUBSET Nat, NEW x \in Nat
    PROVE  IsFiniteSet(Upto(S, x)) /\ Rank(S, x) \in Nat
<1>1. Upto(S, x) \in SUBSET Nat /\ \A s \in Upto(S, x) : s <= x
  BY DEF Upto
<1>2. IsFiniteSet(Upto(S, x))
  BY <1>1, FS_BoundedSetOfNaturals
<1> QED
  BY <1>2, FS_CardinalityType DEF Rank

LEMMA RankKeepsOrder ==
    ASSUME NEW S \in SUBSET Nat, NEW x \in Nat, NEW y \in Nat, x <= y
    PROVE  Rank(S, x) <= Rank(S, y)
<1>1. Upto(S, x) \in SUBSET Upto(S, y)
  <2> SUFFICES ASSUME NEW s \in S, s <= x PROVE s <= y
    BY DEF Upto
  <2>1. s \in Nat
    OBVIOUS
  <2> QED
    BY <2>1
<1> QED
  BY <1>1, RankType, FS_Subset DEF Rank

\* Each element counts once more than anything before it.
LEMMA RankGrows ==
    ASSUME NEW S \in SUBSET Nat, NEW y \in S, y # 0
    PROVE  Rank(S, y) = Rank(S, y - 1) + 1
<1>1. /\ y \in Nat /\ y - 1 \in Nat
      /\ IsFiniteSet(Upto(S, y - 1)) /\ Rank(S, y - 1) \in Nat
  BY RankType
<1>2. Upto(S, y) = Upto(S, y - 1) \cup {y} /\ y \notin Upto(S, y - 1)
  <2>1. ASSUME NEW s \in S PROVE s <= y <=> s <= y - 1 \/ s = y
    <3>1. s \in Nat
      OBVIOUS
    <3> QED
      BY <1>1, <3>1
  <2>2. ~ (y <= y - 1)
    BY <1>1
  <2> QED
    BY <2>1, <2>2 DEF Upto
<1> QED
  BY <1>1, <1>2, FS_AddElement DEF Rank

LEMMA RankIsStrict ==
    ASSUME NEW S \in SUBSET Nat, NEW x \in Nat, NEW y \in S, x < y
    PROVE  Rank(S, x) < Rank(S, y)
<1>1. y \in Nat /\ y # 0 /\ y - 1 \in Nat /\ x <= y - 1
  OBVIOUS
<1>2. Rank(S, x) <= Rank(S, y - 1) /\ Rank(S, y) = Rank(S, y - 1) + 1
  BY <1>1, RankGrows, RankKeepsOrder
<1>3. Rank(S, x) \in Nat /\ Rank(S, y - 1) \in Nat
  BY <1>1, RankType
<1> QED
  BY <1>2, <1>3

\* Nth finds an element by its rank.
LEMMA NthIs ==
    ASSUME NEW S \in SUBSET Nat, NEW x \in S
    PROVE  Nth(S, Rank(S, x)) = x
<1>1. ASSUME NEW z \in S, Rank(S, z) = Rank(S, x) PROVE z = x
  <2>1. z \in Nat /\ x \in Nat /\ Rank(S, z) \in Nat /\ Rank(S, x) \in Nat
    BY RankType
  <2>2. ~ (z < x) /\ ~ (x < z)
    BY <1>1, <2>1, RankIsStrict
  <2> QED
    BY <2>1, <2>2
<1>2. Nth(S, Rank(S, x)) = CHOOSE z \in S : Rank(S, z) = Rank(S, x)
  BY DEF Nth, Rank, Upto
<1> QED
  BY <1>1, <1>2

\* Every rank up to the size of the set is taken.
LEMMA RankExists ==
    ASSUME NEW S \in SUBSET Nat, NEW n \in Nat, \A y \in S : 0 < y /\ y <= n,
           NEW k \in 1 .. Rank(S, n)
    PROVE  \E x \in S : Rank(S, x) = k
<1> DEFINE late == {x \in S : Rank(S, x) >= k}
<1>1. \A x \in Nat : Rank(S, x) \in Nat
  BY RankType
<1>2. S # {}
  <2>1. Upto(S, n) # {}
    BY <1>1, RankType, FS_EmptySet DEF Rank
  <2> QED
    BY <2>1 DEF Upto
<1>3. late # {}
  <2>1. Max(S) \in S /\ \A y \in S : y <= Max(S)
    BY <1>2, Greatest
  <2>2. Upto(S, Max(S)) = Upto(S, n)
    BY <2>1 DEF Upto
  <2> QED
    BY <1>1, <2>1, <2>2 DEF Rank
<1>4. PICK x \in late : \A y \in late : x <= y
  <2>1. late \in SUBSET Nat
    OBVIOUS
  <2> QED
    BY <1>3, <2>1, Smallest
<1>5. x \in S /\ x \in Nat /\ x # 0 /\ x - 1 \in Nat /\ Rank(S, x) >= k
  BY <1>4
<1>6. Rank(S, x) = Rank(S, x - 1) + 1
  BY <1>5, RankGrows
<1>7. Rank(S, x - 1) < k
  <2>1. CASE Upto(S, x - 1) = {}
    BY <2>1, FS_EmptySet DEF Rank
  <2>2. CASE Upto(S, x - 1) # {}
    <3> DEFINE z == Max(Upto(S, x - 1))
    <3>1. Upto(S, x - 1) \in SUBSET Nat /\ \A y \in Upto(S, x - 1) : y <= x - 1
      BY DEF Upto
    <3>2. z \in Upto(S, x - 1) /\ \A y \in Upto(S, x - 1) : y <= z
      BY <1>5, <2>2, <3>1, Greatest
    <3> HIDE DEF z
    <3>3. z \in S /\ z \in Nat /\ z < x
      BY <1>5, <3>1, <3>2 DEF Upto
    <3>4. Upto(S, z) = Upto(S, x - 1)
      <4>1. ASSUME NEW s \in S PROVE s <= z <=> s <= x - 1
        <5>1. s \in Nat /\ (s <= x - 1 => s <= z)
          BY <3>2 DEF Upto
        <5> QED
          BY <1>5, <3>3, <5>1
      <4> QED
        BY <4>1 DEF Upto
    <3>5. z \notin late
      BY <1>4, <1>5, <3>3
    <3> QED
      BY <1>1, <1>5, <3>3, <3>4, <3>5 DEF Rank
  <2> QED
    BY <2>1, <2>2
<1> QED
  BY <1>1, <1>5, <1>6, <1>7

\* A set moved along the numbers keeps its size.
LEMMA ShiftedSize ==
    ASSUME NEW S \in SUBSET Int, IsFiniteSet(S), NEW d \in Int
    PROVE  /\ IsFiniteSet({y + d : y \in S})
           /\ Cardinality({y + d : y \in S}) = Cardinality(S)
<1> DEFINE T == {y + d : y \in S}
           f == [y \in S |-> y + d]
<1>1. f \in Bijection(S, T)
  <2>1. f \in [S -> T] /\ \A t \in T : \E y \in S : f[y] = t
    OBVIOUS
  <2>2. \A x, y \in S : f[x] = f[y] => x = y
    OBVIOUS
  <2> HIDE DEF f, T
  <2> QED
    BY <2>1, <2>2 DEF Bijection, Injection, Surjection, IsInjective
<1>2. ExistsBijection(S, T)
  BY <1>1 DEF ExistsBijection
<1> QED
  BY <1>2, FS_Bijection

-----------------------------------------------------------------------------
(* Lines.                                                                  *)

\* The part of a sequence after position c and up to b.
LEMMA Part ==
    ASSUME NEW S, NEW s \in Seq(S), NEW c \in 0 .. Len(s), NEW b \in c .. Len(s)
    PROVE  /\ SubSeq(s, c + 1, b) \in Seq(S)
           /\ Len(SubSeq(s, c + 1, b)) = b - c
           /\ DOMAIN SubSeq(s, c + 1, b) = 1 .. b - c
           /\ \A i \in 1 .. b - c : SubSeq(s, c + 1, b)[i] = s[c + i]
<1>1. Len(s) \in Nat /\ \A i \in 1 .. Len(s) : s[i] \in S
  BY LenProperties, ElementOfSeq
<1>2. c + 1 \in 1 .. Len(s) + 1 /\ b \in c + 1 - 1 .. Len(s)
  BY <1>1
<1>3. \A i \in c + 1 .. b : s[i] \in S
  BY <1>1
<1>4. SubSeq(s, c + 1, b) = [i \in 1 .. b - c |-> s[c + i]]
  BY <1>1
<1>5. Len(SubSeq(s, c + 1, b)) = b - c
  BY <1>1, <1>4
<1> QED
  BY <1>1, <1>3, <1>4, <1>5

\* The quotes up to a position.
Quotes(text, i) == {j \in 1 .. i : text[j].mark = "q"}

LEMMA QuotesAreFinite ==
    ASSUME NEW text, NEW i \in Nat
    PROVE  IsFiniteSet(Quotes(text, i)) /\ Cardinality(Quotes(text, i)) \in Nat
<1>1. Quotes(text, i) \in SUBSET (1 .. i) /\ IsFiniteSet(1 .. i)
  BY FS_Interval DEF Quotes
<1> QED
  BY <1>1, FS_Subset, FS_CardinalityType

\* The quotes up to a place are those up to an earlier one and those between.
LEMMA QuotesAdd ==
    ASSUME NEW S, NEW text \in Seq(S), NEW c \in 0 .. Len(text), NEW b \in c .. Len(text),
           NEW i \in 0 .. b - c
    PROVE  Cardinality(Quotes(text, c + i)) =
             Cardinality(Quotes(text, c)) + Cardinality(Quotes(SubSeq(text, c + 1, b), i))
<1> DEFINE part == SubSeq(text, c + 1, b)
           near == {j + c : j \in Quotes(part, i)}
<1>1. \A j \in 1 .. b - c : part[j] = text[c + j]
  BY Part
<1>2. c \in Nat /\ i \in Nat /\ i <= b - c /\ b \in Nat
  BY LenProperties
<1> HIDE DEF part
<1>3. Quotes(part, i) \in SUBSET Int
  BY DEF Quotes
<1>4. /\ IsFiniteSet(near) /\ Cardinality(near) = Cardinality(Quotes(part, i))
      /\ IsFiniteSet(Quotes(part, i))
  <2>1. IsFiniteSet(Quotes(part, i)) /\ c \in Int
    BY <1>2, QuotesAreFinite
  <2> QED
    BY <1>3, <2>1, ShiftedSize, Zenon
<1>5. Quotes(text, c + i) = Quotes(text, c) \cup near
  <2>1. ASSUME NEW j \in Quotes(text, c + i) PROVE j \in Quotes(text, c) \cup near
    <3>1. j \in 1 .. c + i /\ text[j].mark = "q"
      BY <2>1 DEF Quotes
    <3>2. CASE j <= c
      BY <1>2, <3>1, <3>2 DEF Quotes
    <3>3. CASE j > c
      <4>1. j - c \in 1 .. i /\ part[j - c] = text[j] /\ j = (j - c) + c
        BY <1>1, <1>2, <3>1, <3>3
      <4>2. j - c \in Quotes(part, i)
        BY <3>1, <4>1 DEF Quotes
      <4> QED
        BY <4>1, <4>2
    <3> QED
      BY <1>2, <3>1, <3>2, <3>3
  <2>2. ASSUME NEW j \in Quotes(text, c) PROVE j \in Quotes(text, c + i)
    BY <1>2 DEF Quotes
  <2>3. ASSUME NEW k \in Quotes(part, i) PROVE k + c \in Quotes(text, c + i)
    <3>1. k \in 1 .. i /\ part[k].mark = "q"
      BY DEF Quotes
    <3>2. part[k] = text[c + k] /\ k + c = c + k /\ c + k \in 1 .. c + i
      BY <1>1, <1>2, <3>1
    <3> QED
      BY <3>1, <3>2 DEF Quotes
  <2> QED
    BY <2>1, <2>2, <2>3
<1>6. Quotes(text, c) \cap near = {}
  <2>1. \A k \in Quotes(part, i) : k + c \notin 1 .. c
    BY <1>2 DEF Quotes
  <2> QED
    BY <2>1 DEF Quotes
<1>7. IsFiniteSet(Quotes(text, c)) /\ Cardinality(Quotes(text, c)) \in Nat
  BY <1>2, QuotesAreFinite
<1>8. Cardinality(Quotes(part, i)) \in Nat
  BY <1>2, QuotesAreFinite
<1>9. Cardinality(Quotes(text, c) \cap near) = 0
  BY <1>6, FS_EmptySet
<1>10. Cardinality(Quotes(text, c + i)) = Cardinality(Quotes(text, c)) + Cardinality(near)
                                        - Cardinality(Quotes(text, c) \cap near)
  <2> HIDE DEF near
  <2> QED
    BY <1>4, <1>5, <1>7, FS_Union
<1> QED
  BY <1>4, <1>7, <1>8, <1>9, <1>10 DEF part

LEMMA LineEndsAre ==
    ASSUME NEW S, NEW text \in Seq(S)
    PROVE  /\ LineEnds(text) \in SUBSET (1 .. Len(text))
           /\ Len(text) \in Nat
           /\ \A i \in 1 .. Len(text) :
                i \in LineEnds(text) <=>
                  text[i].mark = "n" /\ Cardinality(Quotes(text, i)) % 2 = 0
BY LenProperties DEF LineEnds, Quotes

\* A text that begins after the end of a row has its rows end where they did.
LEMMA EndsOfPart ==
    ASSUME NEW S, NEW text \in Seq(S), NEW c \in LineEnds(text) \cup {0},
           NEW b \in c .. Len(text)
    PROVE  \A i \in 1 .. b - c :
             i \in LineEnds(SubSeq(text, c + 1, b)) <=> c + i \in LineEnds(text)
<1> DEFINE part == SubSeq(text, c + 1, b)
<1>1. /\ c \in 0 .. Len(text) /\ Len(text) \in Nat
      /\ Cardinality(Quotes(text, c)) % 2 = 0
  <2>1. Quotes(text, 0) = {}
    BY DEF Quotes
  <2>2. Cardinality(Quotes(text, 0)) % 2 = 0
    <3>1. Cardinality(Quotes(text, 0)) = 0
      BY <2>1, FS_EmptySet
    <3>2. 0 % 2 = 0
      OBVIOUS
    <3> QED
      BY <3>1, <3>2
  <2> QED
    BY <2>2, LineEndsAre
<1>2. /\ part \in Seq(S) /\ Len(part) = b - c
      /\ \A i \in 1 .. b - c : part[i] = text[c + i]
  BY <1>1, Part
<1>3. ASSUME NEW i \in 1 .. b - c
      PROVE  Cardinality(Quotes(text, c + i)) % 2 = 0 <=> Cardinality(Quotes(part, i)) % 2 = 0
  <2>1. Cardinality(Quotes(text, c + i)) =
          Cardinality(Quotes(text, c)) + Cardinality(Quotes(part, i))
    BY <1>1, QuotesAdd
  <2>2. Cardinality(Quotes(text, c)) \in Nat /\ Cardinality(Quotes(part, i)) \in Nat
    BY <1>1, QuotesAreFinite
  <2> QED
    BY <1>1, <2>1, <2>2
<1> HIDE DEF part
<1>4. ASSUME NEW i \in 1 .. b - c
      PROVE  i \in LineEnds(part) <=> c + i \in LineEnds(text)
  <2>1. c + i \in 1 .. Len(text)
    BY <1>1
  <2>2. i \in LineEnds(part) <=> part[i].mark = "n" /\ Cardinality(Quotes(part, i)) % 2 = 0
    BY <1>2, LineEndsAre
  <2>3. c + i \in LineEnds(text) <=>
          text[c + i].mark = "n" /\ Cardinality(Quotes(text, c + i)) % 2 = 0
    BY <2>1, LineEndsAre
  <2> QED
    BY <1>2, <1>3, <2>2, <2>3
<1> QED
  BY <1>4 DEF part

-----------------------------------------------------------------------------
(* Rows: what lies between two ends.                                       *)

\* What PreviewAssumption says of the ends E of the rows of n bytes.
EndsOfRows(E, n) ==
  /\ n \in Nat /\ E \in SUBSET (1 .. n)
  /\ \A e \in E : e # 1 /\ e - 1 \notin E

End(E, i) == IF i = 0 THEN 0 ELSE Nth(E, i)

LEMMA EndsAreNumbers ==
    ASSUME NEW E, NEW n, EndsOfRows(E, n)
    PROVE  /\ E \in SUBSET Nat
           /\ \A e \in E : e \in Nat /\ 0 < e /\ e <= n
           /\ \A x \in Nat : Rank(E, x) \in Nat
           /\ Rank(E, 0) = 0
<1>1. /\ E \in SUBSET Nat
      /\ \A e \in E : e \in Nat /\ 0 < e /\ e <= n
  BY DEF EndsOfRows
<1>2. Upto(E, 0) = {}
  <2>1. \A e \in E : ~ (e <= 0)
    BY <1>1
  <2> QED
    BY <2>1 DEF Upto
<1> QED
  BY <1>1, <1>2, RankType, FS_EmptySet DEF Rank

\* The i-th end is an end, and it is number i.
LEMMA EndHasRank ==
    ASSUME NEW E, NEW n, EndsOfRows(E, n), NEW i \in 0 .. Rank(E, n)
    PROVE  /\ End(E, i) \in E \cup {0} /\ End(E, i) \in Nat
           /\ i # 0 => End(E, i) \in E
           /\ Rank(E, End(E, i)) = i
<1>1. CASE i = 0
  BY <1>1, EndsAreNumbers DEF End
<1>2. CASE i # 0
  <2>1. n \in Nat /\ Rank(E, n) \in Nat
    BY EndsAreNumbers DEF EndsOfRows
  <2>2. PICK x \in E : Rank(E, x) = i
    <3>1. i \in 1 .. Rank(E, n)
      BY <1>2, <2>1
    <3> QED
      BY <2>1, <3>1, EndsAreNumbers, RankExists
  <2>3. End(E, i) = x
    BY <1>2, <2>2, EndsAreNumbers, NthIs DEF End
  <2> QED
    BY <1>2, <2>2, <2>3, EndsAreNumbers
<1> QED
  BY <1>1, <1>2

\* Ranks order the ends, and the beginning before them.
LEMMA RankOrders ==
    ASSUME NEW E, NEW n, EndsOfRows(E, n), NEW x \in E \cup {0}, NEW y \in E \cup {0}
    PROVE  /\ x \in Nat /\ y \in Nat
           /\ x < y <=> Rank(E, x) < Rank(E, y)
           /\ x = y <=> Rank(E, x) = Rank(E, y)
<1>1. /\ x \in Nat /\ y \in Nat /\ E \in SUBSET Nat
      /\ Rank(E, x) \in Nat /\ Rank(E, y) \in Nat
  BY EndsAreNumbers
<1>2. ASSUME x < y PROVE Rank(E, x) < Rank(E, y)
  <2>1. y \in E
    BY <1>1, <1>2
  <2> QED
    BY <1>1, <1>2, <2>1, RankIsStrict
<1>3. ASSUME y < x PROVE Rank(E, y) < Rank(E, x)
  <2>1. x \in E
    BY <1>1, <1>3
  <2> QED
    BY <1>1, <1>3, <2>1, RankIsStrict
<1> QED
  BY <1>1, <1>2, <1>3

\* After the i-th end comes the next, and a row between.
LEMMA NextEnd ==
    ASSUME NEW E, NEW n, EndsOfRows(E, n), NEW i \in Nat, i < Rank(E, n)
    PROVE  /\ End(E, i) \in Nat /\ End(E, i + 1) \in E /\ End(E, i + 1) \in Nat
           /\ End(E, i) + 1 < End(E, i + 1)
           /\ \A e \in E : End(E, i) < e => End(E, i + 1) <= e
<1>1. Rank(E, n) \in Nat
  BY EndsAreNumbers DEF EndsOfRows
<1>2. /\ i \in 0 .. Rank(E, n) /\ i + 1 \in 0 .. Rank(E, n) /\ i + 1 # 0
  BY <1>1
<1>3. /\ End(E, i) \in E \cup {0} /\ End(E, i + 1) \in E
      /\ Rank(E, End(E, i)) = i /\ Rank(E, End(E, i + 1)) = i + 1
  BY <1>2, EndHasRank
<1>4. End(E, i) < End(E, i + 1) /\ End(E, i) \in Nat /\ End(E, i + 1) \in Nat
  BY <1>3, RankOrders
<1>5. End(E, i) + 1 # End(E, i + 1)
  <2>1. End(E, i + 1) # 1 /\ End(E, i + 1) - 1 \notin E
    BY <1>3 DEF EndsOfRows
  <2> QED
    BY <1>3, <1>4, <2>1
<1>6. ASSUME NEW e \in E, End(E, i) < e PROVE End(E, i + 1) <= e
  <2>1. i < Rank(E, e) /\ Rank(E, e) \in Nat /\ e \in Nat
    BY <1>3, <1>6, RankOrders, EndsAreNumbers
  <2>2. ~ (e < End(E, i + 1))
    <3>1. ~ (Rank(E, e) < i + 1)
      BY <2>1
    <3> QED
      BY <1>3, <3>1, RankOrders
  <2> QED
    BY <1>4, <2>1, <2>2
<1> QED
  BY <1>3, <1>4, <1>5, <1>6

\* The ends from c on, up to x.
From(E, c, x) == {e \in E \cup {0} : c <= e /\ e <= x}

LEMMA RankFrom ==
    ASSUME NEW E, NEW n, EndsOfRows(E, n), NEW c \in E \cup {0}, NEW x \in Nat, c <= x
    PROVE  /\ IsFiniteSet(From(E, c, x)) /\ From(E, c, x) \in SUBSET Int
           /\ Cardinality(From(E, c, x)) = Rank(E, x) - Rank(E, c) + 1
<1> DEFINE after == {e \in E : c < e /\ e <= x}
<1>1. /\ E \in SUBSET Nat /\ c \in Nat /\ \A e \in E : e \in Nat /\ 0 < e
      /\ IsFiniteSet(Upto(E, x)) /\ IsFiniteSet(Upto(E, c))
      /\ Rank(E, x) \in Nat /\ Rank(E, c) \in Nat
  BY EndsAreNumbers, RankType
<1>2. after \in SUBSET Upto(E, x)
  BY DEF Upto
<1>3. IsFiniteSet(after) /\ Cardinality(after) \in Nat
  BY <1>1, <1>2, FS_Subset, FS_CardinalityType
<1>4. Upto(E, x) = Upto(E, c) \cup after /\ Upto(E, c) \cap after = {}
  <2>1. ASSUME NEW e \in E PROVE /\ e <= x <=> e <= c \/ (c < e /\ e <= x)
                                 /\ ~ (e <= c /\ c < e)
    BY <1>1
  <2> QED
    BY <2>1 DEF Upto
<1>5. From(E, c, x) = after \cup {c} /\ c \notin after
  <2>1. ASSUME NEW e \in E \cup {0} PROVE c <= e /\ e <= x <=> e \in after \/ e = c
    BY <1>1
  <2>2. ~ (c < c)
    BY <1>1
  <2> QED
    BY <2>1, <2>2 DEF From
<1>7. From(E, c, x) \in SUBSET Int
  <2>1. \A e \in E \cup {0} : e \in Int
    BY <1>1
  <2> QED
    BY <2>1 DEF From
<1> HIDE DEF after
<1>6. Rank(E, x) = Rank(E, c) + Cardinality(after)
  <2>1. Cardinality(Upto(E, c) \cap after) = 0
    BY <1>4, FS_EmptySet
  <2>2. Cardinality(Upto(E, x)) = Cardinality(Upto(E, c)) + Cardinality(after)
                                    - Cardinality(Upto(E, c) \cap after)
    BY <1>1, <1>3, <1>4, FS_Union
  <2>3. Cardinality(Upto(E, c)) \in Nat
    BY <1>1 DEF Rank
  <2> QED
    BY <1>3, <2>1, <2>2, <2>3 DEF Rank
<1> QED
  BY <1>1, <1>3, <1>5, <1>6, <1>7, FS_AddElement

\* Cutting a part out of a part.
LEMMA PartOfPart ==
    ASSUME NEW S, NEW s \in Seq(S), NEW c \in 0 .. Len(s), NEW b \in c .. Len(s),
           NEW from \in 1 .. b - c + 1, NEW to \in from - 1 .. b - c
    PROVE  SubSeq(SubSeq(s, c + 1, b), from, to) = SubSeq(s, c + from, c + to)
<1> DEFINE part == SubSeq(s, c + 1, b)
<1>1. /\ Len(s) \in Nat /\ part \in Seq(S) /\ Len(part) = b - c
      /\ \A i \in 1 .. b - c : part[i] = s[c + i]
  BY LenProperties, Part
<1> HIDE DEF part
<1>2. /\ from - 1 \in 0 .. Len(part) /\ to \in (from - 1) .. Len(part)
      /\ from - 1 + 1 = from
  BY <1>1
<1>3. /\ SubSeq(part, from, to) \in Seq(S) /\ Len(SubSeq(part, from, to)) = to - (from - 1)
      /\ \A i \in 1 .. to - (from - 1) : SubSeq(part, from, to)[i] = part[from - 1 + i]
  <2>1. /\ SubSeq(part, from - 1 + 1, to) \in Seq(S)
        /\ Len(SubSeq(part, from - 1 + 1, to)) = to - (from - 1)
        /\ \A i \in 1 .. to - (from - 1) : SubSeq(part, from - 1 + 1, to)[i] = part[from - 1 + i]
    <3> DEFINE k == from - 1
    <3>1. k \in 0 .. Len(part) /\ to \in k .. Len(part)
      BY <1>2
    <3> HIDE DEF k
    <3>2. /\ SubSeq(part, k + 1, to) \in Seq(S) /\ Len(SubSeq(part, k + 1, to)) = to - k
          /\ \A i \in 1 .. to - k : SubSeq(part, k + 1, to)[i] = part[k + i]
      BY <1>1, <3>1, Part
    <3> QED
      BY <3>2 DEF k
  <2> QED
    BY <1>2, <2>1
<1>4. /\ c + from - 1 \in 0 .. Len(s) /\ c + to \in (c + from - 1) .. Len(s)
      /\ c + from - 1 + 1 = c + from /\ (c + to) - (c + from - 1) = to - (from - 1)
  BY <1>1
<1>5. /\ SubSeq(s, c + from, c + to) \in Seq(S)
      /\ Len(SubSeq(s, c + from, c + to)) = to - (from - 1)
      /\ \A i \in 1 .. to - (from - 1) :
           SubSeq(s, c + from, c + to)[i] = s[c + from - 1 + i]
  <2>1. /\ SubSeq(s, c + from - 1 + 1, c + to) \in Seq(S)
        /\ Len(SubSeq(s, c + from - 1 + 1, c + to)) = (c + to) - (c + from - 1)
        /\ \A i \in 1 .. (c + to) - (c + from - 1) :
             SubSeq(s, c + from - 1 + 1, c + to)[i] = s[c + from - 1 + i]
    BY <1>4, Part
  <2> QED
    BY <1>4, <2>1
<1>6. ASSUME NEW i \in 1 .. to - (from - 1)
      PROVE  SubSeq(part, from, to)[i] = SubSeq(s, c + from, c + to)[i]
  <2>1. from - 1 + i \in 1 .. b - c /\ c + (from - 1 + i) = c + from - 1 + i
    BY <1>1
  <2>2. part[from - 1 + i] = s[c + (from - 1 + i)]
    BY <1>1, <2>1
  <2> QED
    BY <1>3, <1>5, <2>1, <2>2
<1>7. SubSeq(part, from, to) = SubSeq(s, c + from, c + to)
  BY <1>3, <1>5, <1>6, SeqEqual
<1> QED
  BY <1>7 DEF part

\* The text from the end of one row to the end of another is split into the
\* rows between them.
LEMMA SplitIsRows ==
    ASSUME NEW S, NEW text \in Seq(S), EndsOfRows(LineEnds(text), Len(text)),
           NEW c \in LineEnds(text) \cup {0}, NEW b \in LineEnds(text), c < b
    PROVE  LET E == LineEnds(text)
           IN  splitCsvLines(SubSeq(text, c + 1, b)) =
                 [k \in 1 .. Rank(E, b) - Rank(E, c) |->
                    SubSeq(text, End(E, Rank(E, c) + k - 1) + 1, End(E, Rank(E, c) + k) - 1)]
<1> DEFINE E == LineEnds(text)
           part == SubSeq(text, c + 1, b)
           first == Rank(E, c)
           ends == LineEnds(part) \cup {Len(part) + 1}
           starts == {a \in DOMAIN part : a \notin ends /\ (a = 1 \/ a - 1 \in ends)}
           line(a) == SubSeq(part, a, Min({e \in ends : a < e}) - 1)
           before == From(E, c, b - 1)
<1>1. /\ Len(text) \in Nat /\ E \in SUBSET Nat /\ EndsOfRows(E, Len(text))
      /\ c \in Nat /\ b \in Nat /\ b - 1 \in Nat /\ c < b /\ b <= Len(text)
      /\ c \in 0 .. Len(text) /\ b \in c .. Len(text)
      /\ c \in E \cup {0} /\ b \in E
      /\ \A e \in E : e \in Nat /\ 0 < e /\ e <= Len(text) /\ e # 1 /\ e - 1 \notin E
  BY LineEndsAre, EndsAreNumbers DEF EndsOfRows
<1>2. /\ part \in Seq(S) /\ Len(part) = b - c /\ DOMAIN part = 1 .. b - c
  BY <1>1, Part
<1>3. \A i \in 1 .. b - c : i \in LineEnds(part) <=> c + i \in E
  BY <1>1, EndsOfPart
<1>4. LineEnds(part) \in SUBSET (1 .. b - c)
  BY <1>2, LineEndsAre
<1>5. splitCsvLines(part) = [k \in 1 .. Cardinality(starts) |-> line(Nth(starts, k))]
  BY DEF splitCsvLines
<1> HIDE DEF E, part
<1>6. starts = {e + (1 - c) : e \in before}
  <2> USE DEF From
  <2>1. ASSUME NEW a \in 1 .. b - c
        PROVE  a \in starts <=> c + a - 1 \in before
    <3>1. a \in ends <=> c + a \in E
      BY <1>1, <1>2, <1>3
    <3>2. CASE a = 1
      BY <1>1, <1>2, <3>1, <3>2
    <3>3. CASE a # 1
      <4>1. a - 1 \in 1 .. b - c /\ c + (a - 1) = c + a - 1 /\ a - 1 # b - c + 1
        BY <1>1, <3>3
      <4>2. a - 1 \in ends <=> c + a - 1 \in E
        BY <1>2, <1>3, <4>1
      <4>3. c + a - 1 \in E => c + a \notin E
        BY <1>1
      <4>4. c + a - 1 # 0 /\ c <= c + a - 1 /\ c + a - 1 <= b - 1
        BY <1>1, <3>3
      <4> QED
        BY <1>2, <3>1, <3>3, <4>2, <4>3, <4>4
    <3> QED
      BY <3>2, <3>3
  <2>2. ASSUME NEW e \in before
        PROVE  e + (1 - c) \in 1 .. b - c /\ c + (e + (1 - c)) - 1 = e
    BY <1>1
  <2>3. \A a \in 1 .. b - c : a = (c + a - 1) + (1 - c)
    BY <1>1
  <2>4. starts \subseteq 1 .. b - c
    BY <1>2
  <2> HIDE DEF starts, before
  <2>5. ASSUME NEW a \in starts PROVE a \in {e + (1 - c) : e \in before}
    BY <2>1, <2>3, <2>4
  <2>6. ASSUME NEW e \in before PROVE e + (1 - c) \in starts
    BY <2>1, <2>2
  <2> QED
    BY <2>5, <2>6
<1> HIDE DEF starts
<1>7. Cardinality(starts) = Rank(E, b) - first
  <2>1. /\ IsFiniteSet(before) /\ before \in SUBSET Int
        /\ Cardinality(before) = Rank(E, b - 1) - first + 1
    <3>1. c <= b - 1
      BY <1>1
    <3> QED
      BY <1>1, <3>1, RankFrom
  <2>2. Rank(E, b) = Rank(E, b - 1) + 1
    BY <1>1, RankGrows
  <2>3. 1 - c \in Int
    BY <1>1
  <2>4. Rank(E, b - 1) \in Nat /\ first \in Nat
    BY <1>1, RankType
  <2>5. Cardinality({e + (1 - c) : e \in before}) = Cardinality(before)
    <3> HIDE DEF before
    <3> QED
      BY <2>1, <2>3, ShiftedSize
  <2> QED
    BY <1>6, <2>1, <2>2, <2>4, <2>5
<1>8. ASSUME NEW k \in 1 .. Rank(E, b) - first
      PROVE  line(Nth(starts, k)) = SubSeq(text, End(E, first + k - 1) + 1, End(E, first + k) - 1)
  <2> DEFINE e == End(E, first + k - 1)
             next == End(E, first + k)
  <2>1. /\ first \in Nat /\ Rank(E, b) \in Nat /\ first + k - 1 \in Nat
        /\ first + k - 1 + 1 = first + k
        /\ Rank(E, b) <= Rank(E, Len(text)) /\ Rank(E, Len(text)) \in Nat
    BY <1>1, RankType, RankKeepsOrder
  <2>2. /\ e \in Nat /\ next \in E /\ next \in Nat /\ e + 1 < next
        /\ \A x \in E : e < x => next <= x
    <3>1. first + k - 1 < Rank(E, Len(text))
      BY <2>1
    <3> QED
      BY <1>1, <2>1, <3>1, NextEnd
  <2>3. /\ e \in E \cup {0} /\ Rank(E, e) = first + k - 1 /\ Rank(E, next) = first + k
    <3>1. first + k - 1 \in 0 .. Rank(E, Len(text)) /\ first + k \in 0 .. Rank(E, Len(text))
      BY <2>1
    <3> QED
      BY <1>1, <3>1, EndHasRank
  <2> HIDE DEF e, next
  <2>4. c <= e /\ e < b /\ next <= b
    <3>1. ~ (Rank(E, e) < Rank(E, c)) /\ Rank(E, e) < Rank(E, b) /\ ~ (Rank(E, b) < Rank(E, next))
      BY <2>1, <2>3
    <3>2. ~ (e < c) /\ e < b /\ ~ (b < next)
      BY <1>1, <2>2, <2>3, <3>1, RankOrders
    <3> QED
      BY <1>1, <2>2, <3>2
  <2>5. Nth(starts, k) = e + (1 - c)
    <3> DEFINE s == e + (1 - c)
               low == From(E, c, e)
    <3>1. e \in before
      BY <1>1, <2>2, <2>3, <2>4 DEF From
    <3>2. s \in starts
      BY <1>6, <3>1
    <3>3. starts \in SUBSET Nat
      <4>1. \A x \in before : x + (1 - c) \in Nat
        BY <1>1 DEF From
      <4> QED
        BY <1>6, <4>1
    <3>4. Upto(starts, s) = {x + (1 - c) : x \in low}
      <4>1. ASSUME NEW x \in before PROVE x + (1 - c) <= s <=> x \in low
        BY <1>1, <2>2 DEF From
      <4>2. ASSUME NEW x \in low PROVE x \in before
        <5>1. x \in E \cup {0} /\ x \in Nat /\ c <= x /\ x <= e
          BY <1>1 DEF From
        <5>2. x <= b - 1
          BY <1>1, <2>2, <2>4, <5>1
        <5> QED
          BY <5>1, <5>2 DEF From
      <4> HIDE DEF before, low, s
      <4> QED
        BY <1>6, <4>1, <4>2 DEF Upto
    <3>5. /\ IsFiniteSet(low) /\ low \in SUBSET Int
          /\ Cardinality(low) = Rank(E, e) - first + 1
      BY <1>1, <2>2, <2>4, RankFrom
    <3>6. 1 - c \in Int
      BY <1>1
    <3>7. Rank(starts, s) = k
      <4>1. Cardinality({x + (1 - c) : x \in low}) = Cardinality(low)
        <5> HIDE DEF low
        <5> QED
          BY <3>5, <3>6, ShiftedSize
      <4>2. Rank(starts, s) = Cardinality(low)
        BY <3>4, <4>1 DEF Rank
      <4>3. Cardinality(low) = k
        <5>1. Rank(E, e) = first + k - 1 /\ Cardinality(low) = Rank(E, e) - first + 1
          BY <2>3, <3>5
        <5>2. first \in Nat /\ k \in Int
          BY <2>1
        <5> HIDE DEF first, low
        <5> QED
          BY <5>1, <5>2
      <4> QED
        BY <4>2, <4>3
    <3> QED
      BY <3>2, <3>3, <3>7, NthIs
  <2>6. Min({x \in ends : e + (1 - c) < x}) = next - c
    <3> DEFINE later == {x \in ends : e + (1 - c) < x}
    <3>1. next - c \in 1 .. b - c /\ c + (next - c) = next
      BY <1>1, <2>2, <2>4
    <3>2. next - c \in later
      BY <1>1, <1>3, <2>2, <3>1
    <3>3. ASSUME NEW x \in later PROVE x \in Nat /\ next - c <= x
      <4>1. x \in LineEnds(part) \/ x = b - c + 1
        BY <1>2
      <4>2. CASE x \in LineEnds(part)
        <5>1. x \in 1 .. b - c /\ c + x \in E /\ e < c + x
          BY <1>1, <1>3, <1>4, <2>2, <3>3, <4>2
        <5> QED
          BY <1>1, <2>2, <5>1
      <4>3. CASE x = b - c + 1
        BY <1>1, <2>2, <2>4, <4>3
      <4> QED
        BY <4>1, <4>2, <4>3
    <3>4. later \in SUBSET Nat
      BY <3>3
    <3> HIDE DEF later
    <3>5. Min(later) = next - c
      BY <3>2, <3>3, <3>4, MinIs
    <3> QED
      BY <3>5 DEF later
  <2>7. line(Nth(starts, k)) = SubSeq(part, e + (1 - c), next - c - 1)
    BY <2>5, <2>6
  <2>8. SubSeq(part, e + (1 - c), next - c - 1) = SubSeq(text, e + 1, next - 1)
    <3> DEFINE from == e + (1 - c)
               to == next - c - 1
    <3>1. /\ from \in 1 .. b - c + 1 /\ to \in from - 1 .. b - c
          /\ c + from = e + 1 /\ c + to = next - 1
      BY <1>1, <2>2, <2>4
    <3>2. SubSeq(part, from, to) = SubSeq(text, c + from, c + to)
      <4> HIDE DEF from, to
      <4> QED
        BY <1>1, <3>1, PartOfPart DEF part
    <3> QED
      BY <3>1, <3>2
  <2> QED
    BY <2>7, <2>8 DEF e, next
<1>9. splitCsvLines(part) = [k \in 1 .. Rank(E, b) - first |->
                               SubSeq(text, End(E, first + k - 1) + 1, End(E, first + k) - 1)]
  <2> HIDE DEF ends, line
  <2> QED
    BY <1>5, <1>7, <1>8
<1> QED
  BY <1>9 DEF E, part

\* The last end of a row in a part of a text.
LEMMA BreakOfPart ==
    ASSUME NEW S, NEW text \in Seq(S), NEW c \in LineEnds(text) \cup {0},
           NEW l \in c .. Len(text)
    PROVE  LET break == findSafeBreak(SubSeq(text, c + 1, l))
           IN  /\ break \in 0 .. l - c
               /\ break # 0 => c + break \in LineEnds(text)
               /\ \A e \in LineEnds(text) : e <= l => e <= c + break
<1> DEFINE part == SubSeq(text, c + 1, l)
           ends == LineEnds(part)
           break == findSafeBreak(part)
<1>1. /\ Len(text) \in Nat /\ LineEnds(text) \in SUBSET (1 .. Len(text))
      /\ c \in 0 .. Len(text) /\ c \in Nat /\ l \in Nat
  BY LineEndsAre
<1>2. /\ part \in Seq(S) /\ Len(part) = l - c
      /\ \A i \in 1 .. l - c : i \in ends <=> c + i \in LineEnds(text)
  BY <1>1, Part, EndsOfPart
<1>3. ends \in SUBSET (1 .. l - c)
  BY <1>2, LineEndsAre
<1>4. break = IF ends = {} THEN 0 ELSE Max(ends)
  BY DEF findSafeBreak
<1> HIDE DEF part, ends, break
<1>5. \A e \in LineEnds(text) : e <= l => e <= c \/ e - c \in ends
  <2> SUFFICES ASSUME NEW e \in LineEnds(text), e <= l, ~ (e <= c) PROVE e - c \in ends
    OBVIOUS
  <2>1. e - c \in 1 .. l - c /\ c + (e - c) = e
    BY <1>1
  <2> QED
    BY <1>2, <2>1
<1>6. CASE ends = {}
  BY <1>1, <1>4, <1>5, <1>6 DEF break, part
<1>7. CASE ends # {}
  <2>1. break \in ends /\ \A i \in ends : i <= break
    <3>1. ends \in SUBSET Nat /\ l - c \in Nat /\ \A i \in ends : i <= l - c
      BY <1>1, <1>3
    <3> QED
      BY <1>4, <1>7, <3>1, Greatest
  <2>2. break \in 1 .. l - c /\ c + break \in LineEnds(text)
    BY <1>2, <1>3, <2>1
  <2>3. ASSUME NEW e \in LineEnds(text), e <= l PROVE e <= c + break
    <3>1. e <= c \/ e - c <= break
      BY <1>5, <2>1, <2>3
    <3>2. e \in Nat
      BY <1>1
    <3> QED
      BY <1>1, <2>2, <3>1, <3>2
  <2> QED
    BY <2>2, <2>3 DEF break, part
<1> QED
  BY <1>6, <1>7

\* Two parts that meet.
LEMMA PartsMeet ==
    ASSUME NEW S, NEW s \in Seq(S), NEW c \in 0 .. Len(s), NEW m \in c .. Len(s),
           NEW b \in m .. Len(s)
    PROVE  SubSeq(s, c + 1, m) \o SubSeq(s, m + 1, b) = SubSeq(s, c + 1, b)
<1> DEFINE left == SubSeq(s, c + 1, m)
           right == SubSeq(s, m + 1, b)
           whole == SubSeq(s, c + 1, b)
<1>1. Len(s) \in Nat /\ c \in Nat /\ m \in Nat /\ b \in Nat /\ c <= m /\ m <= b
      /\ m \in 0 .. Len(s) /\ b \in c .. Len(s)
  BY LenProperties
<1>2. /\ left \in Seq(S) /\ Len(left) = m - c
      /\ \A i \in 1 .. m - c : left[i] = s[c + i]
  BY Part
<1>3. /\ right \in Seq(S) /\ Len(right) = b - m
      /\ \A i \in 1 .. b - m : right[i] = s[m + i]
  BY <1>1, Part
<1>4. /\ whole \in Seq(S) /\ Len(whole) = b - c
      /\ \A i \in 1 .. b - c : whole[i] = s[c + i]
  BY <1>1, Part
<1> HIDE DEF left, right, whole
<1>5. /\ left \o right \in Seq(S) /\ Len(left \o right) = b - c
      /\ \A i \in 1 .. b - c :
           (left \o right)[i] = IF i <= m - c THEN left[i] ELSE right[i - (m - c)]
  <2>1. /\ left \o right \in Seq(S) /\ Len(left \o right) = Len(left) + Len(right)
        /\ \A i \in 1 .. Len(left) + Len(right) :
             (left \o right)[i] = IF i <= Len(left) THEN left[i] ELSE right[i - Len(left)]
    BY <1>2, <1>3, ConcatProperties
  <2>2. Len(left) + Len(right) = b - c /\ Len(left) = m - c
    BY <1>1, <1>2, <1>3
  <2> QED
    BY <2>1, <2>2
<1>6. ASSUME NEW i \in 1 .. b - c PROVE (left \o right)[i] = whole[i]
  <2>1. CASE i <= m - c
    <3>1. i \in 1 .. m - c
      BY <1>1, <2>1
    <3> QED
      BY <1>2, <1>4, <1>5, <2>1, <3>1
  <2>2. CASE ~ (i <= m - c)
    <3>1. i - (m - c) \in 1 .. b - m /\ m + (i - (m - c)) = c + i
      BY <1>1, <2>2
    <3>2. right[i - (m - c)] = s[c + i]
      BY <1>3, <3>1
    <3> QED
      BY <1>4, <1>5, <2>2, <3>2
  <2> QED
    BY <2>1, <2>2
<1>7. left \o right = whole
  BY <1>4, <1>5, <1>6, SeqEqual
<1> QED
  BY <1>7 DEF left, right, whole

LEMMA NoLines ==
    ASSUME NEW text, Len(text) = 0, DOMAIN text = {}
    PROVE  splitCsvLines(text) = <<>>
<1> DEFINE ends == LineEnds(text) \cup {Len(text) + 1}
           starts == {a \in DOMAIN text : a \notin ends /\ (a = 1 \/ a - 1 \in ends)}
           line(a) == SubSeq(text, a, Min({e \in ends : a < e}) - 1)
<1>1. splitCsvLines(text) = [k \in 1 .. Cardinality(starts) |-> line(Nth(starts, k))]
  BY DEF splitCsvLines
<1>2. Cardinality(starts) = 0
  BY FS_EmptySet
<1> HIDE DEF starts, line
<1> QED
  BY <1>1, <1>2

-----------------------------------------------------------------------------
(* The result of a query.                                                  *)

Units(r) == [q : {r}, at : Nat, mark : Marks]

\* The result of a query that has one, as PreviewAssumption has it.
LEMMA BodyHasRows ==
    ASSUME QueriesInv, NEW r \in Runs, query[r].csv # <<>>
    PROVE  /\ Body(r) \in Seq(Units(r)) /\ Len(Body(r)) \in Nat
           /\ EndsOfRows(LineEnds(Body(r)), Len(Body(r)))
           /\ Len(Body(r)) \in LineEnds(Body(r))
           /\ \E e \in LineEnds(Body(r)) : e <= ChunkSize
<1> DEFINE f == query[r].csv
<1>1. f \in Csvs \ {<<>>} /\ f \in Seq(Marks)
  BY PreviewAssumption DEF QueriesInv
<1> HIDE DEF f
<1>2. /\ Len(f) \in Nat /\ DOMAIN f = 1 .. Len(f)
      /\ \A i \in 1 .. Len(f) : f[i] \in Marks
  BY <1>1, LenProperties, ElementOfSeq
<1>3. Body(r) = [i \in 1 .. Len(f) |-> [q |-> r, at |-> i, mark |-> f[i]]]
  BY <1>2 DEF Body, Text, f
<1>4. /\ Body(r) \in Seq(Units(r)) /\ Len(Body(r)) = Len(f)
  <2>1. \A i \in 1 .. Len(f) : [q |-> r, at |-> i, mark |-> f[i]] \in Units(r)
    BY <1>2 DEF Units
  <2> QED
    BY <1>2, <1>3, <2>1, LenProperties
<1>5. /\ Len(f) \in LineEnds(Text(r, f))
      /\ \E e \in LineEnds(Text(r, f)) : e <= ChunkSize
      /\ \A e \in LineEnds(Text(r, f)) : e # 1 /\ e - 1 \notin LineEnds(Text(r, f))
  BY <1>1, PreviewAssumption, Zenon
<1>6. Body(r) = Text(r, f)
  BY DEF Body, f
<1> QED
  BY <1>2, <1>4, <1>5, <1>6, LineEndsAre DEF EndsOfRows

\* What is split between two ends of the result are its rows between them.
LEMMA LinesAreRows ==
    ASSUME QueriesInv, NEW r \in Runs, query[r].csv # <<>>,
           NEW c \in LineEnds(Body(r)) \cup {0}, NEW b \in LineEnds(Body(r)), c < b
    PROVE  LET E == LineEnds(Body(r))
           IN  /\ Rank(E, c) \in Nat /\ Rank(E, b) \in Nat /\ Rank(E, c) < Rank(E, b)
               /\ splitCsvLines(SubSeq(Body(r), c + 1, b)) =
                    [k \in 1 .. Rank(E, b) - Rank(E, c) |-> Row(r, Rank(E, c) + k)]
<1> DEFINE B == Body(r)
           E == LineEnds(B)
<1>1. /\ B \in Seq(Units(r)) /\ EndsOfRows(E, Len(B))
  BY BodyHasRows
<1>2. /\ Rank(E, c) \in Nat /\ Rank(E, b) \in Nat /\ Rank(E, c) < Rank(E, b)
  <2>1. c \in E \cup {0} /\ b \in E \cup {0}
    OBVIOUS
  <2> HIDE DEF E
  <2> QED
    BY <1>1, <2>1, RankOrders, EndsAreNumbers
<1>3. splitCsvLines(SubSeq(B, c + 1, b)) =
        [k \in 1 .. Rank(E, b) - Rank(E, c) |->
           SubSeq(B, End(E, Rank(E, c) + k - 1) + 1, End(E, Rank(E, c) + k) - 1)]
  <2> HIDE DEF B
  <2> QED
    BY <1>1, SplitIsRows DEF B
<1>4. \A i : Row(r, i) = SubSeq(B, End(E, i - 1) + 1, End(E, i) - 1)
  BY DEF Row, RowEnd, End
<1> HIDE DEF B, E
<1>5. ASSUME NEW k \in 1 .. Rank(E, b) - Rank(E, c)
      PROVE  Row(r, Rank(E, c) + k)
               = SubSeq(B, End(E, Rank(E, c) + k - 1) + 1, End(E, Rank(E, c) + k) - 1)
  <2> DEFINE i == Rank(E, c) + k
  <2> HIDE DEF i
  <2>1. Row(r, i) = SubSeq(B, End(E, i - 1) + 1, End(E, i) - 1)
    BY <1>4
  <2>2. Rank(E, c) + (k - 1) = i - 1
    BY <1>2 DEF i
  <2> QED
    BY <2>1, <2>2, Zenon DEF i
<1>6. splitCsvLines(SubSeq(B, c + 1, b)) =
        [k \in 1 .. Rank(E, b) - Rank(E, c) |-> Row(r, Rank(E, c) + k)]
  BY <1>3, <1>5
<1> QED
  BY <1>2, <1>6 DEF B, E

LEMMA RowsStay ==
    ASSUME NEW r, query'[r].csv = query[r].csv
    PROVE  Body(r)' = Body(r) /\ \A i : Row(r, i)' = Row(r, i)
<1>1. Body(r)' = Body(r)
  BY DEF Body
<1> QED
  BY <1>1 DEF Row, RowEnd

LEMMA ShowsStays ==
    ASSUME NEW r, NEW cut, UNCHANGED <<data, table>>, query'[r].csv = query[r].csv
    PROVE  ShowsUpTo(r, cut)' <=> ShowsUpTo(r, cut)
<1>1. Body(r)' = Body(r) /\ \A i : Row(r, i)' = Row(r, i)
  BY RowsStay
<1>2. LineEnds(Body(r))' = LineEnds(Body(r))
  BY <1>1
<1> QED
  BY <1>1, <1>2 DEF ShowsUpTo

\* The table and its result stay.
LEMMA DrawnStays ==
    ASSUME DrawnInv, UNCHANGED <<data, table>>,
           data.tbody # NoQuery => query'[data.tbody].csv = query[data.tbody].csv,
           page'.statusBar = "full" => page.statusBar = "full"
    PROVE  DrawnInv'
<1>1. ASSUME NEW r, r = data.tbody, r # NoQuery, TableDrawn(r)
      PROVE  TableDrawn(r)'
  <2>1. Body(r)' = Body(r) /\ query'[r].csv = query[r].csv
    BY <1>1, RowsStay
  <2>2. \A cut : ShowsUpTo(r, cut)' <=> ShowsUpTo(r, cut)
    BY <1>1, ShowsStays
  <2> QED
    BY <1>1, <2>1, <2>2 DEF TableDrawn
<1> QED
  BY <1>1 DEF DrawnInv

LEMMA ClearedBlank == Cleared.tbody = NoQuery /\ Cleared.csv = NoQuery
BY DEF Cleared

LEMMA FreshSession ==
    ASSUME run = [r \in Runs |-> [pc |-> "idle", polls |-> 0]],
           load = [l \in Loads |-> [pc |-> "idle", csv |-> NoQuery, start |-> 0]],
           page.statusBar = "empty", data = Cleared
    PROVE  SessionInv
<1>1. /\ \A r \in Runs : ~ Active(r) /\ ~ InPhase1(r) /\ run[r].pc # "fetching"
      /\ \A l \in Loads : ~ Loading(l)
  BY DEF Active, InPhase1, Loading
<1> QED
  BY <1>1, ClearedBlank DEF SessionInv, InFlightOnce, WaitingInv, DrawnInv

LEMMA RunQuerySession ==
    ASSUME RunsInv, LoadsInv, NEW r \in Runs, RunQuery(r), ~overlapped'
    PROVE  SessionInv'
<1>1. /\ \A s \in Runs : ~ Active(s)
      /\ \A l \in Loads : ~ Loading(l)
      /\ run' = [run EXCEPT ![r].pc = "starting"] /\ load' = load
      /\ page'.statusBar = "empty" /\ data' = Cleared
  BY DEF RunQuery, Busy
<1>2. /\ \A s \in Runs : s # r => ~ Active(s)' /\ run'[s].pc # "fetching"
      /\ run'[r].pc # "fetching"
      /\ \A l \in Loads : ~ Loading(l)'
  BY <1>1 DEF RunsInv, Active, InPhase1, Loading
<1> QED
  BY <1>1, <1>2, ClearedBlank DEF SessionInv, InFlightOnce, WaitingInv, DrawnInv, Active

\* A run that ends, or goes on in its first phase.
LEMMA RunMovesSession ==
    ASSUME RunsInv, SessionInv, NEW r \in Runs, Active(r),
           DOMAIN run' = Runs, \A s \in Runs \ {r} : run'[s] = run[s],
           \/ run'[r].pc = "done"
           \/ InPhase1(r) /\ InPhase1(r)',
           UNCHANGED <<load, data, table>>, page'.statusBar = page.statusBar,
           \A s \in Runs \ {r} : query'[s].csv = query[s].csv
    PROVE  SessionInv'
<1>1. /\ \A s \in Runs : Active(s)' => Active(s)
      /\ \A s \in Runs : InPhase1(s)' => InPhase1(s)
      /\ \A s \in Runs : run'[s].pc = "fetching" => run[s].pc = "fetching"
      /\ \A l \in Loads : Loading(l)' <=> Loading(l)
  BY DEF Active, InPhase1, Loading
<1>2. InFlightOnce'
  BY <1>1 DEF SessionInv, InFlightOnce
<1>3. WaitingInv'
  BY <1>1 DEF SessionInv, WaitingInv
<1>4. data.tbody = NoQuery
  <2>1. data = Cleared \/ data = [Cleared EXCEPT !.csv = r]
    BY DEF SessionInv, WaitingInv, Active
  <2> QED
    BY <2>1 DEF Cleared
<1>5. DrawnInv'
  BY <1>4 DEF DrawnInv
<1> QED
  BY <1>2, <1>3, <1>5 DEF SessionInv

LEMMA AthenaSession ==
    ASSUME SessionInv, QueriesInv, DataInv, NEW r \in Runs, AthenaMoves(r)
    PROVE  SessionInv'
<1>1. \A s \in Runs : query'[s].csv = query[s].csv
  BY DEF AthenaMoves, QueriesInv
<1>2. UNCHANGED <<run, load, page, data, table>>
  BY DEF AthenaMoves
<1>3. DrawnInv'
  <2>1. data.tbody # NoQuery => query'[data.tbody].csv = query[data.tbody].csv
    BY <1>1 DEF DataInv
  <2> QED
    BY <1>2, <2>1, DrawnStays DEF SessionInv
<1>4. InFlightOnce' /\ WaitingInv'
  BY <1>2 DEF SessionInv, InFlightOnce, WaitingInv, Active, InPhase1, Loading
<1> QED
  BY <1>3, <1>4 DEF SessionInv

\* While a run is under way, nothing else is.
LEMMA Alone ==
    ASSUME InFlightOnce, NEW r \in Runs, Active(r)
    PROVE  /\ \A s \in Runs : s # r => ~ Active(s) /\ ~ InPhase1(s) /\ run[s].pc # "fetching"
           /\ \A l \in Loads : ~ Loading(l)
BY DEF InFlightOnce, Active

LEMMA RunStepSession ==
    ASSUME RunsInv, QueriesInv, PageInv, SessionInv, NEW r \in Runs,
           \/ QueryStarts(r) \/ RequestFails(r) \/ PollSaysFailed(r) \/ TimesOut(r)
           \/ PollAgain(r) \/ Wake(r) \/ FirstChunkFails(r)
    PROVE  SessionInv'
<1>1. /\ Active(r) /\ DOMAIN run' = Runs /\ \A s \in Runs \ {r} : run'[s] = run[s]
      /\ run'[r].pc = "done" \/ (InPhase1(r) /\ InPhase1(r)')
  BY DEF RunsInv, QueryStarts, RequestFails, PollSaysFailed, TimesOut, PollAgain, Wake,
         FirstChunkFails, EndsInError, Active, InPhase1
<1>2. UNCHANGED <<load, data, table>> /\ page'.statusBar = page.statusBar
  BY DEF PageInv, QueryStarts, RequestFails, PollSaysFailed, TimesOut, PollAgain, Wake,
         FirstChunkFails, EndsInError, ShowMessage
<1>3. \A s \in Runs \ {r} : query'[s].csv = query[s].csv
  BY DEF QueriesInv, QueryStarts, RequestFails, PollSaysFailed, TimesOut, PollAgain, Wake,
         FirstChunkFails, EndsInError
<1> QED
  BY <1>1, <1>2, <1>3, RunMovesSession

LEMMA SucceededSession ==
    ASSUME RunsInv, SessionInv, NEW r \in Runs, PollSaysSucceeded(r)
    PROVE  SessionInv'
<1>1. /\ run[r].pc = "polling" /\ run' = [run EXCEPT ![r].pc = "fetching"]
      /\ data' = [data EXCEPT !.csv = r] /\ load' = load
  BY DEF PollSaysSucceeded
<1>2. Active(r) /\ InPhase1(r)
  BY <1>1 DEF Active, InPhase1
<1>3. /\ \A s \in Runs : s # r => ~ Active(s) /\ ~ InPhase1(s) /\ run[s].pc # "fetching"
      /\ \A l \in Loads : ~ Loading(l)
  BY <1>2, Alone DEF SessionInv
<1>4. /\ run'[r].pc = "fetching" /\ ~ InPhase1(r)'
      /\ \A s \in Runs : s # r => ~ Active(s)' /\ ~ InPhase1(s)' /\ run'[s].pc # "fetching"
      /\ \A l \in Loads : ~ Loading(l)'
  BY <1>1, <1>3 DEF RunsInv, Active, InPhase1, Loading
<1>5. data = Cleared
  BY <1>2 DEF SessionInv, WaitingInv
<1>6. data' = [Cleared EXCEPT !.csv = r] /\ data'.tbody = NoQuery
  BY <1>1, <1>5 DEF Cleared
<1>7. page'.statusBar = page.statusBar
  BY DEF PollSaysSucceeded
<1>8. page'.statusBar = "empty"
  BY <1>5, <1>7, ClearedBlank DEF SessionInv, WaitingInv
<1>9. InFlightOnce'
  BY <1>4 DEF InFlightOnce, Active
<1>10. WaitingInv'
  BY <1>4, <1>6, <1>8 DEF WaitingInv
<1>11. DrawnInv'
  BY <1>6 DEF DrawnInv
<1> QED
  BY <1>9, <1>10, <1>11 DEF SessionInv

-----------------------------------------------------------------------------
(* The steps that fetch a chunk.                                           *)

\* A chunk, its length and its place.
LEMMA ChunkIs ==
    ASSUME NEW r, NEW S, Body(r) \in Seq(S), NEW m \in 0 .. Len(Body(r))
    PROVE  \E l \in m .. Len(Body(r)) :
             /\ Chunk(r, m) = SubSeq(Body(r), m + 1, l)
             /\ Len(Chunk(r, m)) = l - m
             /\ l = m + ChunkSize \/ l = Len(Body(r))
<1> DEFINE n == Len(Body(r))
           l == Min({m + ChunkSize, n})
<1>1. n \in Nat /\ m \in Nat /\ m <= n /\ ChunkSize \in Nat
  BY LenProperties, PreviewAssumption
<1>2. l \in m .. n /\ (l = m + ChunkSize \/ l = n)
  <2>1. {m + ChunkSize, n} \in SUBSET Nat
    BY <1>1
  <2>2. CASE m + ChunkSize <= n
    <3>1. l = m + ChunkSize
      BY <1>1, <2>1, <2>2, MinIs
    <3> HIDE DEF l
    <3> QED
      BY <1>1, <2>2, <3>1
  <2>3. CASE n <= m + ChunkSize
    <3>1. l = n
      BY <1>1, <2>1, <2>3, MinIs
    <3> HIDE DEF l
    <3> QED
      BY <1>1, <3>1
  <2> HIDE DEF l
  <2> QED
    BY <1>1, <2>2, <2>3
<1>3. Chunk(r, m) = SubSeq(Body(r), m + 1, l)
  BY DEF Chunk
<1> HIDE DEF l
<1>4. Len(SubSeq(Body(r), m + 1, l)) = l - m
  BY <1>2, Part
<1> QED
  BY <1>2, <1>3, <1>4

\* What the page shows once the table holds the rows up to an end.
LEMMA DrawnAt ==
    ASSUME NEW r \in Runs, query' = query, query[r].csv # <<>>, Len(Body(r)) \in Nat,
           NEW l \in 0 .. Len(Body(r)), NEW cut \in LineEnds(Body(r)), cut <= l,
           \A e \in LineEnds(Body(r)) : e <= l => e <= cut,
           data'.csv = r, data'.tbody = r, data'.totalSize = Len(Body(r)),
           data'.bytesLoaded = l, data'.remainder = SubSeq(Body(r), cut + 1, l),
           data'.columns = Row(r, 1), page'.statusBar = BarFor(data'),
           table'[r] = [i \in 1 .. Rank(LineEnds(Body(r)), cut) - 1 |-> Row(r, i + 1)]
    PROVE  DrawnInv'
<1>1. Body(r)' = Body(r) /\ \A i : Row(r, i)' = Row(r, i)
  BY RowsStay
<1>2. LineEnds(Body(r))' = LineEnds(Body(r)) /\ LineEnds(Body(r)) \subseteq DOMAIN Body(r)
  BY <1>1 DEF LineEnds
<1>3. ShowsUpTo(r, cut)'
  BY <1>1, <1>2 DEF ShowsUpTo, Rank, Upto
<1>4. page'.statusBar = "full" => data'.bytesLoaded = data'.totalSize
  BY DEF BarFor
<1>5. TableDrawn(r)'
  BY <1>1, <1>2, <1>3, <1>4 DEF TableDrawn
<1> QED
  BY <1>5 DEF DrawnInv

\* The first chunk is split at the last end of a row that is in it.
LEMMA FirstSplitAt ==
    ASSUME NEW r, NEW S, Body(r) \in Seq(S), Len(Body(r)) \in LineEnds(Body(r)),
           \E e \in LineEnds(Body(r)) : e <= ChunkSize,
           NEW l \in 0 .. Len(Body(r)), l = 0 + ChunkSize \/ l = Len(Body(r))
    PROVE  LET text == SubSeq(Body(r), 0 + 1, l)
               split == FirstSplit(text, l >= Len(Body(r)))
           IN  \E cut \in LineEnds(Body(r)) :
                 /\ cut <= l
                 /\ \A e \in LineEnds(Body(r)) : e <= l => e <= cut
                 /\ split.complete = SubSeq(Body(r), 0 + 1, cut)
                 /\ split.remainder = SubSeq(Body(r), cut + 1, l)
<1> DEFINE B == Body(r)
           E == LineEnds(B)
           text == SubSeq(B, 0 + 1, l)
           all == l >= Len(B)
           break == findSafeBreak(text)
           split == FirstSplit(text, all)
<1>1. /\ Len(B) \in Nat /\ l \in Nat /\ l <= Len(B) /\ ChunkSize \in Nat
      /\ E \in SUBSET (1 .. Len(B)) /\ \A e \in E : e \in Nat /\ 0 < e /\ e <= Len(B)
      /\ 0 \in E \cup {0} /\ 0 \in 0 .. Len(B) /\ l \in 0 .. Len(B)
  BY LineEndsAre, PreviewAssumption
<1>2. /\ break \in 0 .. l - 0
      /\ break # 0 => 0 + break \in E
      /\ \A e \in E : e <= l => e <= 0 + break
  <2> HIDE DEF B
  <2> QED
    BY <1>1, BreakOfPart DEF B
<1>3. Len(text) = l - 0 /\ text \in Seq(S)
  BY <1>1, Part
<1>4. split = IF all \/ break = 0 THEN [complete |-> text, remainder |-> <<>>]
              ELSE [complete |-> SubSeq(text, 1, break),
                    remainder |-> SubSeq(text, break + 1, Len(text))]
  BY DEF FirstSplit
<1> HIDE DEF break, split, E
<1>5. CASE all
  <2>1. l = Len(B) /\ split.complete = text /\ split.remainder = <<>>
    BY <1>1, <1>4, <1>5
  <2>2. SubSeq(B, l + 1, l) = <<>>
    <3>1. l \in l .. Len(B)
      BY <1>1
    <3>2. SubSeq(B, l + 1, l) \in Seq(S) /\ Len(SubSeq(B, l + 1, l)) = l - l
      BY <1>1, <3>1, Part
    <3>3. Len(SubSeq(B, l + 1, l)) = 0
      BY <1>1, <3>2
    <3> QED
      BY <3>2, <3>3, EmptySeq
  <2>3. l \in E
    BY <2>1 DEF E
  <2> QED
    BY <1>1, <2>1, <2>2, <2>3 DEF split, E
<1>6. CASE ~ all
  <2>1. break # 0
    <3>1. PICK e \in E : e <= ChunkSize
      BY DEF E
    <3>2. l = ChunkSize
      BY <1>1, <1>6
    <3>3. e <= 0 + break /\ e \in Nat /\ 0 < e
      BY <1>1, <1>2, <3>1, <3>2
    <3> QED
      BY <3>3
  <2>2. /\ split.complete = SubSeq(text, 1, break)
        /\ split.remainder = SubSeq(text, break + 1, l - 0)
    BY <1>3, <1>4, <1>6, <2>1
  <2>3. break \in Nat /\ break <= l /\ break \in E /\ 0 + break = break /\ l - 0 = l
    BY <1>1, <1>2, <2>1
  <2>4. SubSeq(text, 1, break) = SubSeq(B, 0 + 1, 0 + break)
    <3>1. 1 \in 1 .. l - 0 + 1 /\ break \in 1 - 1 .. l - 0
      BY <1>1, <2>3
    <3> QED
      BY <1>1, <3>1, PartOfPart
  <2>5. SubSeq(text, break + 1, l - 0) = SubSeq(B, 0 + (break + 1), 0 + (l - 0))
    <3>1. break + 1 \in 1 .. l - 0 + 1 /\ l - 0 \in (break + 1) - 1 .. l - 0
      BY <1>1, <2>3
    <3> QED
      BY <1>1, <3>1, PartOfPart
  <2>6. 0 + (break + 1) = break + 1 /\ 0 + (l - 0) = l
    BY <1>1, <2>3
  <2> QED
    BY <1>2, <2>2, <2>3, <2>4, <2>5, <2>6 DEF split, E
<1> QED
  BY <1>5, <1>6

\* The header and the other rows of the first lines.
LEMMA HeaderAndRows ==
    ASSUME NEW r, NEW n \in Nat, n # 0, NEW rows, rows = [k \in 1 .. n |-> Row(r, 0 + k)]
    PROVE  /\ Head(rows) = Row(r, 1)
           /\ Tail(rows) = [i \in 1 .. n - 1 |-> Row(r, i + 1)]
<1> DEFINE S == {Row(r, k) : k \in 1 .. n}
<1>1. \A k \in 1 .. n : Row(r, 0 + k) \in S /\ rows[k] = Row(r, k)
  <2> SUFFICES ASSUME NEW k \in 1 .. n PROVE Row(r, 0 + k) \in S /\ rows[k] = Row(r, k)
    OBVIOUS
  <2>1. 0 + k = k
    OBVIOUS
  <2>2. rows[k] = Row(r, 0 + k)
    OBVIOUS
  <2> QED
    BY <2>1, <2>2
<1> HIDE DEF S
<1>2. rows \in Seq(S) /\ Len(rows) = n
  <2>1. rows \in Seq(S)
    BY <1>1
  <2> QED
    BY <2>1, LenProperties
<1>3. /\ Head(rows) = rows[1]
      /\ Tail(rows) \in Seq(S) /\ Len(Tail(rows)) = n - 1
      /\ \A i \in 1 .. n - 1 : Tail(rows)[i] = rows[i + 1]
  <2>1. rows # <<>>
    BY <1>2, EmptySeq
  <2>2. /\ Tail(rows) \in Seq(S) /\ Len(Tail(rows)) = Len(rows) - 1
        /\ \A i \in 1 .. Len(Tail(rows)) : Tail(rows)[i] = rows[i + 1]
    BY <1>2, <2>1, HeadTailProperties
  <2>3. Head(rows) = rows[1]
    BY <1>2
  <2> QED
    BY <1>2, <2>2, <2>3
<1>4. \A i \in 1 .. n - 1 : Tail(rows)[i] = Row(r, i + 1)
  <2> SUFFICES ASSUME NEW i \in 1 .. n - 1 PROVE Tail(rows)[i] = Row(r, i + 1)
    OBVIOUS
  <2>1. i + 1 \in 1 .. n
    OBVIOUS
  <2> QED
    BY <1>1, <1>3, <2>1
<1>5. Tail(rows) = [i \in 1 .. n - 1 |-> Tail(rows)[i]]
  BY <1>3, LenProperties
<1>6. Tail(rows) = [i \in 1 .. n - 1 |-> Row(r, i + 1)]
  BY <1>4, <1>5
<1>7. 1 \in 1 .. n
  OBVIOUS
<1> QED
  BY <1>1, <1>3, <1>6, <1>7

LEMMA FirstChunkSession ==
    ASSUME RunsInv, QueriesInv, DataInv, PageInv, SessionInv, NEW r \in Runs, FirstChunk(r)
    PROVE  SessionInv'
<1> DEFINE B == Body(r)
           E == LineEnds(B)
<1>1. /\ run[r].pc = "fetching" /\ B # <<>> /\ query' = query
      /\ run' = [run EXCEPT ![r].pc = "done"] /\ load' = load
  BY DEF FirstChunk
<1>2. /\ \A s \in Runs : s # r => ~ Active(s)
      /\ \A l \in Loads : ~ Loading(l)
      /\ data = [Cleared EXCEPT !.csv = r] /\ r # NoQuery
  BY <1>1, Alone, PreviewAssumption DEF SessionInv, WaitingInv, Active
<1>3. query[r].csv # <<>>
  <2> SUFFICES ASSUME query[r].csv = <<>> PROVE B = <<>>
    BY <1>1
  <2>1. DOMAIN query[r].csv = {}
    OBVIOUS
  <2> QED
    BY <2>1 DEF Body, Text
<1>4. /\ B \in Seq(Units(r)) /\ Len(B) \in Nat /\ EndsOfRows(E, Len(B))
      /\ Len(B) \in E /\ \E e \in E : e <= ChunkSize
  BY <1>3, BodyHasRows
<1> HIDE DEF E
<1>5. PICK l \in 0 .. Len(B) :
             /\ Chunk(r, 0) = SubSeq(B, 0 + 1, l) /\ Len(Chunk(r, 0)) = l - 0
             /\ l = 0 + ChunkSize \/ l = Len(B)
  <2>1. 0 \in 0 .. Len(B)
    BY <1>4
  <2> QED
    BY <1>4, <2>1, ChunkIs
<1> DEFINE text == SubSeq(B, 0 + 1, l)
           split == FirstSplit(text, l >= Len(B))
           rows == splitCsvLines(split.complete)
<1>6. l - 0 = l
  BY <1>4, <1>5
<1>7. /\ data' = [data EXCEPT !.totalSize = Len(B), !.bytesLoaded = l,
                    !.remainder = split.remainder, !.columns = Head(rows),
                    !.allRows = Tail(rows), !.tbody = r]
      /\ table' = [table EXCEPT ![r] = Tail(rows)]
      /\ page' = [page EXCEPT !.results = "tables", !.tables = @ \cup {r},
                              !.statusBar = BarFor(data')]
  BY <1>5, <1>6 DEF FirstChunk
<1>8. PICK cut \in E :
             /\ cut <= l
             /\ \A e \in E : e <= l => e <= cut
             /\ split.complete = SubSeq(B, 0 + 1, cut)
             /\ split.remainder = SubSeq(B, cut + 1, l)
  BY <1>4, <1>5, FirstSplitAt DEF E
<1>9. /\ Rank(E, cut) \in Nat /\ Rank(E, cut) # 0
      /\ rows = [k \in 1 .. Rank(E, cut) |-> Row(r, 0 + k)]
  <2>1. /\ cut \in Nat /\ 0 < cut /\ Rank(E, 0) = 0
    BY <1>4, EndsAreNumbers
  <2>2. /\ Rank(E, cut) \in Nat /\ Rank(E, 0) < Rank(E, cut)
        /\ splitCsvLines(SubSeq(B, 0 + 1, cut)) =
             [k \in 1 .. Rank(E, cut) - Rank(E, 0) |-> Row(r, Rank(E, 0) + k)]
    BY <1>3, <2>1, LinesAreRows DEF E
  <2> HIDE DEF B, split
  <2>3. Rank(E, cut) - Rank(E, 0) = Rank(E, cut) /\ Rank(E, cut) # 0
    BY <2>1, <2>2
  <2>4. splitCsvLines(SubSeq(B, 0 + 1, cut)) = [k \in 1 .. Rank(E, cut) |-> Row(r, 0 + k)]
    BY <2>1, <2>2, <2>3, Zenon
  <2>5. rows = splitCsvLines(SubSeq(B, 0 + 1, cut))
    BY <1>8, Zenon
  <2> QED
    BY <2>2, <2>3, <2>4, <2>5, Zenon
<1> HIDE DEF rows, split
<1>10. /\ Head(rows) = Row(r, 1)
       /\ Tail(rows) = [i \in 1 .. Rank(E, cut) - 1 |-> Row(r, i + 1)]
  BY <1>9, HeaderAndRows
<1>11. /\ data'.csv = r /\ data'.tbody = r /\ data'.totalSize = Len(B)
       /\ data'.bytesLoaded = l /\ data'.remainder = SubSeq(B, cut + 1, l)
       /\ data'.columns = Row(r, 1)
  BY <1>2, <1>7, <1>8, <1>10 DEF Cleared
<1>12. table'[r] = [i \in 1 .. Rank(E, cut) - 1 |-> Row(r, i + 1)]
  BY <1>7, <1>10 DEF DataInv
<1>13. page'.statusBar = BarFor(data')
  BY <1>7 DEF PageInv
<1>14. DrawnInv'
  BY <1>1, <1>3, <1>4, <1>5, <1>8, <1>11, <1>12, <1>13, DrawnAt DEF E
<1>15. /\ \A s \in Runs : ~ Active(s)' /\ ~ InPhase1(s)' /\ run'[s].pc # "fetching"
       /\ \A m \in Loads : ~ Loading(m)'
  BY <1>1, <1>2 DEF RunsInv, Active, InPhase1, Loading
<1>16. InFlightOnce' /\ WaitingInv'
  BY <1>2, <1>11, <1>15 DEF InFlightOnce, WaitingInv
<1> QED
  BY <1>14, <1>16 DEF SessionInv

\* A load that begins alone, and one that fails.
LEMMA LoadMoreSession ==
    ASSUME LoadsInv, DataInv, PageInv, SessionInv, NEW l \in Loads, LoadMore(l), ~overlapped'
    PROVE  SessionInv'
<1>1. /\ run' = run /\ query' = query /\ data' = data /\ table' = table
      /\ \A r \in Runs : ~ Active(r)
      /\ \A k \in Loads : ~ Loading(k)
      /\ page.statusBar = "more"
      /\ load' = [load EXCEPT ![l] = [pc |-> "fetching", csv |-> data.csv,
                                      start |-> data.bytesLoaded]]
      /\ page' = [page EXCEPT !.statusBar = "loading"]
  BY DEF LoadMore, Busy
<1>2. data.tbody # NoQuery /\ page'.statusBar = "loading"
  BY <1>1 DEF SessionInv, WaitingInv, PageInv
<1>3. /\ \A r \in Runs : ~ Active(r)' /\ ~ InPhase1(r)' /\ run'[r].pc # "fetching"
      /\ \A k \in Loads : Loading(k)' => k = l
  BY <1>1 DEF LoadsInv, Active, InPhase1, Loading
<1>4. load'[l].csv = data'.csv /\ load'[l].start = data'.bytesLoaded
  BY <1>1 DEF LoadsInv
<1>5. DrawnInv'
  BY <1>1, <1>2, DrawnStays DEF SessionInv
<1>6. InFlightOnce'
  BY <1>3 DEF InFlightOnce
<1>7. WaitingInv'
  BY <1>1, <1>2, <1>3, <1>4 DEF WaitingInv
<1> QED
  BY <1>5, <1>6, <1>7 DEF SessionInv

LEMMA LoadFailsSession ==
    ASSUME LoadsInv, PageInv, SessionInv, NEW l \in Loads, LoadFails(l)
    PROVE  SessionInv'
<1>1. /\ run' = run /\ query' = query /\ data' = data /\ table' = table
      /\ Loading(l) /\ load' = [load EXCEPT ![l].pc = "done"]
      /\ page' = [page EXCEPT !.statusBar = "error"]
  BY DEF LoadFails, LoadDone
<1>2. /\ \A r \in Runs : ~ Active(r)
      /\ \A k \in Loads : Loading(k) => k = l
      /\ data.tbody # NoQuery /\ page'.statusBar = "error"
  BY <1>1 DEF SessionInv, InFlightOnce, WaitingInv, PageInv
<1>3. /\ \A r \in Runs : ~ Active(r)' /\ ~ InPhase1(r)' /\ run'[r].pc # "fetching"
      /\ \A k \in Loads : ~ Loading(k)'
  BY <1>1, <1>2 DEF LoadsInv, Active, InPhase1, Loading
<1>4. DrawnInv'
  BY <1>1, <1>2, DrawnStays DEF SessionInv
<1>5. InFlightOnce' /\ WaitingInv'
  BY <1>1, <1>2, <1>3 DEF InFlightOnce, WaitingInv
<1> QED
  BY <1>4, <1>5 DEF SessionInv

\* Rows put after rows.
LEMMA RowsAfterRows ==
    ASSUME NEW r, NEW m \in Nat, NEW n \in Nat, 0 < m, m <= n
    PROVE  [i \in 1 .. m - 1 |-> Row(r, i + 1)] \o [k \in 1 .. n - m |-> Row(r, m + k)]
             = [i \in 1 .. n - 1 |-> Row(r, i + 1)]
<1> DEFINE S == {Row(r, k) : k \in Nat}
           old == [i \in 1 .. m - 1 |-> Row(r, i + 1)]
           more == [k \in 1 .. n - m |-> Row(r, m + k)]
           all == [i \in 1 .. n - 1 |-> Row(r, i + 1)]
<1>1. m - 1 \in Nat /\ n - m \in Nat /\ n - 1 \in Nat /\ (m - 1) + (n - m) = n - 1
  OBVIOUS
<1>2. \A k \in Nat : Row(r, k) \in S
  OBVIOUS
<1>3. /\ \A i \in 1 .. m - 1 : Row(r, i + 1) \in S
      /\ \A k \in 1 .. n - m : Row(r, m + k) \in S
      /\ \A i \in 1 .. n - 1 : Row(r, i + 1) \in S
  <2>1. /\ \A i \in 1 .. m - 1 : i + 1 \in Nat
        /\ \A k \in 1 .. n - m : m + k \in Nat
        /\ \A i \in 1 .. n - 1 : i + 1 \in Nat
    OBVIOUS
  <2> HIDE DEF S
  <2> QED
    BY <1>2, <2>1
<1> HIDE DEF S
<1>4. old \in Seq(S) /\ more \in Seq(S) /\ all \in Seq(S)
  BY <1>1, <1>3
<1>5. Len(old) = m - 1 /\ Len(more) = n - m /\ Len(all) = n - 1
  BY <1>1, <1>4, LenProperties
<1>6. /\ old \o more \in Seq(S) /\ Len(old \o more) = n - 1
      /\ \A i \in 1 .. n - 1 :
           (old \o more)[i] = IF i <= m - 1 THEN old[i] ELSE more[i - (m - 1)]
  <2>1. /\ old \o more \in Seq(S) /\ Len(old \o more) = Len(old) + Len(more)
        /\ \A i \in 1 .. Len(old) + Len(more) :
             (old \o more)[i] = IF i <= Len(old) THEN old[i] ELSE more[i - Len(old)]
    BY <1>4, ConcatProperties
  <2> QED
    BY <1>1, <1>5, <2>1
<1>7. ASSUME NEW i \in 1 .. n - 1 PROVE (old \o more)[i] = all[i]
  <2>1. CASE i <= m - 1
    <3>1. i \in 1 .. m - 1
      BY <2>1
    <3> QED
      BY <1>6, <2>1, <3>1
  <2>2. CASE ~ (i <= m - 1)
    <3>1. i - (m - 1) \in 1 .. n - m /\ m + (i - (m - 1)) = i + 1
      BY <2>2
    <3>2. more[i - (m - 1)] = Row(r, i + 1)
      BY <3>1
    <3> QED
      BY <1>6, <2>2, <3>2
  <2> QED
    BY <2>1, <2>2
<1>8. old \o more = all
  BY <1>4, <1>5, <1>6, <1>7, SeqEqual
<1> QED
  BY <1>8

\* The same, for all parts at once.
LEMMA PartsOfPart ==
    \A S : \A s \in Seq(S) : \A c \in 0 .. Len(s) : \A b \in c .. Len(s) :
      \A from \in 1 .. b - c + 1 : \A to \in from - 1 .. b - c :
        SubSeq(SubSeq(s, c + 1, b), from, to) = SubSeq(s, c + from, c + to)
BY PartOfPart

\* A chunk put after what was loaded: the rows it completes go to the table.
LEMMA LoadAnswersSession ==
    ASSUME LoadsInv, QueriesInv, DataInv, PageInv, SessionInv,
           NEW l \in Loads, LoadAnswers(l)
    PROVE  SessionInv'
<1> DEFINE r == data.tbody
           B == Body(r)
           E == LineEnds(B)
           m == data.bytesLoaded
<1>1. /\ Loading(l) /\ run' = run /\ query' = query
      /\ load' = [load EXCEPT ![l].pc = "done"]
  BY DEF LoadAnswers, LoadDone
<1>2. /\ \A s \in Runs : ~ Active(s)
      /\ \A k \in Loads : Loading(k) => k = l
      /\ load[l].csv = data.csv /\ load[l].start = m /\ r # NoQuery /\ r \in Runs
  BY <1>1 DEF SessionInv, InFlightOnce, WaitingInv, DataInv
<1>3. TableDrawn(r)
  BY <1>2 DEF SessionInv, DrawnInv
<1>4. /\ data.csv = r /\ query[r].csv # <<>>
      /\ data.totalSize = Len(B) /\ m \in 0 .. Len(B)
  BY <1>3 DEF TableDrawn
<1>5. PICK cut \in DOMAIN B : ShowsUpTo(r, cut)
  BY <1>3 DEF TableDrawn
<1>6. /\ B \in Seq(Units(r)) /\ Len(B) \in Nat /\ EndsOfRows(E, Len(B))
  BY <1>2, <1>4, BodyHasRows
<1>7. /\ cut \in E /\ cut <= m
      /\ \A e \in E : e <= m => e <= cut
      /\ data.remainder = SubSeq(B, cut + 1, m)
      /\ data.columns = Row(r, 1)
      /\ table[r] = [i \in 1 .. Rank(E, cut) - 1 |-> Row(r, i + 1)]
  BY <1>5 DEF ShowsUpTo, Rank, Upto
<1> HIDE DEF E, B, m, r
<1>8. PICK to \in m .. Len(B) :
             /\ Chunk(r, m) = SubSeq(B, m + 1, to) /\ Len(Chunk(r, m)) = to - m
  BY <1>4, <1>6, ChunkIs DEF B
<1>9. /\ cut \in Nat /\ m \in Nat /\ to \in Nat /\ cut <= m /\ m <= to /\ to <= Len(B)
      /\ cut \in 0 .. Len(B) /\ m \in cut .. Len(B) /\ to \in cut .. Len(B)
      /\ to \in 0 .. Len(B) /\ m + (to - m) = to
  BY <1>4, <1>6, <1>7, <1>8, EndsAreNumbers
<1>10. /\ B \in Seq(Units(r)) /\ cut \in 0 .. Len(B) /\ to \in cut .. Len(B)
  BY <1>6, <1>9
<1> DEFINE text == SubSeq(B, cut + 1, to)
           break == findSafeBreak(text)
<1>11. data.remainder \o Chunk(r, m) = text
  BY <1>6, <1>7, <1>8, <1>9, PartsMeet
<1>12. /\ break \in 0 .. to - cut
       /\ break # 0 => cut + break \in E
       /\ \A e \in E : e <= to => e <= cut + break
  <2>1. cut \in LineEnds(B) \cup {0} /\ E = LineEnds(B)
    BY <1>7 DEF E
  <2> QED
    BY <1>6, <1>9, <2>1, BreakOfPart
<1>13. text \in Seq(Units(r)) /\ Len(text) = to - cut
  BY <1>6, <1>9, Part
<1>14. \A from \in 1 .. to - cut + 1 : \A last \in from - 1 .. to - cut :
         SubSeq(text, from, last) = SubSeq(B, cut + from, cut + last)
  <2>1. \A c \in 0 .. Len(B) : \A b \in c .. Len(B) :
          \A from \in 1 .. b - c + 1 : \A last \in from - 1 .. b - c :
            SubSeq(SubSeq(B, c + 1, b), from, last) = SubSeq(B, c + from, c + last)
    BY <1>10, PartsOfPart
  <2> HIDE DEF break
  <2> QED
    BY <1>10, <2>1
<1> HIDE DEF text, break
<1>15. /\ data' = Absorb(text, to - m)
       /\ table' = [table EXCEPT ![r] = @ \o NewRows(text)]
       /\ page' = [page EXCEPT !.statusBar = BarFor(data')]
  BY <1>2, <1>4, <1>8, <1>11 DEF LoadAnswers, r
<1>16. Absorb(text, to - m) =
         IF break = 0
         THEN [data EXCEPT !.remainder = text, !.bytesLoaded = to]
         ELSE [data EXCEPT !.remainder = SubSeq(text, break + 1, to - cut),
                 !.bytesLoaded = Min({to, Len(B)}),
                 !.allRows = @ \o splitCsvLines(SubSeq(text, 1, break))]
  BY <1>4, <1>9, <1>13 DEF Absorb, break, m
<1>17. /\ data'.tbody = r /\ data'.csv = r /\ data'.totalSize = Len(B)
       /\ data'.columns = Row(r, 1)
       /\ page'.statusBar = BarFor(data')
       /\ table'[r] = table[r] \o NewRows(text)
  BY <1>2, <1>4, <1>7, <1>15, <1>16 DEF DataInv, PageInv, r
<1>18. \E end \in E :
         /\ end <= to /\ \A e \in E : e <= to => e <= end
         /\ data'.bytesLoaded = to /\ data'.remainder = SubSeq(B, end + 1, to)
         /\ table'[r] = [i \in 1 .. Rank(E, end) - 1 |-> Row(r, i + 1)]
  <2>1. CASE break = 0
    <3>1. data'.bytesLoaded = to /\ data'.remainder = text
      BY <1>15, <1>16, <2>1 DEF DataInv
    <3>2. \A e \in E : e <= to => e <= cut
      BY <1>9, <1>12, <2>1
    <3>3. NewRows(text) = <<>>
      <4> DEFINE none == SubSeq(text, 0 + 1, 0)
      <4>1. 0 \in 0 .. Len(text) /\ 0 \in 0 .. Len(text)
        BY <1>9, <1>13
      <4>2. Len(none) = 0 - 0 /\ DOMAIN none = 1 .. 0 - 0
        BY <1>13, <4>1, Part
      <4>3. NewRows(text) = splitCsvLines(SubSeq(text, 1, 0))
        BY <2>1 DEF NewRows, break
      <4>4. Len(none) = 0 /\ DOMAIN none = {} /\ none = SubSeq(text, 1, 0)
        BY <4>2
      <4> HIDE DEF none
      <4> QED
        BY <4>3, <4>4, NoLines
    <3>4. table'[r] = table[r]
      <4>1. Rank(E, cut) \in Nat
        BY <1>6, <1>9, EndsAreNumbers
      <4>2. \A i \in 1 .. Rank(E, cut) - 1 : Row(r, i + 1) \in {Row(r, k) : k \in Nat}
        BY <4>1
      <4>3. table[r] \in Seq({Row(r, k) : k \in Nat})
        <5> DEFINE S == {Row(r, k) : k \in Nat}
        <5> HIDE DEF S
        <5>1. \A i \in 1 .. Rank(E, cut) - 1 : Row(r, i + 1) \in S
          BY <4>2 DEF S
        <5>2. [i \in 1 .. Rank(E, cut) - 1 |-> Row(r, i + 1)] \in Seq(S)
          BY <4>1, <5>1
        <5> QED
          BY <1>7, <5>2 DEF S
      <4> QED
        BY <1>17, <3>3, <4>3, ConcatEmptySeq
    <3>5. cut <= to
      BY <1>9
    <3> QED
      BY <1>7, <3>1, <3>2, <3>4, <3>5 DEF text
  <2>2. CASE break # 0
    <3> DEFINE cut2 == cut + break
    <3>1. /\ break \in Nat /\ cut2 \in E /\ cut2 <= to /\ cut < cut2 /\ 1 <= break
          /\ break <= to - cut
      BY <1>9, <1>12, <2>2
    <3>2. \A e \in E : e <= to => e <= cut2
      BY <1>12
    <3>3. data'.bytesLoaded = to
      <4>1. Min({to, Len(B)}) = to
        <5>1. {to, Len(B)} \in SUBSET Nat /\ \A y \in {to, Len(B)} : to <= y
          BY <1>6, <1>9
        <5> QED
          BY <5>1, MinIs
      <4> QED
        BY <1>15, <1>16, <2>2, <4>1 DEF DataInv
    <3>4. data'.remainder = SubSeq(B, cut2 + 1, to)
      <4>1. break + 1 \in 1 .. to - cut + 1 /\ to - cut \in (break + 1) - 1 .. to - cut
        BY <1>9, <3>1
      <4>2. SubSeq(text, break + 1, to - cut) = SubSeq(B, cut + (break + 1), cut + (to - cut))
        BY <1>14, <4>1
      <4>3. cut + (break + 1) = cut2 + 1 /\ cut + (to - cut) = to
        BY <1>9, <3>1
      <4>4. data'.remainder = SubSeq(text, break + 1, to - cut)
        BY <1>15, <1>16, <2>2 DEF DataInv
      <4> QED
        BY <4>2, <4>3, <4>4
    <3>5. SubSeq(text, 1, break) = SubSeq(B, cut + 1, cut2)
      <4>1. 1 \in 1 .. to - cut + 1 /\ break \in 1 - 1 .. to - cut
        BY <1>9, <3>1
      <4> QED
        BY <1>14, <4>1
    <3>6. /\ Rank(E, cut) \in Nat /\ Rank(E, cut2) \in Nat /\ Rank(E, cut) < Rank(E, cut2)
          /\ NewRows(text) = [k \in 1 .. Rank(E, cut2) - Rank(E, cut) |-> Row(r, Rank(E, cut) + k)]
      <4>1. cut \in LineEnds(Body(r)) \cup {0} /\ cut2 \in LineEnds(Body(r))
        BY <1>7, <3>1 DEF E, B
      <4>2. NewRows(text) = splitCsvLines(SubSeq(Body(r), cut + 1, cut2))
        BY <3>5 DEF NewRows, break, B
      <4> HIDE DEF cut2
      <4> QED
        BY <1>2, <1>4, <3>1, <4>1, <4>2, LinesAreRows DEF E, B
    <3>7. 0 < Rank(E, cut)
      <4>1. 0 < cut /\ Rank(E, 0) = 0
        BY <1>6, <1>7, EndsAreNumbers
      <4>2. Rank(E, 0) < Rank(E, cut)
        BY <1>6, <1>7, <4>1, RankOrders
      <4> QED
        BY <4>1, <4>2
    <3>8. table'[r] = [i \in 1 .. Rank(E, cut2) - 1 |-> Row(r, i + 1)]
      <4>1. table[r] \o NewRows(text) = [i \in 1 .. Rank(E, cut2) - 1 |-> Row(r, i + 1)]
        <5> HIDE DEF cut2
        <5> DEFINE before == Rank(E, cut)
                   now == Rank(E, cut2)
        <5>1. before \in Nat /\ now \in Nat /\ 0 < before /\ before <= now
          BY <3>6, <3>7
        <5> HIDE DEF before, now
        <5>2. [i \in 1 .. before - 1 |-> Row(r, i + 1)]
                \o [k \in 1 .. now - before |-> Row(r, before + k)]
                = [i \in 1 .. now - 1 |-> Row(r, i + 1)]
          BY <5>1, RowsAfterRows
        <5> USE DEF before, now
        <5> QED
          BY <1>7, <3>6, <5>2, Zenon
      <4> QED
        BY <1>17, <4>1
    <3> HIDE DEF cut2
    <3> QED
      BY <3>1, <3>2, <3>3, <3>4, <3>8
  <2> QED
    BY <2>1, <2>2
<1>19. DrawnInv'
  <2>1. PICK end \in E :
         /\ end <= to /\ \A e \in E : e <= to => e <= end
         /\ data'.bytesLoaded = to /\ data'.remainder = SubSeq(B, end + 1, to)
         /\ table'[r] = [i \in 1 .. Rank(E, end) - 1 |-> Row(r, i + 1)]
    BY <1>18
  <2> QED
    BY <1>1, <1>2, <1>4, <1>6, <1>9, <1>17, <2>1, DrawnAt, Zenon DEF B, E
<1>20. /\ \A s \in Runs : ~ Active(s)' /\ ~ InPhase1(s)' /\ run'[s].pc # "fetching"
       /\ \A k \in Loads : ~ Loading(k)'
  BY <1>1, <1>2 DEF LoadsInv, Active, InPhase1, Loading
<1>21. InFlightOnce' /\ WaitingInv'
  BY <1>2, <1>17, <1>20 DEF InFlightOnce, WaitingInv
<1> QED
  BY <1>19, <1>21 DEF SessionInv

-----------------------------------------------------------------------------
(* The query session.                                                      *)

LEMMA FreshPreview ==
    ASSUME run = [r \in Runs |-> [pc |-> "idle", polls |-> 0]],
           query = [r \in Runs |-> [state |-> "none", csv |-> <<>>]],
           load = [l \in Loads |-> [pc |-> "idle", csv |-> NoQuery, start |-> 0]],
           page = [runBtn |-> TRUE, results |-> "empty", tables |-> {}, statusBar |-> "empty"],
           data = Cleared, table = [r \in Runs |-> <<>>], overlapped = FALSE
    PROVE  PreviewInv
<1>1. RunsInv
  BY PreviewAssumption DEF RunsInv
<1>2. QueriesInv
  BY DEF QueriesInv
<1>3. LoadsInv
  BY DEF LoadsInv
<1>4. PageInv
  BY DEF PageInv
<1>5. DataInv
  BY DEF DataInv, Cleared
<1>6. SessionInv
  BY FreshSession
<1> QED
  BY <1>1, <1>2, <1>3, <1>4, <1>5, <1>6 DEF PreviewInv

LEMMA ResetPreview == ASSUME Reset PROVE PreviewInv'
<1> USE DEF Reset
<1>1. RunsInv'
  BY PreviewAssumption DEF RunsInv
<1>2. QueriesInv'
  BY DEF QueriesInv
<1>3. LoadsInv'
  BY DEF LoadsInv
<1>4. PageInv'
  BY DEF PageInv
<1>5. DataInv'
  BY DEF DataInv, Cleared
<1>6. SessionInv'
  <2>1. /\ \A r \in Runs : ~ Active(r)' /\ ~ InPhase1(r)' /\ run'[r].pc # "fetching"
        /\ \A l \in Loads : ~ Loading(l)'
    BY DEF Active, InPhase1, Loading
  <2> QED
    BY <2>1, ClearedBlank DEF SessionInv, InFlightOnce, WaitingInv, DrawnInv
<1> QED
  BY <1>1, <1>2, <1>3, <1>4, <1>5, <1>6 DEF PreviewInv

LEMMA PreviewStutters == ASSUME PreviewInv, UNCHANGED previewVars PROVE PreviewInv'
<1>1. UNCHANGED <<run, query, load, page, data, table, overlapped>>
  BY DEF previewVars
<1>2. RunsInv' /\ QueriesInv' /\ LoadsInv' /\ PageInv' /\ DataInv'
  BY <1>1 DEF PreviewInv, RunsInv, QueriesInv, LoadsInv, PageInv, DataInv
<1>3. SessionInv => SessionInv'
  <2> SUFFICES ASSUME SessionInv PROVE SessionInv'
    OBVIOUS
  <2>1. InFlightOnce' /\ WaitingInv'
    BY <1>1 DEF SessionInv, InFlightOnce, WaitingInv, Active, InPhase1, Loading
  <2>2. DrawnInv'
    BY <1>1, DrawnStays DEF SessionInv
  <2> QED
    BY <2>1, <2>2 DEF SessionInv
<1> QED
  BY <1>1, <1>2, <1>3 DEF PreviewInv

\* A step of one run; each part of the state moves within its type.
LEMMA RunsMove ==
    ASSUME PreviewInv, NEW r \in Runs,
           \/ run' = run
           \/ \E pc \in {"starting", "polling", "fetching", "done"} :
                /\ run' = [run EXCEPT ![r].pc = pc]
                /\ pc = "starting" => run[r].pc = "idle"
                /\ pc = "polling" => \/ run[r].pc = "starting"
                                     \/ run[r].pc = "sleeping" /\ run[r].polls < MaxPolls
           \/ /\ run[r].pc = "polling"
              /\ run' = [run EXCEPT ![r] = [pc |-> "sleeping", polls |-> @.polls + 1]]
    PROVE  RunsInv'
<1>1. /\ DOMAIN run = Runs /\ MaxPolls \in Nat
      /\ run[r].polls \in 0 .. MaxPolls + 1
      /\ run[r].pc \in {"idle", "starting"} => run[r].polls = 0
      /\ run[r].pc = "polling" => run[r].polls <= MaxPolls
  BY PreviewAssumption DEF PreviewInv, RunsInv
<1>2. CASE run' = run
  BY <1>2 DEF PreviewInv, RunsInv
<1>3. ASSUME NEW pc \in {"starting", "polling", "fetching", "done"},
             run' = [run EXCEPT ![r].pc = pc],
             pc = "starting" => run[r].pc = "idle",
             pc = "polling" => \/ run[r].pc = "starting"
                               \/ run[r].pc = "sleeping" /\ run[r].polls < MaxPolls
      PROVE  RunsInv'
  <2>1. /\ pc = "starting" => run[r].polls = 0
        /\ pc = "polling" => run[r].polls <= MaxPolls
    BY <1>1, <1>3
  <2> QED
    BY <1>1, <1>3, <2>1 DEF PreviewInv, RunsInv
<1>4. ASSUME run[r].pc = "polling",
             run' = [run EXCEPT ![r] = [pc |-> "sleeping", polls |-> @.polls + 1]]
      PROVE  RunsInv'
  <2>1. run[r].polls + 1 \in 0 .. MaxPolls + 1
    BY <1>1, <1>4
  <2> QED
    BY <1>1, <1>4, <2>1 DEF PreviewInv, RunsInv
<1> QED
  BY <1>2, <1>3, <1>4

LEMMA RunQueryPreview ==
    ASSUME PreviewInv, NEW r \in Runs, RunQuery(r)
    PROVE  PreviewInv'
<1>1. RunsInv'
  BY RunsMove DEF RunQuery
<1>2. QueriesInv' /\ LoadsInv'
  BY DEF PreviewInv, QueriesInv, LoadsInv, RunQuery
<1>3. PageInv'
  BY DEF PageInv, RunQuery
<1>4. DataInv'
  BY DEF PreviewInv, DataInv, Cleared, RunQuery
<1>5. overlapped' \in BOOLEAN
  BY DEF RunQuery
<1>6. ~overlapped' => SessionInv'
  BY RunQuerySession DEF PreviewInv
<1> QED
  BY <1>1, <1>2, <1>3, <1>4, <1>5, <1>6 DEF PreviewInv

LEMMA EndPreview ==
    ASSUME PreviewInv, NEW r \in Runs,
           RequestFails(r) \/ PollSaysFailed(r) \/ TimesOut(r) \/ FirstChunkFails(r)
    PROVE  PreviewInv'
<1> USE DEF RequestFails, PollSaysFailed, TimesOut
<1>1. RunsInv'
  BY RunsMove DEF EndsInError, FirstChunkFails
<1>2. QueriesInv' /\ LoadsInv' /\ DataInv' /\ overlapped' \in BOOLEAN
  BY DEF PreviewInv, QueriesInv, LoadsInv, DataInv, EndsInError, FirstChunkFails
<1>3. PageInv'
  BY DEF PreviewInv, PageInv, EndsInError, FirstChunkFails, ShowMessage
<1>4. ~overlapped' => SessionInv'
  <2>1. overlapped' = overlapped
    BY DEF EndsInError, FirstChunkFails
  <2> QED
    BY <2>1, RunStepSession DEF PreviewInv
<1> QED
  BY <1>1, <1>2, <1>3, <1>4 DEF PreviewInv

LEMMA PollPreview ==
    ASSUME PreviewInv, NEW r \in Runs,
           QueryStarts(r) \/ PollAgain(r) \/ Wake(r) \/ AthenaMoves(r)
    PROVE  PreviewInv'
<1>1. RunsInv'
  BY RunsMove DEF QueryStarts, PollAgain, Wake, AthenaMoves
<1>2. QueriesInv'
  BY DEF PreviewInv, QueriesInv, QueryStarts, PollAgain, Wake, AthenaMoves
<1>3. UNCHANGED <<load, page, data, table, overlapped>>
  BY DEF QueryStarts, PollAgain, Wake, AthenaMoves
<1>4. ~overlapped' => SessionInv'
  BY <1>3, RunStepSession, AthenaSession DEF PreviewInv
<1> QED
  BY <1>1, <1>2, <1>3, <1>4 DEF PreviewInv, LoadsInv, PageInv, DataInv

LEMMA SucceededPreview ==
    ASSUME PreviewInv, NEW r \in Runs, PollSaysSucceeded(r)
    PROVE  PreviewInv'
<1>1. RunsInv'
  BY RunsMove DEF PollSaysSucceeded
<1>2. QueriesInv' /\ LoadsInv' /\ overlapped' \in BOOLEAN
  BY DEF PreviewInv, QueriesInv, LoadsInv, PollSaysSucceeded
<1>3. PageInv' /\ DataInv'
  BY DEF PreviewInv, PageInv, DataInv, PollSaysSucceeded
<1>4. ~overlapped' => SessionInv'
  BY SucceededSession DEF PreviewInv, PollSaysSucceeded
<1> QED
  BY <1>1, <1>2, <1>3, <1>4 DEF PreviewInv

LEMMA ChunkPreview ==
    ASSUME PreviewInv, NEW r \in Runs, FirstChunk(r)
    PROVE  PreviewInv'
<1>1. RunsInv'
  BY RunsMove DEF FirstChunk
<1>2. QueriesInv' /\ LoadsInv' /\ overlapped' \in BOOLEAN
  BY DEF PreviewInv, QueriesInv, LoadsInv, FirstChunk
<1> DEFINE text == Chunk(r, 0)
           size == Len(Body(r))
           split == FirstSplit(text, Len(text) >= size)
           rows == splitCsvLines(split.complete)
<1>3. /\ data' = [data EXCEPT !.totalSize = size, !.bytesLoaded = Len(text),
                    !.remainder = split.remainder, !.columns = Head(rows),
                    !.allRows = Tail(rows), !.tbody = r]
      /\ table' = [table EXCEPT ![r] = Tail(rows)]
      /\ page' = [page EXCEPT !.results = "tables", !.tables = @ \cup {r},
                              !.statusBar = BarFor(data')]
  BY DEF FirstChunk
<1> HIDE DEF text, size, split, rows
<1>4. DataInv'
  BY <1>3 DEF PreviewInv, DataInv
<1>5. BarFor(data') \in {"more", "full"}
  BY DEF BarFor
<1>6. PageInv'
  BY <1>3, <1>5 DEF PreviewInv, PageInv
<1>7. ~overlapped' => SessionInv'
  BY FirstChunkSession DEF PreviewInv, FirstChunk
<1> QED
  BY <1>1, <1>2, <1>4, <1>6, <1>7 DEF PreviewInv

LEMMA LoadPreview ==
    ASSUME PreviewInv, NEW l \in Loads, LoadMore(l) \/ LoadAnswers(l) \/ LoadFails(l)
    PROVE  PreviewInv'
<1>1. RunsInv' /\ QueriesInv'
  BY DEF PreviewInv, RunsInv, QueriesInv, LoadMore, LoadAnswers, LoadFails
<1>2. LoadsInv'
  <2>1. CASE load' = [load EXCEPT ![l].pc = "done"]
    BY <2>1 DEF PreviewInv, LoadsInv
  <2>2. CASE LoadMore(l)
    BY <2>2 DEF PreviewInv, LoadsInv, LoadMore
  <2> QED
    BY <2>1, <2>2 DEF LoadAnswers, LoadFails, LoadDone
<1>3. overlapped' \in BOOLEAN
  BY DEF PreviewInv, LoadMore, LoadAnswers, LoadFails
<1>4. PageInv'
  BY DEF PreviewInv, PageInv, LoadMore, LoadAnswers, LoadFails, BarFor
<1>5. DataInv'
  <2>1. CASE UNCHANGED <<data, table>>
    BY <2>1 DEF PreviewInv, DataInv
  <2>2. ASSUME NEW text, NEW size, data' = Absorb(text, size), DOMAIN table' = DOMAIN table
        PROVE  DataInv'
    BY <2>2 DEF PreviewInv, DataInv, Absorb
  <2>3. LoadAnswers(l) => DOMAIN table' = DOMAIN table
    BY DEF LoadAnswers
  <2> QED
    BY <2>1, <2>2, <2>3 DEF LoadMore, LoadAnswers, LoadFails
<1>6. ~overlapped' => SessionInv'
  <2>1. ~overlapped' => ~overlapped
    BY DEF PreviewInv, LoadMore, LoadAnswers, LoadFails
  <2> QED
    BY <2>1, LoadMoreSession, LoadAnswersSession, LoadFailsSession DEF PreviewInv
<1> QED
  BY <1>1, <1>2, <1>3, <1>4, <1>5, <1>6 DEF PreviewInv

LEMMA PreviewStep == ASSUME PreviewInv, PreviewNext PROVE PreviewInv'
<1>1. ASSUME NEW r \in Runs, RunSteps(r)
      PROVE  PreviewInv'
  <2>1. CASE RequestFails(r) \/ PollSaysFailed(r) \/ TimesOut(r) \/ FirstChunkFails(r)
    BY <2>1, EndPreview
  <2> QED
    BY <1>1, <2>1, PollPreview, SucceededPreview, ChunkPreview DEF RunSteps
<1> QED
  BY <1>1, RunQueryPreview, PollPreview, LoadPreview DEF PreviewNext

\* A table that is drawn up to an end of a row, below its header.
LEMMA DrawnIsWhole ==
    ASSUME NEW r, NEW n \in Nat, n # 0, data.columns = Row(r, 1),
           table[r] = [i \in 1 .. n - 1 |-> Row(r, i + 1)]
    PROVE  /\ <<data.columns>> \o table[r] = [i \in 1 .. n |-> Row(r, i)]
           /\ Len(<<data.columns>> \o table[r]) = n
<1> DEFINE S == {Row(r, k) : k \in Nat}
           shown == <<data.columns>> \o table[r]
<1>1. n - 1 \in Nat /\ 1 + (n - 1) = n
  OBVIOUS
<1>2. \A k \in Nat : Row(r, k) \in S
  OBVIOUS
<1> HIDE DEF S
<1>3. /\ <<data.columns>> \in Seq(S) /\ Len(<<data.columns>>) = 1
      /\ <<data.columns>>[1] = Row(r, 1)
  BY <1>2
<1>4. table[r] \in Seq(S) /\ Len(table[r]) = n - 1
  <2>1. \A i \in 1 .. n - 1 : Row(r, i + 1) \in S
    BY <1>2
  <2>2. [i \in 1 .. n - 1 |-> Row(r, i + 1)] \in Seq(S)
    BY <1>1, <2>1
  <2> QED
    BY <1>1, <2>2, LenProperties
<1>5. /\ shown \in Seq(S) /\ Len(shown) = n
      /\ \A i \in 1 .. n :
           shown[i] = IF i <= 1 THEN <<data.columns>>[i] ELSE table[r][i - 1]
  <2>1. /\ shown \in Seq(S) /\ Len(shown) = Len(<<data.columns>>) + Len(table[r])
        /\ \A i \in 1 .. Len(<<data.columns>>) + Len(table[r]) :
             shown[i] = IF i <= Len(<<data.columns>>) THEN <<data.columns>>[i]
                        ELSE table[r][i - Len(<<data.columns>>)]
    BY <1>3, <1>4, ConcatProperties
  <2>2. Len(<<data.columns>>) + Len(table[r]) = n
    BY <1>1, <1>3, <1>4
  <2> HIDE DEF shown
  <2> QED
    BY <1>3, <2>1, <2>2
<1> HIDE DEF shown
<1>6. ASSUME NEW i \in 1 .. n PROVE shown[i] = Row(r, i)
  <2>1. CASE i = 1
    BY <1>3, <1>5, <2>1
  <2>2. CASE i # 1
    <3>1. i - 1 \in 1 .. n - 1 /\ (i - 1) + 1 = i /\ ~ (i <= 1)
      BY <2>2
    <3>2. table[r][i - 1] = Row(r, (i - 1) + 1)
      BY <3>1
    <3> QED
      BY <1>5, <3>1, <3>2
  <2> QED
    BY <2>1, <2>2
<1>7. shown = [i \in 1 .. n |-> shown[i]]
  BY <1>5, LenProperties
<1>8. shown = [i \in 1 .. n |-> Row(r, i)]
  BY <1>6, <1>7
<1> QED
  BY <1>5, <1>8 DEF shown

-----------------------------------------------------------------------------
(* The page.                                                               *)

\* IInv is an inductive invariant of the page.
THEOREM PageInvariance == Spec => []IInv
<1>1. Init => IInv
  BY TreeInitInv, FreshPreview DEF Init, PreviewInit, IInv
<1>2. IInv /\ [Next]_vars => IInv'
  <2> SUFFICES ASSUME IInv, [Next]_vars
               PROVE  IInv'
    OBVIOUS
  <2>1. CASE Browse
    BY <2>1, TreeStep, ResetPreview, PreviewStutters DEF Browse, IInv
  <2>2. CASE Query
    BY <2>2, TreeStutters, PreviewStep DEF Query, IInv
  <2>3. CASE UNCHANGED vars
    BY <2>3, TreeStutters, PreviewStutters DEF vars, IInv
  <2> QED
    BY <2>1, <2>2, <2>3 DEF Next
<1> QED
  BY <1>1, <1>2, PTL DEF Spec

\* Every variable of the page has its type: among others a run never polls
\* more often than fits before its deadline, and an answer that will be drawn
\* finds its container on the page.
THEOREM TypeCorrect == Spec => []TypeOK
<1>1. IInv => TypeOK
  <2> SUFFICES ASSUME IInv
               PROVE  TypeOK
    OBVIOUS
  <2>1. TreeTypeOK
    <3>1. /\ \A p \in DOMAIN tree : tree[p].expanded \in BOOLEAN
          /\ \A p \in DOMAIN dom : dom[p].view \in {"closed", "loading", "open", "error"}
      BY DEF IInv, TreeInv, ShapeInv, Nodes, Containers
    <3>2. panel.kind \in {"empty", "run", "component"}
      BY DEF IInv, TreeInv, ShapeInv, Panels, EmptyPanel
    <3>3. refreshing \in 0 .. MaxSwitches + 1
      BY TreeAssumption DEF IInv, TreeInv, ShapeInv
    <3> QED
      BY <3>1, <3>2, <3>3 DEF IInv, TreeInv, ShapeInv, TreeTypeOK
  <2>2. PreviewTypeOK
    BY DEF IInv, PreviewInv, RunsInv, QueriesInv, LoadsInv, PageInv, DataInv, PreviewTypeOK
  <2> QED
    BY <2>1, <2>2 DEF TypeOK
<1> QED
  BY <1>1, PageInvariance, PTL

\* As long as nothing raced, what is drawn and kept is the chosen user's
\* (toggleNode, renderChildren and onUserChange together): no answer of a
\* listing is drawn in the wrong place or for the wrong user.
THEOREM TreeIsTheUsersHolds == Spec => []TreeIsTheUsers
<1>1. IInv => TreeIsTheUsers
  <2> SUFFICES ASSUME IInv, ~raced
               PROVE  /\ \A p \in DOMAIN tree : tree[p].children = list_children(user, p)
                      /\ \A p \in DOMAIN dom \ {<<>>} :
                           /\ dom[p].items \in {{}, list_children(user, p)}
                           /\ dom[p].view = "open" <=> Open(tree, p)
                           /\ Open(tree, p) => dom[p].items = tree[p].children
                      /\ panel.kind = "run" => panel.children = list_children(user, panel.prefix)
    BY DEF TreeIsTheUsers
  <2> QED
    BY DEF IInv, TreeInv, ShownInv, Open, Cached
<1> QED
  BY <1>1, PageInvariance, PTL

\* The theme chosen in the panel is one of the component's and the type one
\* that was offered for its label (populateTypes), in any bucket.
THEOREM OfferedHolds == Spec => []OfferedInv
<1>1. IInv => OfferedInv
  BY DEF IInv, TreeInv
<1> QED
  BY <1>1, PageInvariance, PTL

\* With themes that their labels tell apart, the content below the selectors
\* is rendered for a prefix that holds objects (buildNarrowedPrefix).
THEOREM NarrowedToDataHolds ==
    ASSUME LabelsAreUnique
    PROVE  Spec => []NarrowedToData
<1>1. IInv => NarrowedToData
  <2> SUFFICES ASSUME IInv, panel.kind = "component", panel.state = "themes"
               PROVE  \E o \in Objects :
                        o.ns = namespace(user) /\ IsStrictPrefix(Narrowed, o.path)
    BY DEF NarrowedToData
  <2> DEFINE ns == namespace(user)
  <2>1. /\ panel.theme \in theme_entries(ns, panel.prefix)
        /\ isComponentNode(panel.prefix)
        /\ panel.type # <<>> =>
             \E s \in types_by_theme(ns, panel.prefix, panel.theme.label) : panel.type = <<s>>
    BY DEF IInv, TreeInv, OfferedInv
  <2>2. panel.prefix \in Paths /\ panel.prefix \in Seq(Segments)
    BY ComponentPanels DEF IInv, TreeInv, Paths
  <2>3. ns \in Users \cup {NoUser}
    BY TreeAssumption DEF namespace, IInv, TreeInv, ShapeInv
  <2> HIDE DEF ns
  <2>4. PICK o \in Objects :
          o.ns = ns /\ IsStrictPrefix(panel.prefix \o panel.theme.rel, o.path)
    BY <2>1, <2>2, ThemesAreThere
  <2>5. panel.theme.rel \in Seq(Segments)
    <3>1. panel.theme \in ThemeEntries
      BY <2>1, <2>2, ThemesAreThere
    <3> QED
      BY <3>1 DEF ThemeEntries
  <2>6. panel.prefix \o panel.theme.rel \in Seq(Segments)
    BY <2>2, <2>5, ConcatProperties
  <2>7. CASE panel.type = <<>>
    <3>1. Narrowed = panel.prefix \o panel.theme.rel
      BY <2>6, <2>7, ConcatEmptySeq DEF Narrowed
    <3> QED
      BY <2>4, <3>1 DEF ns
  <2>8. ASSUME NEW s \in types_by_theme(ns, panel.prefix, panel.theme.label),
               panel.type = <<s>>
        PROVE  \E x \in Objects : x.ns = ns /\ IsStrictPrefix(Narrowed, x.path)
    <3>1. PICK d \in theme_entries(ns, panel.prefix) :
            /\ d.label = panel.theme.label
            /\ \E x \in Objects :
                 x.ns = ns /\ IsStrictPrefix((panel.prefix \o d.rel) \o <<s>>, x.path)
      BY <2>1, <2>2, TypesAreThere
    <3>2. d = panel.theme
      <4>1. PICK n \in DOMAIN o.path : panel.prefix = SubSeq(o.path, 1, n)
        BY <2>2, <2>4, <2>5, PrefixOfPrefix, ObjectsHavePaths DEF Paths
      <4> QED
        BY <2>1, <2>3, <3>1, <4>1 DEF LabelsAreUnique
    <3> QED
      BY <2>8, <3>1, <3>2 DEF Narrowed
  <2> QED
    BY <2>1, <2>7, <2>8 DEF ns
<1> QED
  BY <1>1, PageInvariance, PTL

\* As long as no run and no load began during another, the table on the page
\* holds the first rows of its query's result, each of them whole, and all of
\* them once nothing is left to load (findSafeBreak, splitCsvLines and loadMore
\* together): for any result of rows that are not blank, newlines between quotes
\* included, and any chunk size that holds the header.
THEOREM RowsAreWholeHolds == Spec => []RowsAreWhole
<1>1. IInv => RowsAreWhole
  <2> SUFFICES ASSUME IInv, ~overlapped, data.tbody # NoQuery
               PROVE  LET r == data.tbody
                          shown == <<data.columns>> \o table[r]
                      IN /\ data.csv = r
                         /\ shown = [i \in 1 .. Len(shown) |-> Row(r, i)]
                         /\ page.statusBar = "full" =>
                              Len(shown) = Cardinality(LineEnds(Body(r)))
    BY DEF RowsAreWhole
  <2> DEFINE r == data.tbody
             E == LineEnds(Body(r))
             shown == <<data.columns>> \o table[r]
  <2>1. QueriesInv /\ r \in Runs /\ TableDrawn(r)
    BY DEF IInv, PreviewInv, DataInv, SessionInv, DrawnInv
  <2>2. /\ data.csv = r /\ query[r].csv # <<>>
        /\ data.totalSize = Len(Body(r))
        /\ page.statusBar = "full" => data.bytesLoaded = data.totalSize
    BY <2>1 DEF TableDrawn
  <2>3. PICK cut \in DOMAIN Body(r) : ShowsUpTo(r, cut)
    BY <2>1 DEF TableDrawn
  <2>4. /\ cut \in E /\ \A e \in E : e <= data.bytesLoaded => e <= cut
        /\ data.columns = Row(r, 1)
        /\ table[r] = [i \in 1 .. Rank(E, cut) - 1 |-> Row(r, i + 1)]
    BY <2>3 DEF ShowsUpTo, Rank, Upto
  <2>5. /\ EndsOfRows(E, Len(Body(r))) /\ Len(Body(r)) \in E
    BY <2>1, <2>2, BodyHasRows
  <2> HIDE DEF E, r
  <2>6. /\ cut \in Nat /\ 0 < cut /\ Rank(E, cut) \in Nat /\ Rank(E, 0) = 0
        /\ \A e \in E : e \in Nat /\ e <= Len(Body(r))
    BY <2>4, <2>5, EndsAreNumbers
  <2>7. Rank(E, cut) # 0
    <3>1. Rank(E, 0) < Rank(E, cut)
      BY <2>4, <2>5, <2>6, RankOrders
    <3> QED
      BY <2>6, <3>1
  <2>8. shown = [i \in 1 .. Rank(E, cut) |-> Row(r, i)] /\ Len(shown) = Rank(E, cut)
    <3> DEFINE n == Rank(E, cut)
    <3>1. n \in Nat /\ n # 0
      BY <2>6, <2>7
    <3>2. table[r] = [i \in 1 .. n - 1 |-> Row(r, i + 1)]
      BY <2>4
    <3> HIDE DEF n
    <3>3. shown = [i \in 1 .. n |-> Row(r, i)] /\ Len(shown) = n
      BY <2>4, <3>1, <3>2, DrawnIsWhole
    <3> QED
      BY <3>3 DEF n
  <2>9. ASSUME page.statusBar = "full"
        PROVE  Len(shown) = Cardinality(E)
    <3>1. Len(Body(r)) <= cut
      <4>1. data.bytesLoaded = Len(Body(r))
        BY <2>2, <2>9
      <4> QED
        BY <2>4, <2>5, <2>6, <4>1
    <3>2. \A e \in E : e <= cut
      BY <2>5, <2>6, <3>1
    <3>3. Upto(E, cut) = E
      BY <3>2 DEF Upto
    <3> QED
      BY <2>8, <3>3 DEF Rank
  <2> QED
    BY <2>2, <2>8, <2>9 DEF E, r
<1> QED
  BY <1>1, PageInvariance, PTL

=============================================================================
