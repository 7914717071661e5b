------------------------------ MODULE BundleTree ------------------------------
(***************************************************************************)
(* The browser of the bundle inspector (core.js, tree.js, app.js and the   *)
(* component panel of components/registry.js) and the listing calls of its *)
(* server (_endpoints.py, s3.py).                                          *)
(*                                                                         *)
(* The bucket holds bundles under a namespace: the user in dev, nothing    *)
(* elsewhere.  The browser keeps the listings it has fetched in state.tree *)
(* and draws them as nested containers; every listing is an await, during  *)
(* which the user may click elsewhere or choose another user.              *)
(*                                                                         *)
(* A path is a sequence of segments <<key, value>>: <<"theme", "places">>  *)
(* for theme=places, <<NoKey, "data">> for a bare name.  The objects do not*)
(* change while the page is open.  What a click marks as selected, the     *)
(* icons and the URL are left out.                                         *)
(***************************************************************************)
EXTENDS Naturals, FiniteSets, Sequences, SequencesExt

CONSTANTS Users,        \* the top-level prefixes of a dev bucket
          NoUser,       \* no override; also the namespace outside dev
          ConfUser,     \* the user option of airflow.cfg
          Objects,      \* the keys: [ns, path]
          MaxListings,  \* bound on the listings requested
          MaxSwitches   \* bound on the changes of user

KnownStages == {"theme_promote", "theme_stage", "release_candidate"}
NoKey == ""   \* the key of a bare name

Segments == {<<NoKey, s>> : s \in KnownStages} \cup UNION {Range(o.path) : o \in Objects}

ASSUME TreeAssumption ==
  /\ NoUser \notin Users /\ ConfUser \in Users \cup {NoUser}
  /\ MaxListings \in Nat /\ MaxSwitches \in Nat
  /\ \A o \in Objects :
       /\ o.ns \in Users \cup {NoUser}
       /\ o.path \in Seq(Segments) /\ o.path # <<>>
       /\ \E s \in KnownStages : o.path[1] = <<NoKey, s>>

VARIABLES environment, \* "dev" or "prod" (the environment option)
          user,        \* state.user
          tree,        \* state.tree: prefix -> [expanded, children]
          dom,         \* drawn containers: prefix -> [view, items]
          listings,    \* listings in flight: [id, prefix, user, live]
          asked,       \* how many listings were requested
          switches,    \* how often the user was changed
          refreshing,  \* refreshes that have not drawn the root yet
          panel,       \* the detail panel
          raced        \* history: see Toggle and onUserChange

treeVars == <<environment, user, tree, dom, listings, asked, switches,
              refreshing, panel, raced>>

-----------------------------------------------------------------------------
(* The server *)

STAGE_HIERARCHY ==
  [theme_promote |-> <<"theme", "schema", "run">>,
   theme_stage |-> <<"theme", "run">>,
   release_candidate |-> <<"release", "run">>]

STAGE_COMPONENTS == [theme_stage |-> {"data", "success", "metadata.json", "summary.md"}]

run_depth(stage) == Len(STAGE_HIERARCHY[stage]) + 1

namespace(u) ==
  CASE environment # "dev" -> NoUser
    [] u # NoUser -> u
    [] OTHER -> ConfUser

list_prefix(ns, prefix) ==
  {[seg |-> o.path[Len(prefix) + 1], dir |-> Len(o.path) > Len(prefix) + 1] :
     o \in {x \in Objects : x.ns = ns /\ IsStrictPrefix(prefix, x.path)}}

(* The level of an item decides what its name must look like. *)
filter_bundle_level(items, stage, depth) ==
  LET h == STAGE_HIERARCHY[stage]
  IN IF depth < Len(h)
     THEN {i \in items : i.dir /\ i.seg[1] = h[depth + 1]}
     ELSE IF stage \in DOMAIN STAGE_COMPONENTS
          THEN {i \in items : i.seg[1] = NoKey /\ i.seg[2] \in STAGE_COMPONENTS[stage]
                              /\ (i.dir <=> i.seg[2] = "data")}
          ELSE items

list_children(u, prefix) ==
  IF prefix = <<>>
  THEN {[seg |-> <<NoKey, s>>, dir |-> TRUE] : s \in KnownStages}
  ELSE filter_bundle_level(list_prefix(namespace(u), prefix), prefix[1][2],
                           Len(prefix) - 1)

(* theme_types: the directories where the search for themes stops.  A      *)
(* directory is one if it is named theme= or has a bare name, and the      *)
(* search goes below a level only when none is there.  rel is the path     *)
(* from the component, label the values along it.                          *)
Dirs(ns, prefix) ==
  {i.seg : i \in {x \in list_prefix(ns, prefix) : x.dir}}

ThemeLike(seg) == seg[1] \in {"theme", NoKey}

theme_entries(ns, prefix) ==
  LET paths == UNION {{SubSeq(o.path, Len(prefix) + 1, n) :
                         n \in Len(prefix) + 1 .. Len(o.path) - 1} :
                        o \in {x \in Objects : x.ns = ns /\ IsPrefix(prefix, x.path)}}
      reached(rel) ==
        /\ ThemeLike(rel[Len(rel)])
        /\ \A n \in 0 .. Len(rel) - 2 :
             \A seg \in Dirs(ns, prefix \o SubSeq(rel, 1, n)) : ~ThemeLike(seg)
  IN {[label |-> [n \in DOMAIN rel |-> rel[n][2]], rel |-> rel] :
        rel \in {p \in paths : reached(p)}}

(* The types of a label.  The dictionary of the code is keyed by the label *)
(* alone; a label that two entries share has the types of one of them.     *)
types_by_theme(ns, prefix, label) ==
  LET e == CHOOSE x \in theme_entries(ns, prefix) : x.label = label
  IN {seg \in Dirs(ns, prefix \o e.rel) : seg[1] = "type"}

-----------------------------------------------------------------------------
(* The page *)

isComponentNode(prefix) == Len(prefix) = run_depth(prefix[1][2]) + 1
isRunLevelNode(prefix) == Len(prefix) = run_depth(prefix[1][2])

Cached(t, p) == p \in DOMAIN t
Open(t, p) == Cached(t, p) /\ t[p].expanded

Closed == [view |-> "closed", items |-> {}]
ContainersOf(p, items) ==
  {q \in {Append(p, i.seg) : i \in {x \in items : x.dir}} : ~isComponentNode(q)}

Below(p) == {q \in DOMAIN dom : IsStrictPrefix(p, q)}

(* renderChildren: every container below p is drawn anew, the ones that    *)
(* state.tree holds as expanded with what it holds (renderNode).           *)
Candidates(t) == UNION {ContainersOf(p, t[p].children) : p \in DOMAIN t}
Drawn(t, p, items) ==
  {q \in ContainersOf(p, items) \cup Candidates(t) :
     /\ IsStrictPrefix(p, q)
     /\ SubSeq(q, 1, Len(p) + 1) \in ContainersOf(p, items)
     /\ \A n \in Len(p) + 1 .. Len(q) - 1 :
          /\ Open(t, SubSeq(q, 1, n))
          /\ SubSeq(q, 1, n + 1) \in ContainersOf(SubSeq(q, 1, n),
                                       t[SubSeq(q, 1, n)].children)}

renderNode(t, q) ==
  IF Open(t, q) THEN [view |-> "open", items |-> t[q].children] ELSE Closed

renderChildren(t, p, items) ==
  LET drawn == Drawn(t, p, items)
  IN [q \in (DOMAIN dom \ Below(p)) \cup drawn \cup {p} |->
        IF q = p THEN [view |-> "open", items |-> items]
        ELSE IF q \in drawn THEN renderNode(t, q) ELSE dom[q]]

(* The container of p shows a text instead of rows. *)
Blank(p, view) ==
  [q \in DOMAIN dom \ Below(p) |->
     IF q = p THEN [view |-> view, items |-> {}] ELSE dom[q]]

(* Requests whose container is redrawn keep a detached element. *)
Detach(reqs, p) ==
  {IF IsStrictPrefix(p, l.prefix) THEN [l EXCEPT !.live = FALSE] ELSE l : l \in reqs}

EmptyTree == [p \in {} |-> {}]
EmptyPanel == [kind |-> "empty"]
RunPanel(p, children) == [kind |-> "run", prefix |-> p, children |-> children]

(* selectIfRunLevel *)
PanelAfter(p, children) == IF isRunLevelNode(p) THEN RunPanel(p, children) ELSE panel

(* A row can be clicked when every container around it is open. *)
Clickable(p) ==
  /\ \A n \in 0 .. Len(p) - 1 :
       SubSeq(p, 1, n) \in DOMAIN dom /\ dom[SubSeq(p, 1, n)].view = "open"
  /\ \E i \in dom[Front(p)].items : i.dir /\ i.seg = Last(p)

TreeInit ==
  /\ environment \in {"dev", "prod"}
  /\ user \in IF environment = "dev" THEN Users \cup {NoUser} ELSE {NoUser}
  /\ tree = EmptyTree /\ dom = EmptyTree
  /\ listings = {} /\ asked = 0 /\ switches = 0
  /\ refreshing = 1
  /\ panel = EmptyPanel
  /\ raced = FALSE

-----------------------------------------------------------------------------
(* toggleNode *)

Collapse(p) ==
  /\ Clickable(p) /\ Open(tree, p)
  /\ tree' = [tree EXCEPT ![p].expanded = FALSE]
  /\ dom' = [dom EXCEPT ![p].view = "closed"]
  /\ UNCHANGED <<environment, user, listings, asked, switches, refreshing, panel, raced>>

(* The rows are those the container already has. *)
Expand(p) ==
  /\ Clickable(p) /\ Cached(tree, p) /\ ~Open(tree, p)
  /\ tree' = [tree EXCEPT ![p].expanded = TRUE]
  /\ dom' = [dom EXCEPT ![p].view = "open"]
  /\ panel' = PanelAfter(p, tree[p].children)
  /\ UNCHANGED <<environment, user, listings, asked, switches, refreshing, raced>>

(* Nothing keeps a second click from asking again during the first await. *)
Request(p) ==
  /\ Clickable(p) /\ ~Cached(tree, p) /\ asked < MaxListings
  /\ raced' = (raced \/ \E l \in listings : l.prefix = p)
  /\ asked' = asked + 1
  /\ listings' = Detach(listings, p) \cup
                   {[id |-> asked, prefix |-> p, user |-> user, live |-> TRUE]}
  /\ dom' = Blank(p, "loading")
  /\ UNCHANGED <<environment, user, tree, switches, refreshing, panel>>

(* The answer is stored whatever happened since it was asked for. *)
ListingAnswers(l) ==
  LET children == list_children(l.user, l.prefix)
      stored == [p \in DOMAIN tree \cup {l.prefix} |->
                   IF p = l.prefix THEN [expanded |-> TRUE, children |-> children]
                   ELSE tree[p]]
      drawn == renderChildren(stored, l.prefix, children)
  IN /\ tree' = stored
     /\ IF l.live
        THEN /\ dom' = [drawn EXCEPT ![l.prefix].view =
                          IF dom[l.prefix].view = "closed" THEN "closed" ELSE "open"]
             /\ listings' = Detach(listings \ {l}, l.prefix)
        ELSE dom' = dom /\ listings' = listings \ {l}
     /\ panel' = PanelAfter(l.prefix, children)
     /\ UNCHANGED <<environment, user, asked, switches, refreshing, raced>>

ListingFails(l) ==
  /\ IF l.live
     THEN /\ dom' = Blank(l.prefix, IF dom[l.prefix].view = "closed" THEN "closed"
                                    ELSE "error")
          /\ listings' = Detach(listings \ {l}, l.prefix)
     ELSE dom' = dom /\ listings' = listings \ {l}
  /\ UNCHANGED <<environment, user, tree, asked, switches, refreshing, panel, raced>>

-----------------------------------------------------------------------------
(* A fault: the listings of the former user are kept. *)
FaultyUserChange(u) ==
  /\ environment = "dev" /\ u # user /\ switches < MaxSwitches
  /\ raced' = (raced \/ listings # {} \/ refreshing > 0)
  /\ user' = u
  /\ switches' = switches + 1
  /\ tree' = tree /\ dom' = EmptyTree
  /\ listings' = {[l EXCEPT !.live = FALSE] : l \in listings}
  /\ panel' = EmptyPanel
  /\ refreshing' = refreshing + 1
  /\ UNCHANGED <<environment, asked>>

(* onUserChange and refresh, up to its first await.  The selector is only  *)
(* shown in dev (loadUserSelector).                                        *)
onUserChange(u) ==
  /\ environment = "dev" /\ u # user /\ switches < MaxSwitches
  /\ raced' = (raced \/ listings # {} \/ refreshing > 0)
  /\ user' = u
  /\ switches' = switches + 1
  /\ tree' = EmptyTree /\ dom' = EmptyTree
  /\ listings' = {[l EXCEPT !.live = FALSE] : l \in listings}
  /\ panel' = EmptyPanel
  /\ refreshing' = refreshing + 1
  /\ UNCHANGED <<environment, asked>>

(* The rest of refresh: fetchConfig and loadRoot, drawn from state.tree. *)
loadRoot ==
  /\ refreshing > 0
  /\ refreshing' = refreshing - 1
  /\ dom' = renderChildren(tree, <<>>, list_children(user, <<>>))
  /\ listings' = Detach(listings, <<>>)
  /\ UNCHANGED <<environment, user, tree, asked, switches, panel, raced>>

RootFails ==
  /\ refreshing > 0
  /\ refreshing' = refreshing - 1
  /\ dom' = EmptyTree
  /\ listings' = Detach(listings, <<>>)
  /\ UNCHANGED <<environment, user, tree, asked, switches, panel, raced>>

-----------------------------------------------------------------------------
(* The component panel *)

selectComponent(p) ==
  /\ Clickable(p) /\ isComponentNode(p)
  /\ panel' = [kind |-> "component", prefix |-> p, state |-> "loading"]
  /\ UNCHANGED <<environment, user, tree, dom, listings, asked, switches, refreshing, raced>>

(* The prefix that the content below the selectors is rendered for. *)
Narrowed == panel.prefix \o panel.theme.rel \o panel.type

(* populateTypes: the first of the types offered, or none. *)
Narrow(ns, e) ==
  LET types == types_by_theme(ns, panel.prefix, e.label)
  IN panel' \in {[kind |-> "component", prefix |-> panel.prefix, state |-> "themes",
                  theme |-> e, type |-> t] :
                   t \in IF types = {} THEN {<<>>} ELSE {<<s>> : s \in types}}

(* An answer for a panel that was replaced draws into detached elements.   *)
(* Without themes, and when the request fails, the content is rendered for *)
(* the component itself.                                                   *)
ThemeTypesAnswer ==
  /\ panel.kind = "component" /\ panel.state = "loading"
  /\ LET entries == theme_entries(namespace(user), panel.prefix)
     IN \/ /\ panel' = [panel EXCEPT !.state = "plain"]
        \/ \E e \in entries : Narrow(namespace(user), e)
  /\ UNCHANGED <<environment, user, tree, dom, listings, asked, switches, refreshing, raced>>

(* A fault: the type selector keeps the types of the former theme. *)
FaultyPickTheme ==
  /\ panel.kind = "component" /\ panel.state = "themes"
  /\ \E e \in theme_entries(namespace(user), panel.prefix) :
       e # panel.theme /\ panel' = [panel EXCEPT !.theme = e]
  /\ UNCHANGED <<environment, user, tree, dom, listings, asked, switches, refreshing, raced>>

(* The change handler of the theme selector fills the type selector anew. *)
PickTheme ==
  /\ panel.kind = "component" /\ panel.state = "themes"
  /\ \E e \in theme_entries(namespace(user), panel.prefix) :
       e # panel.theme /\ Narrow(namespace(user), e)
  /\ UNCHANGED <<environment, user, tree, dom, listings, asked, switches, refreshing, raced>>

PickType ==
  /\ panel.kind = "component" /\ panel.state = "themes"
  /\ \E s \in types_by_theme(namespace(user), panel.prefix, panel.theme.label) :
       <<s>> # panel.type /\ panel' = [panel EXCEPT !.type = <<s>>]
  /\ UNCHANGED <<environment, user, tree, dom, listings, asked, switches, refreshing, raced>>

Rows == UNION {{Append(p, i.seg) : i \in dom[p].items} : p \in DOMAIN dom}

TreeNext ==
  \/ \E p \in Rows : \/ p \in DOMAIN dom /\ (Collapse(p) \/ Expand(p) \/ Request(p))
                     \/ selectComponent(p)
  \/ \E l \in listings : ListingAnswers(l) \/ ListingFails(l)
  \/ \E u \in Users : onUserChange(u)
  \/ loadRoot \/ RootFails
  \/ ThemeTypesAnswer \/ PickTheme \/ PickType

-----------------------------------------------------------------------------
(* Properties *)

TreeTypeOK ==
  /\ environment \in {"dev", "prod"} /\ user \in Users \cup {NoUser}
  /\ \A p \in DOMAIN tree : tree[p].expanded \in BOOLEAN
  /\ \A p \in DOMAIN dom : dom[p].view \in {"closed", "loading", "open", "error"}
  /\ asked \in 0 .. MaxListings /\ switches \in 0 .. MaxSwitches
  /\ refreshing \in 0 .. MaxSwitches + 1
  /\ \A l \in listings : l.prefix \in DOMAIN dom \/ ~l.live
  /\ panel.kind \in {"empty", "run", "component"}

(* What the page shows is the chosen user's: as long as no listing or      *)
(* refresh was in flight when the user was changed and no listing was      *)
(* asked for twice at a time, every row drawn, every listing kept and the  *)
(* run in the panel are those of the namespace of the current user, and a  *)
(* container is open exactly when the store says so.                       *)
TreeIsTheUsers ==
  ~raced =>
    /\ \A p \in DOMAIN tree : tree[p].children = list_children(user, p)
    /\ \A p \in DOMAIN dom \ {<<>>} :
         /\ dom[p].items \in {{}, list_children(user, p)}
         /\ dom[p].view = "open" <=> Open(tree, p)
         /\ Open(tree, p) => dom[p].items = tree[p].children
    /\ panel.kind = "run" => panel.children = list_children(user, panel.prefix)

(* The panel never offers content that is not there: with a theme chosen,  *)
(* the prefix narrowed to theme and type holds objects of the current      *)
(* user's component, whatever themes and types were chosen before.         *)
NarrowedToData ==
  (panel.kind = "component" /\ panel.state = "themes") =>
    \E o \in Objects : o.ns = namespace(user) /\ IsStrictPrefix(Narrowed, o.path)

-----------------------------------------------------------------------------
(* The inductive invariant: the shape of the state, what a panel with a    *)
(* theme holds, and what is true as long as nothing raced.                 *)

Items == [seg : Segments, dir : BOOLEAN]
Paths == Seq(Segments) \ {<<>>}
Nodes == [expanded : BOOLEAN, children : SUBSET Items]
Containers == [view : {"closed", "loading", "open", "error"}, items : SUBSET Items]
Requests == [id : Nat, prefix : Paths, user : Users \cup {NoUser}, live : BOOLEAN]
ThemeEntries == [label : Seq({s[2] : s \in Segments}), rel : Seq(Segments)]

Panels ==
  {EmptyPanel}
    \cup [kind : {"run"}, prefix : Paths, children : SUBSET Items]
    \cup [kind : {"component"}, prefix : Paths, state : {"loading", "plain"}]
    \cup [kind : {"component"}, prefix : Paths, state : {"themes"},
          theme : ThemeEntries, type : Seq(Segments)]

ShapeInv ==
  /\ environment \in {"dev", "prod"} /\ user \in Users \cup {NoUser}
  /\ DOMAIN tree \subseteq Paths /\ tree \in [DOMAIN tree -> Nodes]
  /\ DOMAIN dom \subseteq Seq(Segments) /\ dom \in [DOMAIN dom -> Containers]
  /\ listings \subseteq Requests
  /\ \A l \in listings : l.live => l.prefix \in DOMAIN dom
  /\ asked \in 0 .. MaxListings /\ switches \in 0 .. MaxSwitches
  /\ refreshing \in 0 .. switches + 1
  /\ panel \in Panels
  /\ raced \in BOOLEAN

(* The theme is one of the component's, the type one that was offered for  *)
(* the label of the theme.                                                 *)
OfferedInv ==
  /\ panel.kind = "component" => isComponentNode(panel.prefix)
  /\ (panel.kind = "component" /\ panel.state = "themes") =>
       /\ panel.theme \in theme_entries(namespace(user), panel.prefix)
       /\ panel.type # <<>> =>
            \E s \in types_by_theme(namespace(user), panel.prefix, panel.theme.label) :
              panel.type = <<s>>

(* Every container above p has been listed. *)
Reached(p) == \A n \in 1 .. Len(p) - 1 : Cached(tree, SubSeq(p, 1, n))

(* Before the root is drawn nothing can have been asked for; a listing in  *)
(* flight is for a container that waits for it and is asked for once.      *)
InFlightInv ==
  /\ refreshing <= 1
  /\ refreshing > 0 => DOMAIN tree = {} /\ DOMAIN dom = {} /\ listings = {}
  /\ \A l \in listings :
       /\ l.live /\ l.user = user
       /\ dom[l.prefix].view = "loading"
       /\ ~Cached(tree, l.prefix) /\ Reached(l.prefix)
  /\ \A k, l \in listings : k.prefix = l.prefix => k = l

(* A container that was listed keeps its rows when it is closed. *)
ShownInv ==
  /\ \A p \in DOMAIN tree : Reached(p) /\ tree[p].children = list_children(user, p)
  /\ \A p \in DOMAIN dom \ {<<>>} :
       /\ dom[p].view = "open" <=> Open(tree, p)
       /\ dom[p].items = IF Cached(tree, p) THEN tree[p].children ELSE {}
  /\ panel.kind = "run" => panel.children = list_children(user, panel.prefix)

TreeInv == ShapeInv /\ OfferedInv /\ (~raced => InFlightInv /\ ShownInv)

(* No two themes of a component are told apart by a key alone: the         *)
(* dictionary of types is keyed by the values along the path.              *)
LabelsAreUnique ==
  \A ns \in Users \cup {NoUser}, o \in Objects : \A n \in DOMAIN o.path :
    isComponentNode(SubSeq(o.path, 1, n)) =>
      \A a, b \in theme_entries(ns, SubSeq(o.path, 1, n)) : a.label = b.label => a = b

=============================================================================
