---------------------------- MODULE BundleInspector ----------------------------
(***************************************************************************)
(* The page of the bundle inspector: the browser of BundleTree, and in its *)
(* component panel one query session of AthenaPreview at a time.  A        *)
(* session belongs to the content rendered for one narrowed prefix; when   *)
(* the panel's content is replaced, the closure lives on in detached       *)
(* elements nobody sees, which the model drops.                            *)
(*                                                                         *)
(* The two halves share nothing but the panel, so their steps commute and  *)
(* need not be explored in every order: a session is only begun on a quiet *)
(* page, and while one has begun the browser takes the steps that replace  *)
(* the panel (bounds, see QuietPage and Browse).                           *)
(***************************************************************************)
EXTENDS BundleTree, AthenaPreview

CONSTANT ATHENA_FOLDERS   \* the components that have a query editor

vars == <<treeVars, previewVars>>

Untouched == run = [r \in Runs |-> [pc |-> "idle", polls |-> 0]]

(* deriveAthenaTable finds a table, and the content has been rendered. *)
HasSession ==
  /\ panel.kind = "component" /\ panel.state # "loading"
  /\ Last(panel.prefix)[2] \in ATHENA_FOLDERS

(* A bound: the pages on which a session is explored. *)
QuietPage ==
  /\ environment = "dev" /\ user = NoUser /\ switches = 0
  /\ listings = {} /\ refreshing = 0 /\ asked < MaxListings

(* Replacing the content begins a new closure. *)
Reset ==
  /\ run' = [r \in Runs |-> [pc |-> "idle", polls |-> 0]]
  /\ query' = [r \in Runs |-> [state |-> "none", csv |-> <<>>]]
  /\ load' = [l \in Loads |-> [pc |-> "idle", csv |-> NoQuery, start |-> 0]]
  /\ page' = [runBtn |-> TRUE, results |-> "empty", tables |-> {},
              statusBar |-> "empty"]
  /\ data' = Cleared
  /\ table' = [r \in Runs |-> <<>>]
  /\ overlapped' = FALSE

Init == TreeInit /\ PreviewInit

Browse ==
  /\ TreeNext
  /\ \/ Untouched /\ UNCHANGED previewVars
     \/ ~Untouched /\ panel' # panel /\ Reset

Query == HasSession /\ QuietPage /\ PreviewNext /\ UNCHANGED treeVars

Next == Browse \/ Query

(* Requests are answered or fail, and the timer of a poll rings. *)
Spec ==
  /\ Init /\ [][Next]_vars
  /\ \A r \in Runs : WF_vars(HasSession /\ QuietPage /\ RunSteps(r) /\ UNCHANGED treeVars)

-----------------------------------------------------------------------------
(* Properties *)

TypeOK == TreeTypeOK /\ PreviewTypeOK

(* The invariant the proofs use. *)
IInv == TreeInv /\ PreviewInv

(* Every run of the query comes to an end that shows: the button can be    *)
(* pressed again and there is a result or a message in its place, even     *)
(* when Athena never finishes, an answer is lost or runs overlap; or the   *)
(* panel was left.                                                         *)
EveryRunEnds ==
  \A r \in Runs :
    Active(r) ~> \/ Untouched
                 \/ run[r].pc = "done" /\ page.runBtn /\ page.results # "empty"

=============================================================================
