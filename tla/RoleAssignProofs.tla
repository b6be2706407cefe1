-------------------------- MODULE RoleAssignProofs --------------------------
(***************************************************************************)
(* Proofs about RoleAssign, for every set of roles and authorities, and    *)
(* every number of handlers and of assignments at work on the server.      *)
(***************************************************************************)
EXTENDS RoleAssign, AssignmentProofs

(***************************************************************************)
(* What keeps a second handler from sending: a tree is on the screen only  *)
(* until the first has sent.  And it is on the screen only with a role, so *)
(* that an assignment always has an owner.  A tree has the role's name or  *)
(* none from the moment the first request is answered, so that no failure  *)
(* that follows can show another's.                                        *)
(***************************************************************************)
TreeUnsent == tree.exists => sent = 0 /\ roleId \in Owner

TreeRecord == [exists : BOOLEAN, of : Owner \cup {NoOwner},
               nodes : SUBSET Item, checked : SUBSET Item]

TabTypeOK ==
    /\ dialog \in {"none", "shown", "hiding"}
    /\ roleId \in Owner \cup {NoOwner}
    /\ tree \in TreeRecord
    /\ tree.checked \subseteq tree.nodes
    /\ handlers \in 0..MaxHandlers
    /\ toRun \in 0..handlers
    /\ reads \in Answer
    /\ sent \in Nat

TabInv ==
    /\ TabTypeOK
    /\ TreeUnsent
    /\ TreeIsOfRole
    /\ SentOncePerOpening

Inv == AssignmentInv /\ TabInv

LEMMA CommittedType == AssignmentTypeOK => \A o \in Owner : Committed(o) \subseteq Item
BY DEF AssignmentTypeOK, Committed, TxRecord

LEMMA TreeType ==
    /\ ~NoTree.exists
    /\ NoTree \in TreeRecord /\ NoTree.checked \subseteq NoTree.nodes
    /\ \A o \in Owner \cup {NoOwner}, N, A \in SUBSET Item :
         /\ Tree(o, N, A) \in TreeRecord
         /\ Tree(o, N, A).exists /\ Tree(o, N, A).of = o
         /\ Tree(o, N, A).nodes = N /\ Tree(o, N, A).checked = A
BY DEF NoTree, Tree, TreeRecord

LEMMA InitInv == Init => Inv
<1> SUFFICES ASSUME Init PROVE Inv
  OBVIOUS
<1>1. AssignmentInv
  BY AssignmentInitInv DEF Init
<1>2. TabTypeOK
  <2>1. reads \in Answer
    BY DEF Init, Answer
  <2>2. handlers \in 0..MaxHandlers /\ toRun \in 0..handlers /\ sent \in Nat
    BY HandlerBound DEF Init
  <2> QED BY <2>1, <2>2, TreeType DEF Init, TabTypeOK
<1>3. TreeUnsent /\ TreeIsOfRole /\ SentOncePerOpening
  BY TreeType DEF Init, TreeUnsent, TreeIsOfRole, SentOncePerOpening
<1> QED BY <1>1, <1>2, <1>3 DEF Inv, TabInv

-----------------------------------------------------------------------------
(***************************************************************************)
(* Every step of the tab, and every step of the server.                    *)
(***************************************************************************)
LEMMA ClickCheckInv ==
    ASSUME Inv, NEW r \in Owner, NEW all \in Answer, NEW own \in Answer,
           ClickCheck(r, all, own)
    PROVE  TabInv'
<1> USE DEF Inv, TabInv
<1>1. Committed(r) \subseteq Item
  BY CommittedType DEF AssignmentInv
<1> DEFINE empty == TreeBeforeOwn(all)
           filled == Tree(r, empty.nodes, Committed(r))
<1>2. /\ empty \in TreeRecord /\ empty.exists /\ empty.of = NoOwner /\ empty.checked = {}
      /\ all = "ok" => empty.nodes = Item
  BY TreeType DEF TreeBeforeOwn
<1>3. /\ filled \in TreeRecord /\ filled.exists /\ filled.of = r
      /\ filled.nodes = empty.nodes /\ filled.checked = Committed(r)
  <2>1. r \in Owner \cup {NoOwner} /\ Committed(r) \in SUBSET Item
    BY <1>1
  <2>2. empty.nodes \in SUBSET Item
    BY <1>2 DEF TreeRecord
  <2> QED BY <2>1, <2>2, TreeType
<1>4. /\ dialog' = "shown" /\ roleId' = r /\ sent' = 0 /\ UNCHANGED toRun
      /\ reads' = Worse(all, own)
  BY DEF ClickCheck
<1>5. reads' \in Answer
  BY <1>4 DEF Worse, Answer
\* The three ways the dialog is opened.
<1>6. \/ UNCHANGED <<tree, handlers>> /\ reads' = "refused"
      \/ tree' = empty /\ UNCHANGED handlers /\ reads' # "ok"
      \/ /\ tree' = filled /\ filled.checked \subseteq filled.nodes
         /\ handlers < MaxHandlers /\ handlers' = handlers + 1
  <2>1. CASE all = "refused"
    BY <2>1, <1>4 DEF ClickCheck, Worse
  <2>2. CASE all # "refused" /\ ~Fills(r, all, own)
    BY <2>2, <1>4 DEF ClickCheck, Worse, Fills, Answer
  <2>3. CASE all # "refused" /\ Fills(r, all, own)
    BY <2>3, <1>1, <1>2, <1>3 DEF ClickCheck, Fills
  <2> QED BY <2>1, <2>2, <2>3
<1> HIDE DEF empty, filled
<1>7. tree' \in TreeRecord /\ tree'.checked \subseteq tree'.nodes
  BY <1>2, <1>3, <1>6 DEF TabTypeOK
<1>8. handlers' \in 0..MaxHandlers /\ toRun' \in 0..handlers'
  <2>1. handlers' \in {handlers, handlers + 1} /\ handlers' <= MaxHandlers
    BY <1>6, HandlerBound DEF TabTypeOK
  <2> QED BY <2>1, <1>4, HandlerBound DEF TabTypeOK
<1>9. TabTypeOK'
  BY <1>4, <1>5, <1>7, <1>8 DEF TabTypeOK
<1>10. TreeUnsent' /\ SentOncePerOpening'
  BY <1>4 DEF TreeUnsent, SentOncePerOpening
<1>11. TreeIsOfRole'
  BY <1>2, <1>3, <1>4, <1>6 DEF TreeIsOfRole
<1> QED BY <1>9, <1>10, <1>11

LEMMA CheckNodesInv ==
    ASSUME Inv, NEW A \in SUBSET Item, CheckNodes(A)
    PROVE  TabInv'
BY DEF Inv, TabInv, CheckNodes, TabTypeOK, TreeRecord, TreeUnsent, TreeIsOfRole,
       SentOncePerOpening

LEMMA EventsInv ==
    ASSUME Inv, Dismiss \/ HideModal \/ ClickAssign \/ HandlerFails \/ Revisit
    PROVE  TabInv'
<1> USE HandlerBound, TreeType
    DEF Inv, TabInv, TabTypeOK, TreeUnsent, TreeIsOfRole, SentOncePerOpening
<1>1. CASE Dismiss
  BY <1>1 DEF Dismiss
<1>2. CASE HideModal
  BY <1>2 DEF HideModal
<1>3. CASE ClickAssign
  BY <1>3 DEF ClickAssign
<1>4. CASE HandlerFails
  BY <1>4 DEF HandlerFails, AfterFailure
<1>5. CASE Revisit
  <2>1. TabTypeOK'
    <3>1. reads' \in Answer
      BY <1>5 DEF Revisit, Answer
    <3>2. handlers' \in 0..MaxHandlers /\ toRun' \in 0..handlers' /\ sent' \in Nat
      BY <1>5 DEF Revisit, Idle
    <3> QED BY <1>5, <3>1, <3>2, Zenon DEF Revisit
  <2>2. TreeUnsent' /\ TreeIsOfRole' /\ SentOncePerOpening'
    BY <1>5 DEF Revisit
  <2> QED BY <2>1, <2>2
<1> QED BY <1>1, <1>2, <1>3, <1>4, <1>5

LEMMA RunHandlerBegins ==
    ASSUME Inv, NEW w \in Slot, RunHandler(w)
    PROVE  roleId \in Owner /\ tree.checked \in SUBSET Item /\ Begin(w, roleId, tree.checked)
BY DEF RunHandler, Inv, TabInv, TabTypeOK, TreeRecord, TreeUnsent

LEMMA RunHandlerInv ==
    ASSUME Inv, NEW w \in Slot, RunHandler(w)
    PROVE  TabInv'
BY TreeType
   DEF RunHandler, TreeAfterSend, NoTree, Inv, TabInv, TabTypeOK, TreeUnsent,
       TreeIsOfRole, SentOncePerOpening

LEMMA TabUnchanged == TabInv /\ UNCHANGED tab => TabInv'
BY DEF tab, TabInv, TabTypeOK, TreeUnsent, TreeIsOfRole, SentOncePerOpening

LEMMA ServerUnchanged == AssignmentInv /\ UNCHANGED <<rows, tx>> => AssignmentInv'
BY DEF AssignmentInv, AssignmentTypeOK, OwnersKnown, GoneOnlyWhenDeleted, OneHasGone,
       OwnerCleared, Working

\* What only the tab does leaves the server alone.
TabStep ==
    \/ \E r \in Owner, all, own \in Answer : ClickCheck(r, all, own)
    \/ \E A \in SUBSET Item : CheckNodes(A)
    \/ Dismiss \/ HideModal \/ ClickAssign \/ HandlerFails \/ Revisit

LEMMA TabStepInv == Inv /\ TabStep => TabInv' /\ UNCHANGED <<rows, tx>>
<1> SUFFICES ASSUME Inv, TabStep PROVE TabInv' /\ UNCHANGED <<rows, tx>>
  OBVIOUS
<1>1. TabInv'
  BY ClickCheckInv, CheckNodesInv, EventsInv DEF TabStep
<1>2. UNCHANGED <<rows, tx>>
  BY DEF TabStep, ClickCheck, CheckNodes, Dismiss, HideModal, ClickAssign, HandlerFails, Revisit
<1> QED BY <1>1, <1>2

LEMMA StepInv == Inv /\ [Next]_vars => Inv'
<1> SUFFICES ASSUME Inv, [Next]_vars PROVE AssignmentInv' /\ TabInv'
  BY DEF Inv
<1>1. CASE TabStep
  BY <1>1, TabStepInv, ServerUnchanged DEF Inv
<1>2. ASSUME NEW w \in Slot, RunHandler(w) PROVE AssignmentInv' /\ TabInv'
  BY <1>2, RunHandlerInv, RunHandlerBegins, BeginInv DEF Inv
<1>3. ASSUME NEW w \in Slot, NEW r \in Owner, NEW A \in SUBSET Item, OtherAssigns(w, r, A)
      PROVE  AssignmentInv' /\ TabInv'
  BY <1>3, BeginInv, TabUnchanged DEF OtherAssigns, Inv
<1>4. ASSUME NEW w \in Slot, ServerStep(w) PROVE AssignmentInv' /\ TabInv'
  BY <1>4, TxStepInv, TabUnchanged DEF ServerStep, Inv
<1>5. CASE UNCHANGED vars
  BY <1>5, TabUnchanged, ServerUnchanged DEF Inv, vars
<1> QED BY <1>1, <1>2, <1>3, <1>4, <1>5 DEF Next, TabStep

LEMMA InvHolds == Spec => []Inv
BY InitInv, StepInv, PTL DEF Spec

-----------------------------------------------------------------------------
(***************************************************************************)
(* The results                                                             *)
(***************************************************************************)

\* Every variable keeps its type, whatever the tab and the server do.
THEOREM TypeCorrect == Spec => []TypeOK
<1>1. Inv => TypeOK
  BY DEF Inv, AssignmentInv, TabInv, TabTypeOK, TreeRecord, TypeOK
<1> QED BY <1>1, InvHolds, PTL

\* However often the dialog is opened and whatever its requests are answered,
\* the tree whose nodes assignBtn sends for a role shows no authorities of
\* another role, unless a message told that a request was refused; and it is
\* the role's once both requests were answered.
THEOREM TreesOfTheirRole == Spec => []TreeIsOfRole
<1>1. Inv => TreeIsOfRole
  BY DEF Inv, TabInv
<1> QED BY <1>1, InvHolds, PTL

\* An opening of the dialog sends one assignment, with any number of handlers.
THEOREM OneAssignmentPerOpening == Spec => []SentOncePerOpening
<1>1. Inv => SentOncePerOpening
  BY DEF Inv, TabInv
<1> QED BY <1>1, InvHolds, PTL

\* A commit replaces what the role had, unless another deleted nothing.
THEOREM CommitsReplace == Spec => CommitReplaces
<1> DEFINE Replaces == \A w \in Slot, r \in Owner :
             Commit(w) /\ tx[w].owner = r => Committed(r)' = tx[w].items \/ tx[w].bare
<1>1. Inv /\ [Next]_vars => [Replaces]_vars
  BY CommitLeavesItems DEF Inv
<1> QED BY <1>1, InvHolds, PTL DEF Spec, CommitReplaces

\* Only a commit changes what a reader finds.
THEOREM ReadersSeeWholeAssignments == Spec => SeenWhole
<1> DEFINE Same == \A o \in Owner : Committed(o)' = Committed(o)
           Whole == (\E w \in Slot : Commit(w)) \/ Same
<1>1. ASSUME Inv, Next PROVE Whole
  <2>1. ASSUME UNCHANGED <<rows, tx>> PROVE Same
    BY <2>1 DEF Committed
  <2>2. CASE TabStep
    BY <1>1, <2>1, <2>2, TabStepInv
  <2>3. ASSUME NEW w \in Slot, RunHandler(w) PROVE Whole
    BY <1>1, <2>3, RunHandlerBegins, BeginShowsNothing DEF Inv
  <2>4. ASSUME NEW w \in Slot, NEW r \in Owner, NEW A \in SUBSET Item, OtherAssigns(w, r, A)
        PROVE  Whole
    BY <1>1, <2>4, BeginShowsNothing DEF OtherAssigns, Inv
  <2>5. ASSUME NEW w \in Slot, ServerStep(w) PROVE Whole
    BY <1>1, <2>5, OthersSeeNothing DEF ServerStep, TxStep, Inv
  <2> QED BY <1>1, <2>2, <2>3, <2>4, <2>5 DEF Next, TabStep
<1>2. Inv /\ [Next]_vars => [Whole]_vars
  BY <1>1
<1> QED BY <1>2, InvHolds, PTL DEF Spec, SeenWhole
=============================================================================
