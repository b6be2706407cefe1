----------------------------- MODULE RoleAssign -----------------------------
(***************************************************************************)
(* The dialog in which an administrator checks the authorities of a role:  *)
(* the end of role.js (the button checkBtn of a row and fillAuthTree), in  *)
(* one browser tab, with RoleAssignAuth and AuthServiceImp behind it and   *)
(* other administrators that assign authorities to the same roles.         *)
(*                                                                         *)
(* Opening the dialog reads all authorities and those of the role in two   *)
(* synchronous requests.  A status other than 200 is shown in a message.   *)
(* An exception of the server is not: it is answered with status 200 and   *)
(* no data, which the script takes for data.  After both reads one more    *)
(* handler is bound to assignBtn; none is ever unbound.  Roles are the     *)
(* owners and authorities the items of Assignment.  What zTree checks      *)
(* along with a node is not modelled: any set may be checked.              *)
(***************************************************************************)
EXTENDS Assignment, Naturals

CONSTANTS
    MaxHandlers     \* bound: openings of the dialog between two loads of the page

ASSUME HandlerBound == MaxHandlers \in Nat

VARIABLES
    dialog,     \* assignModal: "none", "shown" or, told to hide, "hiding"
    roleId,     \* window.roleId
    tree,       \* the zTree authTreeDemo: its nodes, what is checked, whose authorities were read into it
    handlers,   \* click handlers bound to assignBtn
    toRun,      \* handlers of the current click that have not run yet
    reads,      \* history: how the requests of the last opening were answered
    sent        \* history: assignments sent since the last opening

tab == <<dialog, roleId, tree, handlers, toRun, reads, sent>>
vars == <<rows, tx, tab>>

\* Answers to a request: "refused" has another status than 200, and "failed" is
\* what ExceptionsHandlingTools.resolve answers, status 200 and data null.
Answer == {"ok", "refused", "failed"}

NoTree == [exists |-> FALSE, of |-> NoOwner, nodes |-> {}, checked |-> {}]
Tree(role, nodes, checked) ==
    [exists |-> TRUE, of |-> role, nodes |-> nodes, checked |-> checked]

Init ==
    /\ AssignmentInit
    /\ dialog = "none"
    /\ roleId = NoOwner
    /\ tree = NoTree
    /\ handlers = 0
    /\ toRun = 0
    /\ reads = "ok"
    /\ sent = 0

(***************************************************************************)
(* Plausible bugs.  Each is a definition below with one mistake.           *)
(***************************************************************************)

\* SentOncePerOpening: zTree.destroy left out.
TreeAfterSend_kept == tree

\* TreeIsOfRole: zTree.init called after the second request, not before it.
TreeBeforeOwn_old(all) == tree

\* TypeOK: a handler that fails still lets the next one run.
AfterFailure_goesOn == toRun + 1

(***************************************************************************)
(* The tab                                                                 *)
(***************************************************************************)
Idle == toRun = 0       \* scripts run to their end before the next event

\* zTree.init, without data for a tree without nodes.
TreeBeforeOwn(all) == Tree(NoOwner, IF all = "ok" THEN Item ELSE {}, {})

\* The authorities of the role are checked one by one; a null in place of the
\* list, or of the node of one of them, ends the script without a message.
Fills(role, all, own) == own = "ok" /\ (all = "ok" \/ Committed(role) = {})

Worse(all, own) ==
    IF "refused" \in {all, own} THEN "refused"
    ELSE IF "failed" \in {all, own} THEN "failed" ELSE "ok"

\* checkBtn and fillAuthTree, with the answers to the two requests.
ClickCheck(role, all, own) ==
    /\ Idle
    /\ dialog = "none"
    /\ dialog' = "shown"
    /\ roleId' = role
    /\ sent' = 0
    /\ reads' = Worse(all, own)
    /\ \/ all = "refused" /\ UNCHANGED <<tree, handlers>>
       \/ /\ all # "refused"
          /\ ~Fills(role, all, own)
          /\ tree' = TreeBeforeOwn(all)
          /\ UNCHANGED handlers
       \/ /\ all # "refused"
          /\ Fills(role, all, own)
          /\ handlers < MaxHandlers
          /\ tree' = Tree(role, TreeBeforeOwn(all).nodes, Committed(role))
          /\ handlers' = handlers + 1
    /\ UNCHANGED <<rows, tx, toRun>>

CheckNodes(auths) ==
    /\ Idle
    /\ dialog = "shown"
    /\ tree.exists
    /\ auths \subseteq tree.nodes
    /\ tree' = [tree EXCEPT !.checked = auths]
    /\ UNCHANGED <<rows, tx, dialog, roleId, handlers, toRun, reads, sent>>

Dismiss ==
    /\ Idle
    /\ dialog = "shown"
    /\ dialog' = "hiding"
    /\ UNCHANGED <<rows, tx, roleId, tree, handlers, toRun, reads, sent>>

HideModal ==
    /\ Idle
    /\ dialog = "hiding"
    /\ dialog' = "none"
    /\ UNCHANGED <<rows, tx, roleId, tree, handlers, toRun, reads, sent>>

\* A click runs every handler that was bound, in order.
ClickAssign ==
    /\ Idle
    /\ dialog # "none"
    /\ toRun' = handlers
    /\ UNCHANGED <<rows, tx, dialog, roleId, tree, handlers, reads, sent>>

TreeAfterSend == NoTree

\* The handler collects the checked nodes, sends them and destroys the tree.
RunHandler(w) ==
    /\ toRun > 0
    /\ tree.exists
    /\ Begin(w, roleId, tree.checked)
    /\ tree' = TreeAfterSend
    /\ dialog' = "hiding"
    /\ sent' = sent + 1
    /\ toRun' = toRun - 1
    /\ UNCHANGED <<roleId, handlers, reads>>

\* Without a tree getCheckedNodes fails, and no further handler runs.
AfterFailure == 0
HandlerFails ==
    /\ toRun > 0
    /\ ~tree.exists
    /\ toRun' = AfterFailure
    /\ UNCHANGED <<rows, tx, dialog, roleId, tree, handlers, reads, sent>>

\* The page is loaded anew.
Revisit ==
    /\ Idle
    /\ dialog' = "none"
    /\ roleId' = NoOwner
    /\ tree' = NoTree
    /\ handlers' = 0
    /\ reads' = "ok"
    /\ sent' = 0
    /\ UNCHANGED <<rows, tx, toRun>>

OtherAssigns(w, role, auths) == Begin(w, role, auths) /\ UNCHANGED tab

ServerStep(w) == TxStep(w) /\ UNCHANGED tab

Next ==
    \/ \E r \in Owner, all, own \in Answer : ClickCheck(r, all, own)
    \/ \E A \in SUBSET Item : CheckNodes(A)
    \/ Dismiss \/ HideModal \/ ClickAssign \/ HandlerFails \/ Revisit
    \/ \E w \in Slot :
         \/ RunHandler(w)
         \/ \E r \in Owner, A \in SUBSET Item : OtherAssigns(w, r, A)
         \/ ServerStep(w)

Spec == Init /\ [][Next]_vars

-----------------------------------------------------------------------------
\* The variables have the types of the script's values and of the table.
TypeOK ==
    /\ AssignmentTypeOK
    /\ dialog \in {"none", "shown", "hiding"}
    /\ roleId \in Owner \cup {NoOwner}
    /\ tree \in [exists : BOOLEAN, of : Owner \cup {NoOwner},
                nodes : SUBSET Item, checked : SUBSET Item]
    /\ tree.checked \subseteq tree.nodes
    /\ handlers \in 0..MaxHandlers
    /\ toRun \in 0..handlers
    /\ reads \in Answer
    /\ sent \in Nat

\* The tree whose checked nodes assignBtn sends for window.roleId is that of
\* the role once both requests were answered.  If one of them failed on the
\* server, of which the administrator is not told, it may be a tree into which
\* nothing was read, but never that of another role; such a one stays only if
\* a message told him that a request was refused.
TreeIsOfRole ==
    dialog # "none" /\ tree.exists =>
        \/ tree.of = roleId
        \/ tree.of = NoOwner /\ reads # "ok"
        \/ reads = "refused"

\* However many handlers earlier openings left on assignBtn and however often
\* it is clicked, one opening of the dialog sends one assignment.
SentOncePerOpening == sent <= 1

\* When an assignment is committed the role has the authorities it names and
\* no others; two are only joined when one of them deleted while the role had
\* none at all.
CommitReplaces ==
    [][\A w \in Slot, r \in Owner :
         Commit(w) /\ tx[w].owner = r =>
             Committed(r)' = tx[w].items \/ tx[w].bare]_vars

\* Between two commits every reader finds the same authorities: nobody sees a
\* role between the deletion of its old authorities and the new ones.
SeenWhole ==
    [][\/ \E w \in Slot : Commit(w)
       \/ \A o \in Owner : Committed(o)' = Committed(o)]_vars
=============================================================================
