------------------------------ MODULE MenuPage ------------------------------
(***************************************************************************)
(* The page on which an administrator edits the tree of menus:             *)
(* menu-page.html and my-menu.js in one browser tab, MenuController and    *)
(* MenuServiceImp behind it, and the table menu_t, which another           *)
(* administrator changes too.                                              *)
(*                                                                         *)
(* Everything the tab asks of the server is asynchronous: a change is      *)
(* sent, executed and answered, its answer sends a request for the whole   *)
(* tree, which is read and answered in turn, and answers come in any       *)
(* order.  The buttons of a node depend on its level in the tree on the    *)
(* screen and on the children it has there.                                *)
(*                                                                         *)
(* The name, url and icon of a menu are one text.  The second copy of the  *)
(* tree, in the sidebar, has no buttons and is left out.                   *)
(***************************************************************************)
EXTENDS Integers, Sequences, SequencesExt

CONSTANTS
    Text,
    FirstMenus,     \* the parents of the menus the schema inserts, 0 for the root's
    MaxMenu,        \* bound: ids handed out, after which an insert fails
    MaxAjax         \* bound: requests not yet answered

MenuId == 1..MaxMenu
Root == 1

ASSUME MenuBounds == MaxMenu \in Nat \ {0} /\ MaxAjax \in Nat \ {0}
ASSUME FirstMenusAssumption ==
    /\ FirstMenus \in Seq(0..MaxMenu) /\ Len(FirstMenus) \in MenuId
    /\ FirstMenus[Root] = 0
    /\ \A i \in DOMAIN FirstMenus \ {Root} :
         /\ FirstMenus[i] \in 1..i - 1
         /\ FirstMenus[i] = Root \/ FirstMenus[FirstMenus[i]] = Root
ASSUME TextAssumption == Text # {}

VARIABLES
    menu_t,     \* the table: parent and text of each menu, by id
    nextId,     \* the next id AUTO_INCREMENT hands out
    tree,       \* the tree on the screen: the rows it was drawn from
    ajax,       \* the requests of the tab, in the order they were sent
    modal,      \* the dialog on the screen, with window.pid or window.id
    outdated,   \* history: the tree was drawn from an answer that was not the
                \* latest, or the other administrator has changed the table since
    raced       \* history: a node was clicked in a tree that was outdated or about
                \* to be, or the other administrator was faster than a click

vars == <<menu_t, nextId, tree, ajax, modal, outdated, raced>>

Row == [pid : 0..MaxMenu, text : Text]
NoRows == << >>
NoModal == [kind |-> "none", shown |-> FALSE, id |-> 0]
Request(op, id, text) ==
    [op |-> op, id |-> id, text |-> text, status |-> "sent", rows |-> NoRows, late |-> FALSE]
AnyText == CHOOSE t \in Text : TRUE
GenerateTree == Request("tree", 0, AnyText)

Init ==
    /\ menu_t = [i \in DOMAIN FirstMenus |-> [pid |-> FirstMenus[i], text |-> AnyText]]
    /\ nextId = Len(FirstMenus) + 1
    /\ tree = NoRows
    /\ ajax = <<GenerateTree>>
    /\ modal = NoModal
    /\ outdated = FALSE
    /\ raced = FALSE

Children(rows, id) == {i \in DOMAIN rows : rows[i].pid = id}
Level(rows, id) ==
    IF id = Root THEN 0 ELSE IF rows[id].pid = Root THEN 1 ELSE 2

\* getTree looks up the parent of every menu that has one, and fails without it.
EveryParentFound == \A i \in DOMAIN menu_t : menu_t[i].pid \in DOMAIN menu_t \cup {0}

(***************************************************************************)
(* Plausible bugs.  Each is a definition below with one mistake.           *)
(***************************************************************************)

\* TreeWholeUnlessRaced: the children of a branch not looked at.
HasRemoveBtn_always(id) == Level(tree, id) > 0

\* TreeFresh: the tree asked for together with the change, not after its answer.
Follow_nothing(r) == << >>

\* TypeOK: the counter of ids not advanced.
insert_sameId(pid, text) ==
    /\ nextId \in MenuId
    /\ menu_t' = [i \in DOMAIN menu_t \cup {nextId} |->
                    IF i = nextId THEN [pid |-> pid, text |-> text] ELSE menu_t[i]]
    /\ UNCHANGED nextId

(***************************************************************************)
(* The tab.  A dialog and its backdrop cover the tree until the dialog is  *)
(* gone; told to hide, it stays for a moment and its button still works.   *)
(***************************************************************************)
HasAddBtn(id) == Level(tree, id) < 2
HasEditBtn(id) == Level(tree, id) > 0
HasRemoveBtn(id) ==
    \/ Level(tree, id) = 1 /\ Children(tree, id) = {}
    \/ Level(tree, id) = 2

Click(kind, id) ==
    /\ modal = NoModal
    /\ id \in DOMAIN tree
    /\ modal' = [kind |-> kind, shown |-> TRUE, id |-> id]
    /\ raced' = (raced \/ outdated \/ ajax # << >>)
    /\ UNCHANGED <<menu_t, nextId, tree, ajax, outdated>>

ClickAdd(id) == Click("add", id) /\ HasAddBtn(id)
ClickEdit(id) == Click("edit", id) /\ HasEditBtn(id)
ClickRemove(id) == Click("confirm", id) /\ HasRemoveBtn(id)

Dismiss ==
    /\ modal.shown
    /\ modal' = [modal EXCEPT !.shown = FALSE]
    /\ UNCHANGED <<menu_t, nextId, tree, ajax, outdated, raced>>

HideModal ==
    /\ modal # NoModal /\ ~modal.shown
    /\ modal' = NoModal
    /\ UNCHANGED <<menu_t, nextId, tree, ajax, outdated, raced>>

Send(kind, op, text) ==
    /\ modal.kind = kind
    /\ Len(ajax) < MaxAjax
    /\ ajax' = Append(ajax, Request(op, modal.id, text))
    /\ modal' = [modal EXCEPT !.shown = FALSE]
    /\ UNCHANGED <<menu_t, nextId, tree, outdated, raced>>

\* menuSaveBtn, menuEditBtn, confirmBtn
SaveMenu == \E t \in Text : Send("add", "save", t)
EditMenu == \E t \in Text : Send("edit", "update", t)
ConfirmRemove == Send("confirm", "remove", AnyText)

(***************************************************************************)
(* The server.  Any request may fail without an effect; the answer to a    *)
(* change may also be lost.                                                *)
(***************************************************************************)
insert(pid, text) ==
    /\ nextId \in MenuId
    /\ menu_t' = [i \in DOMAIN menu_t \cup {nextId} |->
                    IF i = nextId THEN [pid |-> pid, text |-> text] ELSE menu_t[i]]
    /\ nextId' = nextId + 1

\* pid is null in the form, so that the parent stays.
updateByPrimaryKeySelective(id, text) ==
    /\ menu_t' = [i \in DOMAIN menu_t |->
                    IF i = id THEN [menu_t[i] EXCEPT !.text = text] ELSE menu_t[i]]
    /\ UNCHANGED nextId

deleteByPrimaryKey(id) ==
    /\ menu_t' = [i \in DOMAIN menu_t \ {id} |-> menu_t[i]]
    /\ UNCHANGED nextId

Execute(r) ==
    \/ r.op = "save" /\ insert(r.id, r.text)
    \/ r.op = "update" /\ updateByPrimaryKeySelective(r.id, r.text)
    \/ r.op = "remove" /\ deleteByPrimaryKey(r.id)

Status(i, status) ==
    /\ ajax[i].status = "sent"
    /\ ajax' = [ajax EXCEPT ![i].status = status]

\* No request for the tree follows this change: trees read before it are late.
ReadBefore(q) == [k \in DOMAIN q |->
    [q[k] EXCEPT !.late = @ \/ (q[k].op = "tree" /\ q[k].status = "ok")]]

Executed(i) ==
    /\ Status(i, "ok") /\ Execute(ajax[i])
    /\ UNCHANGED <<tree, modal, outdated, raced>>
AnswerLost(i) ==
    /\ ajax[i].status = "sent"
    /\ Execute(ajax[i])
    /\ ajax' = ReadBefore([ajax EXCEPT ![i].status = "error"])
    /\ outdated' = TRUE
    /\ UNCHANGED <<tree, modal, raced>>
Refused(i) ==
    /\ Status(i, "error")
    /\ UNCHANGED <<menu_t, nextId, tree, modal, outdated, raced>>

GetTree(i) ==
    /\ ajax[i].op = "tree" /\ ajax[i].status = "sent"
    /\ EveryParentFound
    /\ ajax' = [ajax EXCEPT ![i].status = "ok", ![i].rows = menu_t]
    /\ UNCHANGED <<menu_t, nextId, tree, modal, outdated, raced>>

GetTreeFails(i) == ~EveryParentFound /\ ajax[i].op = "tree" /\ Refused(i)

(***************************************************************************)
(* The answers.  A change that succeeded is followed by a request for the  *)
(* tree; a tree is drawn when it comes, even after one asked for later.    *)
(***************************************************************************)
Follow(r) == IF r.status = "ok" THEN <<GenerateTree>> ELSE << >>

ChangeAnswered(i) ==
    /\ ajax[i].op # "tree" /\ ajax[i].status # "sent"
    /\ ajax' = RemoveAt(ajax, i) \o Follow(ajax[i])
    /\ UNCHANGED <<menu_t, nextId, tree, modal, outdated, raced>>

Overtake(i) == [k \in DOMAIN ajax |->
    IF k < i /\ ajax[k].op = "tree" THEN [ajax[k] EXCEPT !.late = TRUE] ELSE ajax[k]]

TreeAnswered(i) ==
    /\ ajax[i].op = "tree" /\ ajax[i].status # "sent"
    /\ ajax' = RemoveAt(Overtake(i), i)
    /\ \/ ajax[i].status = "ok" /\ tree' = ajax[i].rows /\ outdated' = ajax[i].late
       \/ ajax[i].status = "error" /\ outdated' = TRUE /\ UNCHANGED tree
    /\ UNCHANGED <<menu_t, nextId, modal, raced>>

(***************************************************************************)
(* The page is loaded anew; requests it still waited for are, if they are  *)
(* executed, like changes by the other administrator.                      *)
(***************************************************************************)
Revisit ==
    /\ tree' = NoRows
    /\ ajax' = <<GenerateTree>>
    /\ modal' = NoModal
    /\ outdated' = FALSE
    /\ raced' = (raced \/ ajax # << >>)
    /\ UNCHANGED <<menu_t, nextId>>

OtherAdmin ==
    /\ \/ \E i \in DOMAIN menu_t, t \in Text : Level(menu_t, i) < 2 /\ insert(i, t)
       \/ \E i \in DOMAIN menu_t \ {Root}, t \in Text : updateByPrimaryKeySelective(i, t)
       \/ \E i \in DOMAIN menu_t \ {Root} :
            Children(menu_t, i) = {} /\ deleteByPrimaryKey(i)
    /\ ajax' = ReadBefore(ajax)
    /\ outdated' = TRUE
    /\ raced' = (raced \/ modal # NoModal \/ ajax # << >>)
    /\ UNCHANGED <<tree, modal>>

Next ==
    \/ \E i \in MenuId : ClickAdd(i) \/ ClickEdit(i) \/ ClickRemove(i)
    \/ Dismiss \/ HideModal
    \/ SaveMenu \/ EditMenu \/ ConfirmRemove
    \/ \E i \in DOMAIN ajax :
         \/ Executed(i) \/ AnswerLost(i) \/ Refused(i)
         \/ GetTree(i) \/ GetTreeFails(i)
         \/ ChangeAnswered(i) \/ TreeAnswered(i)
    \/ Revisit
    \/ OtherAdmin

Spec == Init /\ [][Next]_vars

-----------------------------------------------------------------------------
RowTable == UNION {[ids -> Row] : ids \in SUBSET MenuId}
RequestRecord == [op : {"tree", "save", "update", "remove"}, id : 0..MaxMenu,
                  text : Text, status : {"sent", "ok", "error"},
                  rows : RowTable, late : BOOLEAN]

\* The variables have the types of the columns and of the script's values, and
\* the root is never gone.
TypeOK ==
    /\ menu_t \in RowTable /\ tree \in RowTable
    /\ Root \in DOMAIN menu_t
    /\ DOMAIN menu_t \subseteq 1..nextId - 1
    /\ nextId \in 1..MaxMenu + 1
    /\ ajax \in Seq(RequestRecord) /\ Len(ajax) <= MaxAjax
    /\ modal \in [kind : {"none", "add", "edit", "confirm"}, shown : BOOLEAN, id : 0..MaxMenu]
    /\ outdated \in BOOLEAN /\ raced \in BOOLEAN

\* Every menu but the root has a parent, so that getTree can put it there.
TreeWhole == EveryParentFound

\* As long as every click was made in a tree that showed the table, and nobody
\* else was faster, the buttons keep the tree whole.
TreeWholeUnlessRaced == ~raced => TreeWhole

\* When the tab waits for nothing, its tree is the table: whatever was changed
\* is drawn, unless a later answer was overtaken by an earlier one, a request
\* failed, or the other administrator came after it.
TreeFresh == ajax = << >> /\ ~outdated => tree = menu_t
=============================================================================
