------------------------------ MODULE RolePage ------------------------------
(***************************************************************************)
(* The page on which an administrator lists, adds, renames and removes     *)
(* roles: role.js and my-role.js in one browser tab, the dialogs of        *)
(* Bootstrap it opens, RoleController, RoleServiceImpl and the table       *)
(* role_t, while another administrator changes the same table.             *)
(*                                                                         *)
(* Saving, renaming and removing are asynchronous requests: they are sent, *)
(* executed by the server and answered in steps of their own, in any       *)
(* order.  generatePage is a synchronous request, during which the tab     *)
(* does nothing else.  A dialog that was told to hide stays for the time   *)
(* of its transition, and its button still works.                          *)
(***************************************************************************)
EXTENDS Pagination, Sequences, FiniteSets, Bags

CONSTANTS
    Name,           \* names of roles, none of them part of another
    Blank,          \* the empty string, as name and as keyword
    PageSize,       \* window.pageSize
    MaxRole,        \* bound: ids handed out; then an insert fails
    MaxAjax         \* bound: asynchronous requests not yet answered

ASSUME RoleBounds ==
    PageSize \in Nat \ {0} /\ MaxRole \in Nat \ {0} /\ MaxAjax \in Nat
ASSUME BlankAssumption == Blank \notin Name

VARIABLES
    role_t,         \* the table: name of each role, by id
    nextId,         \* the next id AUTO_INCREMENT hands out
    ajax,           \* bag of the asynchronous requests of the tab
    pageNum, keyword,   \* window.pageNum and window.keyword
    rows,           \* the rows in the table on the screen, << >> for the message of no data
    nav,            \* the page links below it
    checked,        \* ids whose itemBox is checked
    summaryBox,     \* whether summaryBox is checked
    modal,          \* the dialog on the screen
    addInput,       \* the text in the dialog that adds a role
    outdated,       \* history: something else changed the table since it was loaded, or it could not be loaded
    saved           \* history: requests with a name sent since the dialog was opened

db == <<role_t, nextId>>
list == <<pageNum, keyword, rows, nav, checked, outdated>>
dialog == <<modal, addInput, saved>>
vars == <<db, ajax, list, summaryBox, dialog>>

Text == Name \cup {Blank}
RoleId == 1..MaxRole
Row == [id : RoleId, name : Text]

\* A dialog's ids are window.roleId or window.roleIdArray, which opening it
\* sets and only its button reads; its target is the rows it was opened for.
NoModal == [kind |-> "none", shown |-> FALSE, ids |-> {}, text |-> Blank, target |-> {}]
NoNav == [current |-> 0, pages |-> 0]

(***************************************************************************)
(* Plausible bugs.  Each is a definition below with one mistake.           *)
(***************************************************************************)

\* TableFresh: the list not loaded again after roles were removed.
Reloads_notAfterRemove(r) == r.status = "ok" /\ r.op # "remove"

\* OnlyMeantRowsChange: every box collected instead of every checked one.
CheckedIds_allBoxes == {rows[k].id : k \in DOMAIN rows}

\* SavedOncePerOpening: the text left in the dialog after it was sent.
AfterSave_textStays == addInput

\* LinksOfTheList: the page number given to the plugin as it is, from 1.
CurrentPage_fromOne(pn) == pn

\* TypeOK: the page number not kept at 1 or more.
PageAfter_previous(r) == IF r.op = "save" THEN pageNum ELSE pageNum - 1

(***************************************************************************)
(* The list                                                                *)
(***************************************************************************)

\* selectRoleByKeyword: name like %keyword%, in the order of the primary key.
Matching(kw) == {i \in DOMAIN role_t : kw = Blank \/ role_t[i] = kw}
InKeyOrder(ids, k) == CHOOSE id \in ids : Cardinality({i \in ids : i < id}) = k - 1
SelectRoleByKeyword(kw) ==
    [k \in 1..Cardinality(Matching(kw)) |->
        LET id == InKeyOrder(Matching(kw), k) IN [id |-> id, name |-> role_t[id]]]

\* PageHelper: the rows of one page; a page after the last one is empty.
RowsOf(pn, kw) ==
    SubSeq(SelectRoleByKeyword(kw), PageSize * (pn - 1) + 1,
           Least(PageSize * pn, Cardinality(Matching(kw))))

\* generateNavigator, which fillTableBody calls unless there are no rows.
CurrentPage(pn) == pn - 1
NavOf(pn, kw) ==
    IF RowsOf(pn, kw) = << >> THEN NoNav
    ELSE [current |-> CurrentPage(pn),
          pages |-> NumPages(Cardinality(Matching(kw)), PageSize)]

\* The new table body has no box checked.  Without an answer it is empty.
GeneratePage(pn, kw) ==
    \E answered \in BOOLEAN :
        /\ pageNum' = pn
        /\ keyword' = kw
        /\ rows' = IF answered THEN RowsOf(pn, kw) ELSE << >>
        /\ nav' = IF answered THEN NavOf(pn, kw) ELSE NoNav
        /\ checked' = {}
        /\ outdated' = ~answered

RowIds == {rows[k].id : k \in DOMAIN rows}

Init ==
    /\ role_t = << >>
    /\ nextId = 1
    /\ ajax = EmptyBag
    /\ pageNum = 1
    /\ keyword = Blank
    /\ rows = << >>
    /\ nav = NoNav
    /\ checked = {}
    /\ outdated = FALSE
    /\ summaryBox = FALSE
    /\ modal = NoModal
    /\ addInput = Blank
    /\ saved = 0

\* A dialog and its backdrop cover the page until the dialog is gone.
PageUncovered == modal = NoModal

\* searchBtn: the keyword changes, the page number does not.
Search(kw) ==
    /\ PageUncovered
    /\ GeneratePage(pageNum, kw)
    /\ UNCHANGED <<db, ajax, summaryBox, dialog>>

\* pageSelected and paginationCallBack
FollowLink(p) ==
    /\ PageUncovered
    /\ nav # NoNav
    /\ p \in Links(nav.current, nav.pages)
    /\ GeneratePage(p + 1, keyword)
    /\ UNCHANGED <<db, ajax, summaryBox, dialog>>

ClickSummaryBox ==
    /\ PageUncovered
    /\ summaryBox' = ~summaryBox
    /\ checked' = IF summaryBox' THEN RowIds ELSE {}
    /\ UNCHANGED <<db, ajax, pageNum, keyword, rows, nav, outdated, dialog>>

ClickItemBox(id) ==
    /\ PageUncovered
    /\ id \in RowIds
    /\ checked' = IF id \in checked THEN checked \ {id} ELSE checked \cup {id}
    /\ summaryBox' = (checked' = RowIds)
    /\ UNCHANGED <<db, ajax, pageNum, keyword, rows, nav, outdated, dialog>>

(***************************************************************************)
(* The dialogs and what their buttons send                                 *)
(***************************************************************************)
Open(kind, ids, text, target) ==
    /\ modal' = [kind |-> kind, shown |-> TRUE, ids |-> ids, text |-> text, target |-> target]
    /\ saved' = 0

\* Modal.prototype.hide; calling it again changes nothing.
Hide == modal' = [modal EXCEPT !.shown = FALSE]

\* The cross of a dialog, its backdrop and the escape key.
Dismiss ==
    /\ modal.shown
    /\ Hide
    /\ UNCHANGED <<db, ajax, list, summaryBox, addInput, saved>>

\* Modal.prototype.hideModal, at the end of the transition.
HideModal ==
    /\ modal # NoModal /\ ~modal.shown
    /\ modal' = NoModal
    /\ saved' = 0
    /\ UNCHANGED <<db, ajax, list, summaryBox, addInput>>

Send(op, ids, name) ==
    /\ BagCardinality(ajax) < MaxAjax
    /\ ajax' = ajax (+) SetToBag({[op |-> op, ids |-> ids, name |-> name,
                                   meant |-> modal.target, status |-> "sent"]})

ShowAddModal ==
    /\ PageUncovered
    /\ Open("add", {}, Blank, {})
    /\ UNCHANGED <<db, ajax, list, summaryBox, addInput>>

TypeName(n) ==
    /\ modal.shown
    /\ \/ modal.kind = "add" /\ addInput' = n /\ UNCHANGED modal
       \/ modal.kind = "edit" /\ modal' = [modal EXCEPT !.text = n] /\ UNCHANGED addInput
    /\ UNCHANGED <<db, ajax, list, summaryBox, saved>>

AfterSave == Blank

\* saveRoleBtn
SaveRole ==
    /\ modal.kind = "add"
    /\ Send("save", {}, addInput)
    /\ saved' = IF addInput = Blank THEN saved ELSE saved + 1
    /\ addInput' = AfterSave
    /\ Hide
    /\ UNCHANGED <<db, list, summaryBox>>

\* pencilBtn of a row: the text comes from the row, the id from the button.
ClickPencil(k) ==
    /\ PageUncovered
    /\ k \in DOMAIN rows
    /\ Open("edit", {rows[k].id}, rows[k].name, {rows[k].id})
    /\ UNCHANGED <<db, ajax, list, summaryBox, addInput>>

\* updateRoleBtn
UpdateRole ==
    /\ modal.kind = "edit"
    /\ Send("update", modal.ids, modal.text)
    /\ Hide
    /\ UNCHANGED <<db, list, summaryBox, addInput, saved>>

\* showConfirmModal, for the row of a removeBtn or the checked rows
ShowConfirmModal(ids, target) ==
    /\ PageUncovered
    /\ Open("confirm", ids, Blank, target)
    /\ UNCHANGED <<db, ajax, list, summaryBox, addInput>>

ClickRemove(k) ==
    k \in DOMAIN rows /\ ShowConfirmModal({rows[k].id}, {rows[k].id})

\* batchRemoveBtn: without a checked box only a message is shown.
CheckedIds == checked
ClickBatchRemove == CheckedIds # {} /\ ShowConfirmModal(CheckedIds, checked)

\* removeRoleBtn
RemoveRole ==
    /\ modal.kind = "confirm"
    /\ Send("remove", modal.ids, Blank)
    /\ Hide
    /\ UNCHANGED <<db, list, summaryBox, addInput, saved>>

(***************************************************************************)
(* The server executes a request, and its answer comes or is lost.         *)
(***************************************************************************)
insert(name) ==
    /\ nextId <= MaxRole
    /\ role_t' = [i \in DOMAIN role_t \cup {nextId} |->
                    IF i = nextId THEN name ELSE role_t[i]]
    /\ nextId' = nextId + 1
updateByPrimaryKey(ids, name) ==
    /\ role_t' = [i \in DOMAIN role_t |-> IF i \in ids THEN name ELSE role_t[i]]
    /\ UNCHANGED nextId
deleteByIdList(ids) ==
    /\ role_t' = [i \in DOMAIN role_t \ ids |-> role_t[i]]
    /\ UNCHANGED nextId

Execute(r) ==
    \/ r.op = "save" /\ insert(r.name)
    \/ r.op = "update" /\ updateByPrimaryKey(r.ids, r.name)
    \/ r.op = "remove" /\ deleteByIdList(r.ids)

Serve(r, status) ==
    /\ r.status = "sent"
    /\ ajax' = ajax (-) SetToBag({r}) (+) SetToBag({[r EXCEPT !.status = status]})
    /\ UNCHANGED <<pageNum, keyword, rows, nav, checked, summaryBox, dialog>>

Executed(r) == Serve(r, "ok") /\ Execute(r) /\ UNCHANGED outdated
AnswerLost(r) == Serve(r, "error") /\ Execute(r) /\ outdated' = TRUE
Refused(r) == Serve(r, "error") /\ UNCHANGED <<db, outdated>>

\* The success functions: a saved role takes the list back to the first page.
Reloads(r) == r.status = "ok"
PageAfter(r) == IF r.op = "save" THEN 1 ELSE pageNum

Answered(r) ==
    /\ r.status # "sent"
    /\ ajax' = ajax (-) SetToBag({r})
    /\ IF Reloads(r)
       THEN GeneratePage(PageAfter(r), keyword)
       ELSE UNCHANGED list
    /\ UNCHANGED <<db, summaryBox, dialog>>

(***************************************************************************)
(* The page is loaded anew: its variables start again, and answers it      *)
(* waited for are gone.  What the server then still does is like a change  *)
(* by the other administrator.                                             *)
(***************************************************************************)
Revisit ==
    /\ ajax' = EmptyBag
    /\ GeneratePage(1, Blank)
    /\ summaryBox' = FALSE
    /\ modal' = NoModal
    /\ addInput' = Blank
    /\ saved' = 0
    /\ UNCHANGED db

OtherAdmin ==
    /\ \/ \E n \in Text : insert(n)
       \/ \E i \in DOMAIN role_t, n \in Text : updateByPrimaryKey({i}, n)
       \/ \E i \in DOMAIN role_t : deleteByIdList({i})
    /\ outdated' = TRUE
    /\ UNCHANGED <<ajax, pageNum, keyword, rows, nav, checked, summaryBox, dialog>>

Next ==
    \/ \E kw \in Text : Search(kw)
    \/ \E p \in 0..MaxRole : FollowLink(p)
    \/ ClickSummaryBox
    \/ \E id \in RoleId : ClickItemBox(id)
    \/ Dismiss \/ HideModal
    \/ ShowAddModal \/ SaveRole
    \/ \E n \in Text : TypeName(n)
    \/ \E k \in 1..PageSize : ClickPencil(k) \/ ClickRemove(k)
    \/ UpdateRole
    \/ ClickBatchRemove \/ RemoveRole
    \/ \E r \in DOMAIN ajax : Executed(r) \/ AnswerLost(r) \/ Refused(r) \/ Answered(r)
    \/ Revisit
    \/ OtherAdmin

Spec == Init /\ [][Next]_vars

-----------------------------------------------------------------------------
AjaxRequest == [op : {"save", "update", "remove"}, ids : SUBSET RoleId, name : Text,
                meant : SUBSET RoleId, status : {"sent", "ok", "error"}]
Modal == [kind : {"none", "add", "edit", "confirm"}, shown : BOOLEAN,
          ids : SUBSET RoleId, text : Text, target : SUBSET RoleId]

\* The variables have the types of the columns and of the script's values.
TypeOK ==
    /\ DOMAIN role_t \subseteq 1..nextId - 1
    /\ \A i \in DOMAIN role_t : role_t[i] \in Text
    /\ nextId \in 1..MaxRole + 1
    /\ IsABag(ajax) /\ BagToSet(ajax) \subseteq AjaxRequest
    /\ pageNum \in 1..MaxRole /\ keyword \in Text
    /\ rows \in Seq(Row) /\ Len(rows) <= PageSize
    /\ nav \in [current : 0..MaxRole, pages : 0..MaxRole]
    /\ checked \subseteq RowIds
    /\ summaryBox \in BOOLEAN /\ outdated \in BOOLEAN
    /\ modal \in Modal
    /\ addInput \in Text
    /\ saved \in Nat

\* Once every request is answered the list on the screen is that of the
\* table, whatever answers came in whatever order, unless the other
\* administrator or a failed request came after the last load.
TableFresh ==
    ajax = EmptyBag /\ ~outdated =>
        rows = RowsOf(pageNum, keyword) /\ nav = NavOf(pageNum, keyword)

\* The links below the table belong to it: the current page is pageNum, is in
\* the interval that is drawn, and every page without a number is one an
\* ellipsis stands for.
LinksOfTheList ==
    nav # NoNav =>
        nav.current = pageNum - 1 /\ NavigatorWhole(nav.current, nav.pages)

\* A role that changes or disappears is changed by the other administrator, or
\* is one whose button or box opened the dialog this tab sent the request from.
OnlyMeantRowsChange ==
    [][\/ OtherAdmin
       \/ \A i \in DOMAIN role_t :
            (i \notin DOMAIN role_t' \/ role_t'[i] # role_t[i]) =>
                \E r \in DOMAIN ajax : r.status = "sent" /\ i \in r.meant]_vars

\* A name that was typed is sent once, however often the button is clicked
\* before the dialog is gone.
SavedOncePerOpening == saved <= 1

\* The message of no data is shown only where no role matches the keyword.
NoDataMeansNone ==
    rows = << >> /\ ajax = EmptyBag /\ ~outdated => Matching(keyword) = {}
=============================================================================
