--------------------------- MODULE RolePageProofs ---------------------------
(***************************************************************************)
(* That the links of the page of roles always belong to its list, that the *)
(* list is that of the table once every request is answered, that a name   *)
(* is sent once, that only the rows that were meant change, and the types: *)
(* for a table of any length, pages of any size, links of any number and   *)
(* any number of requests under way.                                       *)
(***************************************************************************)
EXTENDS RolePage, FiniteSetTheorems, SequenceTheorems, Functions, TLAPS

\* Half the links are at least one, and twice that are all of them.
LEMMA HalfBounds ==
    NeHalf \in Nat \ {0} /\ NumDisplay <= 2 * NeHalf
BY PaginationAssumption, SMT DEF NeHalf, CeilDiv

\* The interval is within the pages and holds the current one.
LEMMA IntervalAround ==
    ASSUME NEW np \in Nat, NEW cp \in 0..np - 1
    PROVE  /\ IntervalStart(cp, np) \in 0..cp
           /\ IntervalEnd(cp, np) \in cp + 1..np
<1>1. CASE cp > NeHalf
  BY <1>1, HalfBounds, PaginationAssumption, SMT
     DEF IntervalStart, IntervalEnd, Least, Greatest
<1>2. CASE ~(cp > NeHalf)
  <2>1. cp < NumDisplay
    BY <1>2, PaginationAssumption, SMT DEF NeHalf, CeilDiv
  <2> QED
    BY <1>2, <2>1, HalfBounds, PaginationAssumption, SMT
       DEF IntervalStart, IntervalEnd, Least, Greatest
<1> QED
  BY <1>1, <1>2

\* The navigator shows or stands for every page, and links to nothing else.
THEOREM NavigatorIsWhole ==
    ASSUME NEW np \in Nat, NEW cp \in 0..np - 1
    PROVE  NavigatorWhole(cp, np)
<1> DEFINE s == IntervalStart(cp, np)
           e == IntervalEnd(cp, np)
<1>1. s \in 0..cp /\ e \in cp + 1..np
  BY IntervalAround
<1>2. cp \in Interval(cp, np)
  BY <1>1, SMT DEF Interval
<1>3. Links(cp, np) \subseteq 0..np - 1
  BY <1>1, PaginationAssumption, SMT
     DEF Links, NumberedPages, FirstPages, Interval, LastPages, LinkTarget, Least, Greatest
<1>4. ASSUME NEW p \in 0..np - 1, p \notin NumberedPages(cp, np)
      PROVE  \/ p < cp /\ EllipsisBefore(cp, np)
             \/ p > cp /\ EllipsisAfter(cp, np)
  BY <1>1, <1>4, PaginationAssumption, SMT
     DEF NumberedPages, FirstPages, Interval, LastPages, EllipsisBefore, EllipsisAfter, Least, Greatest
<1> QED
  BY <1>2, <1>3, <1>4 DEF NavigatorWhole

-----------------------------------------------------------------------------
\* With n rows in pages of a size, what begins before the n-th row is a page.
LEMMA PageExists ==
    ASSUME NEW n \in Nat, NEW size \in Nat \ {0}, NEW k \in Nat, size * k < n
    PROVE  NumPages(n, size) \in Nat /\ k < NumPages(n, size)
<1> DEFINE q == (n + size - 1) \div size
<1>1. n >= 1 /\ NumPages(n, size) = q
  BY SMT DEF NumPages, CeilDiv, Greatest
<1>2. q \in Int /\ size * q <= n + size - 1 /\ n + size - 1 < size * q + size
  BY <1>1, SMT
<1> HIDE DEF q
<1>3. size * k < size * q
  BY <1>2, SMT
<1>4. k < q
  <2>1. SUFFICES ASSUME q <= k PROVE FALSE
    BY <1>2
  <2>2. PICK d \in Nat : k = q + d
    BY <1>2, <2>1
  <2>3. size * k = size * q + size * d /\ size * d >= 0
    BY <1>2, <2>2, SMT
  <2> QED BY <1>2, <1>3, <2>3, SMT
<1> QED BY <1>1, <1>2, <1>4

(***************************************************************************)
(* The table is finite, and whenever links are drawn the current page is   *)
(* one of them, because its first row is in the list.                      *)
(***************************************************************************)
LinksInv ==
    /\ IsFiniteSet(DOMAIN role_t)
    /\ pageNum \in Nat \ {0}
    /\ nav # NoNav =>
         /\ nav.current = pageNum - 1
         /\ nav.pages \in Nat
         /\ nav.current < nav.pages

LEMMA NavRight ==
    ASSUME IsFiniteSet(DOMAIN role_t), NEW pn \in Nat \ {0}, NEW kw,
           NavOf(pn, kw) # NoNav
    PROVE  LET nv == NavOf(pn, kw)
           IN  nv.current = pn - 1 /\ nv.pages \in Nat /\ nv.current < nv.pages
<1> DEFINE n == Cardinality(Matching(kw))
<1>1. n \in Nat
  <2>1. Matching(kw) \subseteq DOMAIN role_t
    BY DEF Matching
  <2> QED BY <2>1, FS_Subset, FS_CardinalityType
<1>2. RowsOf(pn, kw) # << >>
  BY DEF NavOf
<1> DEFINE first == PageSize * (pn - 1) + 1
           last == Least(PageSize * pn, n)
<1>3. first \in Int /\ last \in Int /\ last <= n
  BY <1>1, RoleBounds, SMT DEF Least
<1>4. first <= last
  <2>1. last < first => SubSeq(SelectRoleByKeyword(kw), first, last) = << >>
    BY <1>3, SubSeqEmpty
  <2> QED BY <1>2, <1>3, <2>1 DEF RowsOf
<1>5. PageSize * (pn - 1) < n /\ pn - 1 \in Nat
  <2>1. PageSize * (pn - 1) \in Int
    BY RoleBounds
  <2> QED BY <1>1, <1>3, <1>4, <2>1
<1>6. NumPages(n, PageSize) \in Nat /\ pn - 1 < NumPages(n, PageSize)
  BY <1>1, <1>5, PageExists, RoleBounds
<1> QED BY <1>2, <1>6 DEF NavOf, CurrentPage
LEMMA GeneratePageLinks ==
    ASSUME LinksInv, NEW pn \in Nat \ {0}, NEW kw, GeneratePage(pn, kw)
    PROVE  pageNum' = pn /\ (nav' # NoNav =>
               nav'.current = pn - 1 /\ nav'.pages \in Nat /\ nav'.current < nav'.pages)
<1>1. pageNum' = pn /\ nav' \in {NavOf(pn, kw), NoNav}
  BY DEF GeneratePage
<1> QED BY <1>1, NavRight DEF LinksInv

\* Every change of the table adds or removes finitely many rows.
LEMMA TableFinite ==
    ASSUME IsFiniteSet(DOMAIN role_t)
    PROVE  /\ \A n : insert(n) => IsFiniteSet(DOMAIN role_t')
           /\ \A ids, n : updateByPrimaryKey(ids, n) => IsFiniteSet(DOMAIN role_t')
           /\ \A ids : deleteByIdList(ids) => IsFiniteSet(DOMAIN role_t')
<1>1. ASSUME NEW n, insert(n) PROVE IsFiniteSet(DOMAIN role_t')
  BY <1>1, FS_AddElement DEF insert
<1>2. ASSUME NEW ids, NEW n, updateByPrimaryKey(ids, n) PROVE IsFiniteSet(DOMAIN role_t')
  BY <1>2 DEF updateByPrimaryKey
<1>3. ASSUME NEW ids, deleteByIdList(ids) PROVE IsFiniteSet(DOMAIN role_t')
  <2>1. DOMAIN role_t' = DOMAIN role_t \ ids
    BY <1>3 DEF deleteByIdList
  <2>2. DOMAIN role_t' \subseteq DOMAIN role_t
    BY <2>1
  <2> QED BY <2>2, FS_Subset
<1> QED BY <1>1, <1>2, <1>3

LEMMA LinksInit == Init => LinksInv
BY FS_EmptySet DEF Init, LinksInv

LEMMA LinksKept ==
    ASSUME LinksInv, IsFiniteSet(DOMAIN role_t'), UNCHANGED <<pageNum, nav>>
    PROVE  LinksInv'
BY DEF LinksInv

LEMMA LinksReloaded ==
    ASSUME LinksInv, UNCHANGED role_t, NEW pn \in Nat \ {0}, NEW kw, GeneratePage(pn, kw)
    PROVE  LinksInv'
BY GeneratePageLinks DEF LinksInv

LEMMA LinksStep == LinksInv /\ [Next]_vars => LinksInv'
<1> SUFFICES ASSUME LinksInv, [Next]_vars PROVE LinksInv'
  OBVIOUS
<1> USE DEF db, list
<1>1. IsFiniteSet(DOMAIN role_t) /\ pageNum \in Nat \ {0}
  BY DEF LinksInv
<1>2. ASSUME UNCHANGED <<role_t, pageNum, nav>> PROVE LinksInv'
  BY <1>1, <1>2, LinksKept
<1>3. ASSUME NEW kw \in Text, Search(kw) PROVE LinksInv'
  BY <1>1, <1>3, LinksReloaded DEF Search
<1>4. ASSUME NEW p \in 0..MaxRole, FollowLink(p) PROVE LinksInv'
  <2>1. p + 1 \in Nat \ {0}
    BY RoleBounds
  <2> QED BY <1>4, <2>1, LinksReloaded DEF FollowLink
<1>5. CASE ClickSummaryBox
  BY <1>2, <1>5 DEF ClickSummaryBox
<1>6. ASSUME NEW id \in RoleId, ClickItemBox(id) PROVE LinksInv'
  BY <1>2, <1>6 DEF ClickItemBox
<1>7. CASE Dismiss \/ HideModal \/ ShowAddModal \/ SaveRole \/ UpdateRole \/ RemoveRole
  BY <1>2, <1>7 DEF Dismiss, HideModal, ShowAddModal, SaveRole, UpdateRole, RemoveRole
<1>8. ASSUME NEW n \in Text, TypeName(n) PROVE LinksInv'
  BY <1>2, <1>8 DEF TypeName
<1>9. ASSUME NEW k \in 1..PageSize, ClickPencil(k) \/ ClickRemove(k) PROVE LinksInv'
  BY <1>2, <1>9 DEF ClickPencil, ClickRemove, ShowConfirmModal
<1>10. CASE ClickBatchRemove
  BY <1>2, <1>10 DEF ClickBatchRemove, ShowConfirmModal
<1>11. ASSUME NEW r \in DOMAIN ajax, Executed(r) \/ AnswerLost(r) PROVE LinksInv'
  <2>1. IsFiniteSet(DOMAIN role_t')
    BY <1>1, <1>11, TableFinite DEF Executed, AnswerLost, Execute
  <2> QED BY <1>11, <2>1, LinksKept DEF Executed, AnswerLost, Serve
<1>12. ASSUME NEW r \in DOMAIN ajax, Refused(r) PROVE LinksInv'
  BY <1>2, <1>12 DEF Refused, Serve
<1>13. ASSUME NEW r \in DOMAIN ajax, Answered(r) PROVE LinksInv'
  <2>1. PageAfter(r) \in Nat \ {0}
    BY <1>1 DEF PageAfter
  <2> QED BY <1>2, <1>13, <2>1, LinksReloaded DEF Answered
<1>14. CASE Revisit
  BY <1>14, LinksReloaded DEF Revisit
<1>15. CASE OtherAdmin
  <2>1. IsFiniteSet(DOMAIN role_t')
    BY <1>1, <1>15, TableFinite DEF OtherAdmin
  <2> QED BY <1>15, <2>1, LinksKept DEF OtherAdmin
<1>16. CASE UNCHANGED vars
  BY <1>2, <1>16 DEF vars
<1> QED BY <1>3, <1>4, <1>5, <1>6, <1>7, <1>8, <1>9, <1>10, <1>11, <1>12, <1>13, <1>14,
           <1>15, <1>16 DEF Next

\* The links below the table are those of the list, however it was reached.
THEOREM LinksAlwaysOfTheList == Spec => []LinksOfTheList
<1>1. LinksInv => LinksOfTheList
  <2> SUFFICES ASSUME LinksInv, nav # NoNav
               PROVE  nav.current = pageNum - 1 /\ NavigatorWhole(nav.current, nav.pages)
    BY DEF LinksOfTheList
  <2>1. nav.pages \in Nat /\ nav.current \in 0..nav.pages - 1 /\ nav.current = pageNum - 1
    BY DEF LinksInv
  <2> QED BY <2>1, NavigatorIsWhole
<1> QED BY <1>1, LinksInit, LinksStep, PTL DEF Spec

-----------------------------------------------------------------------------
(***************************************************************************)
(* The requests of the tab.  Each that changes rows names no row but those *)
(* its dialog was opened for.  A name is sent only out of a dialog that is *)
(* shown or was not used yet, and sending it leaves the dialog hidden and  *)
(* its text empty.                                                         *)
(***************************************************************************)
RequestMeant(r) ==
    /\ {"op", "ids", "meant", "status"} \subseteq DOMAIN r
    /\ r.op \in {"update", "remove"} => r.ids \subseteq r.meant

ModalMeant ==
    /\ {"kind", "shown", "ids", "target"} \subseteq DOMAIN modal
    /\ modal.ids \subseteq modal.target

SentOnce ==
    /\ saved \in 0..1
    /\ saved = 1 => addInput = Blank /\ modal.shown = FALSE

TabInv ==
    /\ IsABag(ajax)
    /\ \A r \in DOMAIN ajax : RequestMeant(r)
    /\ ModalMeant
    /\ SentOnce
    /\ nextId \in Nat \ {0} /\ DOMAIN role_t \subseteq 1..nextId - 1

(***************************************************************************)
(* The list differs from the table only while an answer that will load it  *)
(* again is under way, or when something the tab does not learn of came    *)
(* after the last load.                                                    *)
(***************************************************************************)
Fresh == rows = RowsOf(pageNum, keyword) /\ nav = NavOf(pageNum, keyword)
ReloadUnderWay == \E r \in DOMAIN ajax : r.status = "ok"
FreshInv == outdated \/ ReloadUnderWay \/ Fresh

-----------------------------------------------------------------------------
\* Requests that come into the bag and leave it.
LEMMA BagAdds ==
    ASSUME NEW B, IsABag(B), NEW r, NEW q, q = B (+) SetToBag({r})
    PROVE  IsABag(q) /\ DOMAIN q = DOMAIN B \cup {r}
<1>1. SetToBag({r}) = [e \in {r} |-> 1]
  BY DEF SetToBag
<1>2. DOMAIN q = DOMAIN B \cup {r}
  BY <1>1 DEF (+)
<1>3. ASSUME NEW e \in DOMAIN q PROVE q[e] \in Nat /\ q[e] > 0
  <2>1. q[e] = (IF e \in DOMAIN B THEN B[e] ELSE 0) + (IF e \in {r} THEN 1 ELSE 0)
    BY <1>1, <1>2 DEF (+)
  <2>2. e \in DOMAIN B => B[e] \in Nat /\ B[e] > 0
    BY DEF IsABag
  <2> QED BY <1>2, <2>1, <2>2
<1>4. q = [e \in DOMAIN q |-> q[e]]
  BY DEF (+)
<1> QED BY <1>2, <1>3, <1>4 DEF IsABag

LEMMA BagLoses ==
    ASSUME NEW B, IsABag(B), NEW r, NEW q, q = B (-) SetToBag({r})
    PROVE  /\ IsABag(q) /\ DOMAIN q \subseteq DOMAIN B
           /\ DOMAIN B \ {r} \subseteq DOMAIN q
<1> DEFINE C == [e \in DOMAIN B |-> IF e \in {r} THEN B[e] - 1 ELSE B[e]]
<1>1. SetToBag({r}) = [e \in {r} |-> 1]
  BY DEF SetToBag
<1>2. q = [e \in {d \in DOMAIN C : C[d] > 0} |-> C[e]]
  <2>1. C = [e \in DOMAIN B |-> IF e \in DOMAIN SetToBag({r})
                                   THEN B[e] - SetToBag({r})[e] ELSE B[e]]
    BY <1>1
  <2> HIDE DEF C
  <2> QED BY <2>1 DEF (-)
<1>3. \A e \in DOMAIN B : B[e] \in Nat /\ B[e] > 0
  BY DEF IsABag
<1>4. \A e \in DOMAIN C : e \in DOMAIN B /\ C[e] \in Int /\ (e # r => C[e] > 0)
  BY <1>3
<1>5. DOMAIN C = DOMAIN B
  OBVIOUS
<1> HIDE DEF C
<1>6. \A e \in DOMAIN q : q[e] \in Nat /\ q[e] > 0
  BY <1>2, <1>4
<1> QED BY <1>2, <1>4, <1>5, <1>6 DEF IsABag

LEMMA Sent ==
    ASSUME TabInv, NEW op, NEW ids, NEW name, Send(op, ids, name),
           op \in {"update", "remove"} => ids \subseteq modal.target
    PROVE  /\ IsABag(ajax')
           /\ DOMAIN ajax \subseteq DOMAIN ajax'
           /\ \A r \in DOMAIN ajax' : RequestMeant(r)
<1> DEFINE r == [op |-> op, ids |-> ids, name |-> name,
                 meant |-> modal.target, status |-> "sent"]
<1>1. ajax' = ajax (+) SetToBag({r})
  BY DEF Send
<1>2. RequestMeant(r)
  BY DEF RequestMeant
<1> HIDE DEF r
<1>3. IsABag(ajax') /\ DOMAIN ajax' = DOMAIN ajax \cup {r}
  BY <1>1, BagAdds DEF TabInv
<1> QED BY <1>2, <1>3 DEF TabInv

\* A request the server answers is as meant as before, and an answer the tab
\* has not seen stays until it is its turn.
LEMMA Served ==
    ASSUME TabInv, NEW r \in DOMAIN ajax, NEW status, Serve(r, status)
    PROVE  /\ IsABag(ajax')
           /\ \A q \in DOMAIN ajax' : RequestMeant(q)
           /\ \E q \in DOMAIN ajax' : q.status = status
           /\ DOMAIN ajax \ {r} \subseteq DOMAIN ajax'
<1> DEFINE new == [r EXCEPT !.status = status]
           rest == ajax (-) SetToBag({r})
<1>1. /\ ajax' = rest (+) SetToBag({new})
      /\ RequestMeant(r) /\ IsABag(ajax)
  BY DEF Serve, TabInv
<1>2. new.status = status /\ RequestMeant(new)
  BY <1>1 DEF RequestMeant
<1>3. IsABag(rest) /\ DOMAIN rest \subseteq DOMAIN ajax /\ DOMAIN ajax \ {r} \subseteq DOMAIN rest
  BY <1>1, BagLoses
<1> HIDE DEF new, rest
<1>4. IsABag(ajax') /\ DOMAIN ajax' = DOMAIN rest \cup {new}
  BY <1>1, <1>3, BagAdds
<1> QED BY <1>2, <1>3, <1>4 DEF TabInv

LEMMA TabTable ==
    ASSUME nextId \in Nat \ {0}, DOMAIN role_t \subseteq 1..nextId - 1,
           \/ \E n : insert(n)
           \/ \E ids, n : updateByPrimaryKey(ids, n)
           \/ \E ids : deleteByIdList(ids)
    PROVE  nextId' \in Nat \ {0} /\ DOMAIN role_t' \subseteq 1..nextId' - 1
<1>1. ASSUME NEW n, insert(n) PROVE nextId' \in Nat \ {0} /\ DOMAIN role_t' \subseteq 1..nextId' - 1
  <2>1. nextId' = nextId + 1 /\ DOMAIN role_t' = DOMAIN role_t \cup {nextId}
    BY <1>1 DEF insert
  <2> QED BY <2>1
<1>2. ASSUME NEW ids, deleteByIdList(ids)
      PROVE  nextId' \in Nat \ {0} /\ DOMAIN role_t' \subseteq 1..nextId' - 1
  <2>1. nextId' = nextId /\ DOMAIN role_t' = DOMAIN role_t \ ids
    BY <1>2 DEF deleteByIdList
  <2> QED BY <2>1
<1>3. ASSUME NEW ids, NEW n, updateByPrimaryKey(ids, n)
      PROVE  nextId' \in Nat \ {0} /\ DOMAIN role_t' \subseteq 1..nextId' - 1
  BY <1>3 DEF updateByPrimaryKey
<1> QED BY <1>1, <1>2, <1>3

LEMMA TabInit == Init => TabInv /\ FreshInv
<1> SUFFICES ASSUME Init PROVE TabInv /\ FreshInv
  OBVIOUS
<1>1. IsABag(ajax) /\ DOMAIN ajax = {}
  BY DEF Init, EmptyBag, SetToBag, IsABag
<1>2. ModalMeant /\ SentOnce
  BY DEF Init, ModalMeant, SentOnce, NoModal
<1>3. nextId \in Nat \ {0} /\ DOMAIN role_t \subseteq 1..nextId - 1
  BY DEF Init
<1>4. Fresh
  <2>1. Matching(keyword) = {}
    BY DEF Init, Matching
  <2>2. RowsOf(pageNum, keyword) = << >>
    <3>1. pageNum = 1 /\ Cardinality(Matching(keyword)) = 0
      BY <2>1, FS_EmptySet DEF Init
    <3>2. Least(PageSize * pageNum, 0) < PageSize * (pageNum - 1) + 1
      BY <3>1, RoleBounds DEF Least
    <3>3. PageSize * (pageNum - 1) + 1 \in Int /\ Least(PageSize * pageNum, 0) \in Int
      BY <3>1, RoleBounds DEF Least
    <3> QED BY <3>1, <3>2, <3>3, SubSeqEmpty DEF RowsOf
  <2> QED BY <2>2 DEF Init, Fresh, NavOf
<1> QED BY <1>1, <1>2, <1>3, <1>4 DEF TabInv, FreshInv

LEMMA TabStep == TabInv /\ [Next]_vars => TabInv'
<1> SUFFICES ASSUME TabInv, [Next]_vars PROVE TabInv'
  OBVIOUS
<1> USE DEF db, list, dialog
<1>0. /\ IsABag(ajax) /\ (\A r \in DOMAIN ajax : RequestMeant(r)) /\ ModalMeant /\ SentOnce
      /\ nextId \in Nat \ {0} /\ DOMAIN role_t \subseteq 1..nextId - 1
  BY DEF TabInv
<1>1. ASSUME UNCHANGED ajax
      PROVE  IsABag(ajax') /\ \A r \in DOMAIN ajax' : RequestMeant(r)
  BY <1>0, <1>1
<1>2. ASSUME UNCHANGED <<role_t, nextId>>
      PROVE  nextId' \in Nat \ {0} /\ DOMAIN role_t' \subseteq 1..nextId' - 1
  BY <1>0, <1>2
<1>3. ASSUME UNCHANGED <<modal, addInput, saved>> PROVE ModalMeant' /\ SentOnce'
  BY <1>0, <1>3 DEF ModalMeant, SentOnce
<1>4. ASSUME UNCHANGED <<ajax, db, dialog>> PROVE TabInv'
  BY <1>1, <1>2, <1>3, <1>4 DEF TabInv
<1>5. CASE \/ \E kw \in Text : Search(kw)
           \/ \E p \in 0..MaxRole : FollowLink(p)
           \/ ClickSummaryBox
           \/ \E id \in RoleId : ClickItemBox(id)
  BY <1>4, <1>5 DEF Search, FollowLink, ClickSummaryBox, ClickItemBox
<1>6. ASSUME NEW kind, NEW ids, NEW text, NEW target, ids \subseteq target,
             Open(kind, ids, text, target), UNCHANGED <<ajax, db, addInput>>
      PROVE  TabInv'
  <2>1. ModalMeant' /\ SentOnce'
    BY <1>6 DEF Open, ModalMeant, SentOnce
  <2> QED BY <1>1, <1>2, <1>6, <2>1 DEF TabInv
<1>7. CASE ShowAddModal \/ ClickBatchRemove
  BY <1>6, <1>7 DEF ShowAddModal, ClickBatchRemove, CheckedIds, ShowConfirmModal
<1>8. ASSUME NEW k \in 1..PageSize, ClickPencil(k) \/ ClickRemove(k) PROVE TabInv'
  BY <1>6, <1>8 DEF ClickPencil, ClickRemove, ShowConfirmModal
<1>9. ASSUME Hide PROVE ModalMeant' /\ modal'.shown = FALSE
  BY <1>0, <1>9 DEF Hide, ModalMeant
<1>10. CASE Dismiss
  <2>1. SentOnce' /\ ModalMeant'
    BY <1>0, <1>9, <1>10 DEF Dismiss, SentOnce
  <2> QED BY <1>1, <1>2, <1>10, <2>1 DEF Dismiss, TabInv
<1>11. CASE HideModal
  <2>1. SentOnce' /\ ModalMeant'
    BY <1>11 DEF HideModal, SentOnce, ModalMeant, NoModal
  <2> QED BY <1>1, <1>2, <1>11, <2>1 DEF HideModal, TabInv
<1>12. ASSUME NEW n \in Text, TypeName(n) PROVE TabInv'
  <2>1. SentOnce'
    BY <1>0, <1>12 DEF TypeName, SentOnce
  <2>2. ModalMeant'
    BY <1>0, <1>12 DEF TypeName, ModalMeant
  <2> QED BY <1>1, <1>2, <1>12, <2>1, <2>2 DEF TypeName, TabInv
<1>13. CASE SaveRole
  <2>1. Send("save", {}, addInput)
    BY <1>13 DEF SaveRole
  <2>2. IsABag(ajax') /\ \A r \in DOMAIN ajax' : RequestMeant(r)
    BY <2>1, Sent
  <2>3. saved' \in 0..1 /\ addInput' = Blank
    BY <1>0, <1>13 DEF SaveRole, SentOnce, AfterSave
  <2>4. SentOnce' /\ ModalMeant'
    BY <1>9, <1>13, <2>3 DEF SaveRole, SentOnce
  <2> QED BY <1>2, <1>13, <2>2, <2>4 DEF SaveRole, TabInv
<1>14. CASE UpdateRole \/ RemoveRole
  <2>1. modal.ids \subseteq modal.target
    BY <1>0 DEF ModalMeant
  <2>2. IsABag(ajax') /\ \A r \in DOMAIN ajax' : RequestMeant(r)
    BY <1>14, <2>1, Sent DEF UpdateRole, RemoveRole
  <2>3. SentOnce' /\ ModalMeant'
    BY <1>0, <1>9, <1>14 DEF UpdateRole, RemoveRole, SentOnce
  <2> QED BY <1>2, <1>14, <2>2, <2>3 DEF UpdateRole, RemoveRole, TabInv
<1>15. ASSUME NEW r \in DOMAIN ajax, Executed(r) \/ AnswerLost(r) \/ Refused(r)
       PROVE  TabInv'
  <2>1. PICK status : Serve(r, status)
    BY <1>15 DEF Executed, AnswerLost, Refused
  <2>2. IsABag(ajax') /\ \A q \in DOMAIN ajax' : RequestMeant(q)
    BY <2>1, Served
  <2>3. nextId' \in Nat \ {0} /\ DOMAIN role_t' \subseteq 1..nextId' - 1
    <3>1. CASE Execute(r)
      BY <1>0, <3>1, TabTable DEF Execute
    <3>2. CASE Refused(r)
      BY <1>2, <3>2 DEF Refused
    <3> QED BY <1>15, <3>1, <3>2 DEF Executed, AnswerLost
  <2> QED BY <1>3, <2>1, <2>2, <2>3 DEF Serve, TabInv
<1>16. ASSUME NEW r \in DOMAIN ajax, Answered(r) PROVE TabInv'
  <2>1. IsABag(ajax') /\ DOMAIN ajax' \subseteq DOMAIN ajax
    BY <1>0, <1>16, BagLoses DEF Answered
  <2> QED BY <1>0, <1>2, <1>3, <1>16, <2>1 DEF Answered, TabInv
<1>17. CASE Revisit
  <2>1. IsABag(ajax') /\ DOMAIN ajax' = {}
    BY <1>17 DEF Revisit, EmptyBag, SetToBag, IsABag
  <2>2. ModalMeant' /\ SentOnce'
    BY <1>17 DEF Revisit, ModalMeant, SentOnce, NoModal
  <2> QED BY <1>2, <1>17, <2>1, <2>2 DEF Revisit, TabInv
<1>18. CASE OtherAdmin
  <2>1. nextId' \in Nat \ {0} /\ DOMAIN role_t' \subseteq 1..nextId' - 1
    BY <1>0, <1>18, TabTable DEF OtherAdmin
  <2> QED BY <1>1, <1>3, <1>18, <2>1 DEF OtherAdmin, TabInv
<1>19. CASE UNCHANGED vars
  BY <1>4, <1>19 DEF vars
<1> QED BY <1>5, <1>7, <1>8, <1>10, <1>11, <1>12, <1>13, <1>14, <1>15, <1>16, <1>17,
           <1>18, <1>19 DEF Next

-----------------------------------------------------------------------------
\* A load shows the table, unless it is not answered.
LEMMA LoadIsFresh ==
    ASSUME NEW pn, NEW kw, GeneratePage(pn, kw), UNCHANGED role_t
    PROVE  outdated' \/ Fresh'
<1>1. PICK answered \in BOOLEAN :
        /\ pageNum' = pn /\ keyword' = kw
        /\ rows' = IF answered THEN RowsOf(pn, kw) ELSE << >>
        /\ nav' = IF answered THEN NavOf(pn, kw) ELSE NoNav
        /\ outdated' = ~answered
  BY DEF GeneratePage
<1>2. CASE answered = FALSE
  BY <1>1, <1>2
<1>3. CASE answered = TRUE
  <2>1. rows' = RowsOf(pn, kw) /\ nav' = NavOf(pn, kw)
    BY <1>1, <1>3
  <2>2. RowsOf(pageNum, keyword)' = RowsOf(pn, kw)
    BY <1>1 DEF RowsOf, SelectRoleByKeyword, Matching
  <2>3. NavOf(pageNum, keyword)' = NavOf(pn, kw)
    BY <1>1 DEF NavOf, RowsOf, SelectRoleByKeyword, Matching
  <2> QED BY <2>1, <2>2, <2>3 DEF Fresh
<1> QED BY <1>2, <1>3

LEMMA FreshKept ==
    ASSUME FreshInv, UNCHANGED <<role_t, pageNum, keyword, rows, nav, outdated>>,
           ReloadUnderWay => ReloadUnderWay'
    PROVE  FreshInv'
<1>1. Fresh' = Fresh
  BY DEF Fresh, RowsOf, NavOf, SelectRoleByKeyword, Matching
<1> QED BY <1>1 DEF FreshInv

LEMMA FreshStep == TabInv /\ FreshInv /\ [Next]_vars => FreshInv'
<1> SUFFICES ASSUME TabInv, FreshInv, [Next]_vars PROVE FreshInv'
  OBVIOUS
<1> USE DEF db, list, dialog
<1>1. ASSUME UNCHANGED <<role_t, ajax, pageNum, keyword, rows, nav, outdated>>
      PROVE  FreshInv'
  BY <1>1, FreshKept DEF ReloadUnderWay
<1>2. CASE \/ \E kw \in Text : Search(kw)
           \/ \E p \in 0..MaxRole : FollowLink(p)
  BY <1>2, LoadIsFresh DEF Search, FollowLink, FreshInv
<1>3. CASE \/ ClickSummaryBox \/ Dismiss \/ HideModal \/ ShowAddModal \/ ClickBatchRemove
           \/ \E id \in RoleId : ClickItemBox(id)
           \/ \E n \in Text : TypeName(n)
           \/ \E k \in 1..PageSize : ClickPencil(k) \/ ClickRemove(k)
           \/ UNCHANGED vars
  BY <1>1, <1>3
     DEF ClickSummaryBox, Dismiss, HideModal, ShowAddModal, ClickBatchRemove, ClickItemBox,
         TypeName, ClickPencil, ClickRemove, ShowConfirmModal, vars
<1>4. ASSUME NEW op, NEW ids, NEW name, Send(op, ids, name), UNCHANGED <<db, list>>
      PROVE  FreshInv'
  <2>1. DOMAIN ajax \subseteq DOMAIN ajax'
    <3> DEFINE r == [op |-> op, ids |-> ids, name |-> name,
                     meant |-> modal.target, status |-> "sent"]
    <3>1. ajax' = ajax (+) SetToBag({r})
      BY <1>4 DEF Send
    <3> HIDE DEF r
    <3>2. IsABag(ajax)
      BY DEF TabInv
    <3>3. DOMAIN ajax' = DOMAIN ajax \cup {r}
      BY <3>1, <3>2, BagAdds
    <3> QED BY <3>3
  <2> QED BY <1>4, <2>1, FreshKept DEF ReloadUnderWay
<1>5. CASE SaveRole \/ UpdateRole \/ RemoveRole
  BY <1>4, <1>5 DEF SaveRole, UpdateRole, RemoveRole
<1>6. ASSUME NEW r \in DOMAIN ajax, Executed(r) PROVE FreshInv'
  <2>1. \E q \in DOMAIN ajax' : q.status = "ok"
    BY <1>6, Served DEF Executed
  <2> QED BY <2>1 DEF FreshInv, ReloadUnderWay
<1>7. ASSUME NEW r \in DOMAIN ajax, AnswerLost(r) PROVE FreshInv'
  BY <1>7 DEF AnswerLost, FreshInv
<1>8. ASSUME NEW r \in DOMAIN ajax, Refused(r) PROVE FreshInv'
  <2>1. DOMAIN ajax \ {r} \subseteq DOMAIN ajax' /\ r.status # "ok"
    BY <1>8, Served DEF Refused, Serve
  <2>2. ReloadUnderWay => ReloadUnderWay'
    BY <2>1 DEF ReloadUnderWay
  <2> QED BY <1>8, <2>2, FreshKept DEF Refused, Serve
<1>9. ASSUME NEW r \in DOMAIN ajax, Answered(r) PROVE FreshInv'
  <2>1. CASE r.status = "ok"
    BY <1>9, <2>1, LoadIsFresh DEF Answered, Reloads, FreshInv
  <2>2. CASE r.status # "ok"
    <3>1. DOMAIN ajax \ {r} \subseteq DOMAIN ajax'
      BY <1>9, BagLoses DEF Answered, TabInv
    <3>2. ReloadUnderWay => ReloadUnderWay'
      BY <2>2, <3>1 DEF ReloadUnderWay
    <3> QED BY <1>9, <2>2, <3>2, FreshKept DEF Answered, Reloads
  <2> QED BY <2>1, <2>2
<1>10. CASE Revisit
  BY <1>10, LoadIsFresh DEF Revisit, FreshInv
<1>11. CASE OtherAdmin
  BY <1>11 DEF OtherAdmin, FreshInv
<1> QED BY <1>2, <1>3, <1>5, <1>6, <1>7, <1>8, <1>9, <1>10, <1>11 DEF Next

-----------------------------------------------------------------------------
\* Once every request is answered, the list is that of the table, unless a
\* change the tab could not learn of came after the last load.
THEOREM TableAlwaysFresh == Spec => []TableFresh
<1>1. FreshInv => TableFresh
  BY DEF FreshInv, ReloadUnderWay, Fresh, TableFresh, EmptyBag, SetToBag
<1> QED BY <1>1, TabInit, TabStep, FreshStep, PTL DEF Spec

\* A name is sent once, however often the button is clicked.
THEOREM NamesSentOnce == Spec => []SavedOncePerOpening
<1>1. TabInv => SavedOncePerOpening
  BY DEF TabInv, SentOnce, SavedOncePerOpening
<1> QED BY <1>1, TabInit, TabStep, PTL DEF Spec

\* Only rows whose button or box opened the dialog of a request are changed by
\* it, whatever was loaded, checked or opened between the click and the request.
THEOREM OnlyMeantRows == Spec => OnlyMeantRowsChange
<1> DEFINE Changed(i) == i \notin DOMAIN role_t' \/ role_t'[i] # role_t[i]
           Meant(i) == \E r \in DOMAIN ajax : r.status = "sent" /\ i \in r.meant
           MeantStep == OtherAdmin \/ \A i \in DOMAIN role_t : Changed(i) => Meant(i)
<1>1. TabInv /\ [Next]_vars => [MeantStep]_vars
  <2> SUFFICES ASSUME TabInv, [Next]_vars, ~OtherAdmin,
                      NEW i \in DOMAIN role_t, Changed(i)
               PROVE  Meant(i)
    OBVIOUS
  <2> USE DEF db
  <2>1. role_t' # role_t
    OBVIOUS
  <2>2. PICK r \in DOMAIN ajax : Executed(r) \/ AnswerLost(r)
    BY <2>1
       DEF Next, Search, FollowLink, ClickSummaryBox, ClickItemBox, Dismiss, HideModal,
           ShowAddModal, SaveRole, TypeName, ClickPencil, ClickRemove, ShowConfirmModal,
           UpdateRole, ClickBatchRemove, RemoveRole, Refused, Answered, Revisit, vars
  <2>3. r.status = "sent" /\ Execute(r) /\ RequestMeant(r)
    BY <2>2 DEF Executed, AnswerLost, Serve, TabInv
  <2>4. i # nextId
    BY DEF TabInv
  <2>5. r.op \in {"update", "remove"} /\ i \in r.ids
    BY <2>3, <2>4 DEF Execute, insert, updateByPrimaryKey, deleteByIdList
  <2> QED BY <2>3, <2>5 DEF RequestMeant
<1> QED BY <1>1, TabInit, TabStep, PTL DEF Spec, OnlyMeantRowsChange

-----------------------------------------------------------------------------
(***************************************************************************)
(* The list in the order of its keys.                                      *)
(***************************************************************************)
\* Each position of a finite set of ids is that of one of them: counting the
\* smaller ones is injective, so it reaches every number below their number.
LEMMA KeyOrder ==
    ASSUME NEW ids \in SUBSET Nat, IsFiniteSet(ids), NEW k \in 1..Cardinality(ids)
    PROVE  /\ InKeyOrder(ids, k) \in ids
           /\ Cardinality({i \in ids : i < InKeyOrder(ids, k)}) = k - 1
<1> DEFINE n == Cardinality(ids)
           below(id) == {i \in ids : i < id}
           rank == [id \in ids |-> Cardinality(below(id))]
<1>1. n \in Nat
  BY FS_CardinalityType
<1>2. ASSUME NEW x \in ids, NEW y \in SUBSET ids, below(x) \subseteq y, x \in y
      PROVE  Cardinality(below(x)) \in Nat /\ Cardinality(below(x)) < Cardinality(y)
  <2>1. IsFiniteSet(y) /\ Cardinality(y) \in Nat
    BY FS_Subset, FS_CardinalityType
  <2>2. x \notin below(x)
    OBVIOUS
  <2>3. /\ IsFiniteSet(below(x)) /\ Cardinality(below(x)) <= Cardinality(y)
        /\ Cardinality(y) = Cardinality(below(x)) => y = below(x)
    BY <1>2, <2>1, FS_Subset
  <2>4. Cardinality(below(x)) \in Nat
    BY <2>3, FS_CardinalityType
  <2>5. Cardinality(y) # Cardinality(below(x))
    BY <1>2, <2>2, <2>3
  <2> QED BY <2>1, <2>3, <2>4, <2>5
<1>3. rank \in [ids -> 0..n - 1]
  <2> SUFFICES ASSUME NEW x \in ids PROVE Cardinality(below(x)) \in 0..n - 1
    OBVIOUS
  <2>1. Cardinality(below(x)) \in Nat /\ Cardinality(below(x)) < n
    BY <1>2
  <2> QED BY <1>1, <2>1
<1>4. IsInjective(rank)
  <2>1. ASSUME NEW x \in ids, NEW y \in ids, x < y PROVE rank[x] < rank[y]
    <3>1. below(x) \subseteq below(y) /\ x \in below(y)
      <4>1. x \in Nat /\ y \in Nat /\ \A i \in ids : i \in Nat
        OBVIOUS
      <4>2. \A i \in ids : i < x => i < y
        BY <2>1, <4>1
      <4> QED BY <2>1, <4>2
    <3>2. Cardinality(below(x)) < Cardinality(below(y))
      BY <1>2, <3>1
    <3> HIDE DEF below
    <3> QED BY <3>2
  <2> SUFFICES ASSUME NEW x \in ids, NEW y \in ids, rank[x] = rank[y] PROVE x = y
    BY DEF IsInjective
  <2>2. rank[x] \in Int /\ rank[y] \in Int
    BY <1>1, <1>3
  <2> HIDE DEF rank
  <2> QED BY <2>1, <2>2
<1>5. rank \in Surjection(ids, 0..n - 1)
  <2>1. rank \in Injection(ids, 0..n - 1)
    BY <1>3, <1>4 DEF Injection
  <2>0. Cardinality(ids) = n
    OBVIOUS
  <2> HIDE DEF n, rank
  <2>2. IsFiniteSet(0..n - 1) /\ Cardinality(0..n - 1) = n
    <3>1. n - 1 \in Int /\ 0 \in Int
      BY <1>1
    <3>2. /\ IsFiniteSet(0..n - 1)
          /\ Cardinality(0..n - 1) = IF 0 > n - 1 THEN 0 ELSE n - 1 - 0 + 1
      BY <3>1, FS_Interval
    <3> QED BY <1>1, <3>2
  <2> QED BY <2>0, <2>1, <2>2, FS_Injection
<1>6. k - 1 \in 0..n - 1
  BY <1>1
<1>7. \E id \in ids : rank[id] = k - 1
  BY <1>5, <1>6 DEF Surjection
<1>8. \E id \in ids : Cardinality({i \in ids : i < id}) = k - 1
  BY <1>7
<1> QED BY <1>8 DEF InKeyOrder

-----------------------------------------------------------------------------
(***************************************************************************)
(* Types.  The list and the links need those of the table, the requests    *)
(* those of the dialog they are sent from, and the dialog those of the     *)
(* list it is opened on.                                                   *)
(***************************************************************************)
TableTyped ==
    /\ DOMAIN role_t \subseteq 1..nextId - 1
    /\ \A i \in DOMAIN role_t : role_t[i] \in Text
    /\ nextId \in 1..MaxRole + 1

RequestsTyped == IsABag(ajax) /\ DOMAIN ajax \subseteq AjaxRequest

ListTyped ==
    /\ pageNum \in 1..MaxRole /\ keyword \in Text
    /\ rows \in Seq(Row) /\ Len(rows) <= PageSize
    /\ nav \in [current : 0..MaxRole, pages : 0..MaxRole]
    /\ checked \subseteq RowIds
    /\ outdated \in BOOLEAN

DialogTyped == modal \in Modal /\ addInput \in Text /\ saved \in Nat

LEMMA TypeParts ==
    TypeOK <=> TableTyped /\ RequestsTyped /\ ListTyped /\ DialogTyped /\ summaryBox \in BOOLEAN
BY DEF TypeOK, TableTyped, RequestsTyped, ListTyped, DialogTyped, BagToSet

\* The roles with a keyword are finitely many of the ids handed out.
LEMMA MatchingTyped ==
    ASSUME TableTyped, NEW kw
    PROVE  /\ Matching(kw) \subseteq RoleId /\ IsFiniteSet(Matching(kw))
           /\ Matching(kw) \subseteq DOMAIN role_t
           /\ Cardinality(Matching(kw)) \in 0..MaxRole
<1>1. Matching(kw) \subseteq 1..MaxRole /\ Matching(kw) \subseteq DOMAIN role_t
  BY RoleBounds DEF TableTyped, Matching
<1>2. IsFiniteSet(1..MaxRole) /\ Cardinality(1..MaxRole) = MaxRole
  BY RoleBounds, FS_Interval
<1>3. IsFiniteSet(Matching(kw)) /\ Cardinality(Matching(kw)) <= MaxRole
  BY <1>1, <1>2, FS_Subset
<1>4. Cardinality(Matching(kw)) \in Nat
  BY <1>3, FS_CardinalityType
<1> QED BY <1>1, <1>3, <1>4, RoleBounds DEF RoleId

\* A page is a sequence of rows and has no more of them than fit.
LEMMA RowsTyped ==
    ASSUME TableTyped, NEW pn \in 1..MaxRole, NEW kw
    PROVE  RowsOf(pn, kw) \in Seq(Row) /\ Len(RowsOf(pn, kw)) <= PageSize
<1> DEFINE n == Cardinality(Matching(kw))
           first == PageSize * (pn - 1) + 1
           last == Least(PageSize * pn, n)
           full == SelectRoleByKeyword(kw)
<1>1. n \in Nat
  BY MatchingTyped
<1>2. PageSize \in Nat \ {0} /\ pn \in Nat \ {0}
  BY RoleBounds
<1>3. first \in Nat \ {0} /\ last \in Nat /\ last <= n /\ last <= PageSize * pn
  BY <1>1, <1>2 DEF Least
<1>4. PageSize * pn = PageSize * (pn - 1) + PageSize
  BY <1>2
<1>5. ASSUME NEW i \in first..last PROVE full[i] \in Row
  <2>1. i \in 1..n
    <3> HIDE DEF n, first, last
    <3> QED BY <1>1, <1>3, <1>5
  <2>2. InKeyOrder(Matching(kw), i) \in Matching(kw)
    <3>1. Matching(kw) \in SUBSET Nat /\ IsFiniteSet(Matching(kw))
      BY MatchingTyped DEF RoleId
    <3> QED BY <2>1, <3>1, KeyOrder
  <2>3. InKeyOrder(Matching(kw), i) \in RoleId /\ role_t[InKeyOrder(Matching(kw), i)] \in Text
    BY <2>2, MatchingTyped DEF TableTyped
  <2>4. full[i] = [id |-> InKeyOrder(Matching(kw), i), name |-> role_t[InKeyOrder(Matching(kw), i)]]
    BY <2>1 DEF SelectRoleByKeyword
  <2> QED BY <2>3, <2>4 DEF Row
<1>6. RowsOf(pn, kw) = SubSeq(full, first, last)
  BY DEF RowsOf
<1>7. first \in Int /\ last \in Int
  BY <1>3
<1>8. PageSize * (pn - 1) \in Int
  BY <1>2
<1> HIDE DEF full
<1>9. /\ SubSeq(full, first, last) \in Seq(Row)
      /\ Len(SubSeq(full, first, last)) = IF first <= last THEN last - first + 1 ELSE 0
  BY <1>5, <1>7, SubSeqProperties
<1>10. first <= last => last - first + 1 <= PageSize
  BY <1>2, <1>3, <1>4, <1>7, <1>8
<1> QED BY <1>2, <1>6, <1>9, <1>10

\* There are no more pages than ids.
LEMMA NavTyped ==
    ASSUME TableTyped, NEW pn \in 1..MaxRole, NEW kw
    PROVE  NavOf(pn, kw) \in [current : 0..MaxRole, pages : 0..MaxRole]
<1> DEFINE n == Cardinality(Matching(kw))
           m == Greatest(n, 1)
<1>1. n \in 0..MaxRole
  BY MatchingTyped
<1>2. m \in 1..MaxRole
  BY <1>1, RoleBounds DEF Greatest
<1>3. NumPages(n, PageSize) \in 0..MaxRole
  <2>1. NumPages(n, PageSize) = (m + PageSize - 1) \div PageSize
    BY DEF NumPages, CeilDiv
  <2> DEFINE q == (m + PageSize - 1) \div PageSize
  <2>2. m \in Nat \ {0} /\ PageSize \in Nat \ {0}
    BY <1>2, RoleBounds
  <2> HIDE DEF m
  <2>3. q \in Int /\ PageSize * q <= m + PageSize - 1 /\ m + PageSize - 1 < PageSize * q + PageSize
    BY <2>2, SMT
  <2> HIDE DEF q
  <2>4. q >= 0
    <3>1. SUFFICES ASSUME q <= -1 PROVE FALSE
      BY <2>3
    <3>2. PICK d \in Nat : q = -1 - d
      BY <2>3, <3>1
    <3>3. PageSize * q = -PageSize - PageSize * d /\ PageSize * d >= 0
      BY <2>2, <3>2, SMT
    <3> QED BY <2>2, <2>3, <3>3, SMT
  <2>5. q <= m
    <3>1. SUFFICES ASSUME q > m PROVE FALSE
      BY <2>2, <2>3
    <3>2. PICK d \in Nat : q = m + 1 + d
      BY <2>2, <2>3, <3>1
    <3>3. PICK e \in Nat : PageSize = 1 + e
      BY <2>2
    <3>4. PageSize * q = m + 1 + d + e * m + e + e * d /\ e * m >= 0 /\ e * d >= 0 /\ e * m \in Int /\ e * d \in Int
      BY <2>2, <3>2, <3>3, SMT
    <3> QED BY <2>2, <2>3, <3>3, <3>4, SMT
  <2> QED BY <1>2, <2>1, <2>2, <2>3, <2>4, <2>5, RoleBounds DEF q
<1>4. pn - 1 \in 0..MaxRole /\ 0 \in 0..MaxRole
  BY RoleBounds
<1> QED BY <1>3, <1>4 DEF NavOf, NoNav, CurrentPage

LEMMA LoadTyped ==
    ASSUME TableTyped, NEW pn \in 1..MaxRole, NEW kw \in Text, GeneratePage(pn, kw)
    PROVE  ListTyped'
<1>1. PICK answered \in BOOLEAN :
        /\ pageNum' = pn /\ keyword' = kw
        /\ rows' = IF answered THEN RowsOf(pn, kw) ELSE << >>
        /\ nav' = IF answered THEN NavOf(pn, kw) ELSE NoNav
        /\ checked' = {} /\ outdated' = ~answered
  BY DEF GeneratePage
<1>2. rows' \in Seq(Row) /\ Len(rows') <= PageSize
  <2>1. << >> \in Seq(Row) /\ Len(<< >>) <= PageSize
    BY RoleBounds
  <2> QED BY <1>1, <2>1, RowsTyped
<1>3. nav' \in [current : 0..MaxRole, pages : 0..MaxRole]
  <2>1. NoNav \in [current : 0..MaxRole, pages : 0..MaxRole]
    BY RoleBounds DEF NoNav
  <2> QED BY <1>1, <2>1, NavTyped
<1>4. outdated' \in BOOLEAN
  BY <1>1
<1> QED BY <1>1, <1>2, <1>3, <1>4 DEF ListTyped

\* The rows on the screen, and so what a button or a box names.
LEMMA RowsOnScreen ==
    ASSUME ListTyped
    PROVE  /\ \A k \in DOMAIN rows : rows[k] \in Row
           /\ RowIds \subseteq RoleId /\ checked \subseteq RoleId
<1>1. \A k \in DOMAIN rows : rows[k] \in Row
  BY LenProperties DEF ListTyped
<1> QED BY <1>1 DEF ListTyped, RowIds, Row

LEMMA TableKept ==
    ASSUME TableTyped,
           \/ \E n \in Text : insert(n)
           \/ \E ids, n : n \in Text /\ updateByPrimaryKey(ids, n)
           \/ \E ids : deleteByIdList(ids)
    PROVE  TableTyped'
<1>1. ASSUME NEW n \in Text, insert(n) PROVE TableTyped'
  <2>1. nextId' = nextId + 1 /\ nextId <= MaxRole /\ nextId \in Nat \ {0}
    BY <1>1 DEF insert, TableTyped
  <2>2. /\ DOMAIN role_t' = DOMAIN role_t \cup {nextId}
        /\ \A i \in DOMAIN role_t' : role_t'[i] = IF i = nextId THEN n ELSE role_t[i]
    BY <1>1 DEF insert
  <2>3. nextId' \in 1..MaxRole + 1
    BY <2>1, RoleBounds
  <2>4. DOMAIN role_t' \subseteq 1..nextId' - 1
    BY <2>1, <2>2 DEF TableTyped
  <2> QED BY <2>2, <2>3, <2>4 DEF TableTyped
<1>2. ASSUME NEW ids, NEW n \in Text, updateByPrimaryKey(ids, n) PROVE TableTyped'
  BY <1>2 DEF updateByPrimaryKey, TableTyped
<1>3. ASSUME NEW ids, deleteByIdList(ids) PROVE TableTyped'
  BY <1>3 DEF deleteByIdList, TableTyped
<1> QED BY <1>1, <1>2, <1>3

LEMMA SentTyped ==
    ASSUME RequestsTyped, NEW op \in {"save", "update", "remove"}, NEW ids \in SUBSET RoleId,
           NEW name \in Text, modal \in Modal, Send(op, ids, name)
    PROVE  RequestsTyped'
<1> DEFINE r == [op |-> op, ids |-> ids, name |-> name,
                 meant |-> modal.target, status |-> "sent"]
<1>1. ajax' = ajax (+) SetToBag({r})
  BY DEF Send
<1>2. r \in AjaxRequest
  BY DEF AjaxRequest, Modal
<1> HIDE DEF r
<1>3. IsABag(ajax') /\ DOMAIN ajax' = DOMAIN ajax \cup {r}
  BY <1>1, BagAdds DEF RequestsTyped
<1> QED BY <1>2, <1>3 DEF RequestsTyped

LEMMA ServedTyped ==
    ASSUME RequestsTyped, NEW r \in DOMAIN ajax, NEW status \in {"ok", "error"}, Serve(r, status)
    PROVE  RequestsTyped'
<1> DEFINE new == [r EXCEPT !.status = status]
           rest == ajax (-) SetToBag({r})
<1>1. ajax' = rest (+) SetToBag({new}) /\ IsABag(ajax)
  BY DEF Serve, RequestsTyped
<1>2. new \in AjaxRequest
  BY DEF RequestsTyped, AjaxRequest
<1>3. IsABag(rest) /\ DOMAIN rest \subseteq DOMAIN ajax
  BY <1>1, BagLoses
<1> HIDE DEF new, rest
<1>4. IsABag(ajax') /\ DOMAIN ajax' = DOMAIN rest \cup {new}
  BY <1>1, <1>3, BagAdds
<1> QED BY <1>2, <1>3, <1>4 DEF RequestsTyped

LEMMA TypesInit == Init => TypeOK
<1> SUFFICES ASSUME Init PROVE TypeOK
  OBVIOUS
<1> USE DEF Init
<1>1. TableTyped
  BY RoleBounds DEF TableTyped
<1>2. RequestsTyped
  <2>1. ajax = [e \in {} |-> 1]
    BY DEF EmptyBag, SetToBag
  <2> QED BY <2>1 DEF RequestsTyped, IsABag
<1>3. ListTyped
  <2>1. NoNav \in [current : 0..MaxRole, pages : 0..MaxRole]
    BY RoleBounds DEF NoNav
  <2>2. 1 \in 1..MaxRole /\ << >> \in Seq(Row) /\ Len(<< >>) <= PageSize
    BY RoleBounds
  <2> QED BY <2>1, <2>2 DEF ListTyped, Text
<1>4. DialogTyped
  BY DEF DialogTyped, Modal, NoModal, Text
<1> QED BY <1>1, <1>2, <1>3, <1>4, TypeParts

LEMMA TypesStep == LinksInv /\ TypeOK /\ [Next]_vars => TypeOK'
<1> SUFFICES ASSUME LinksInv, TypeOK, [Next]_vars PROVE TypeOK'
  OBVIOUS
<1> USE DEF db, list, dialog
<1>0. TableTyped /\ RequestsTyped /\ ListTyped /\ DialogTyped /\ summaryBox \in BOOLEAN
  BY TypeParts
<1>1. TypeOK' <=> TableTyped' /\ RequestsTyped' /\ ListTyped' /\ DialogTyped' /\ summaryBox' \in BOOLEAN
  BY DEF TypeOK, TableTyped, RequestsTyped, ListTyped, DialogTyped, BagToSet
<1>2. UNCHANGED db => TableTyped'
  BY <1>0 DEF TableTyped
<1>3. UNCHANGED ajax => RequestsTyped'
  BY <1>0 DEF RequestsTyped
<1>4. UNCHANGED list => ListTyped'
  BY <1>0 DEF ListTyped, RowIds
<1>5. UNCHANGED dialog => DialogTyped'
  BY <1>0 DEF DialogTyped
<1>6. pageNum \in 1..MaxRole /\ keyword \in Text /\ modal \in Modal /\ addInput \in Text /\ saved \in Nat
  BY <1>0 DEF ListTyped, DialogTyped
<1>7. ASSUME NEW kw \in Text, Search(kw) PROVE TypeOK'
  BY <1>0, <1>1, <1>2, <1>3, <1>5, <1>6, <1>7, LoadTyped DEF Search
<1>8. ASSUME NEW p \in 0..MaxRole, FollowLink(p) PROVE TypeOK'
  <2>1. nav.pages \in 0..MaxRole /\ nav.current \in 0..nav.pages - 1
    BY <1>0, <1>8 DEF FollowLink, LinksInv, ListTyped
  <2>2. p \in 0..nav.pages - 1
    BY <1>8, <2>1, NavigatorIsWhole DEF FollowLink, NavigatorWhole
  <2>3. p + 1 \in 1..MaxRole
    BY <2>1, <2>2, RoleBounds
  <2> QED BY <1>0, <1>1, <1>2, <1>3, <1>5, <1>6, <1>8, <2>3, LoadTyped DEF FollowLink
<1>9. ASSUME checked' \subseteq RowIds, UNCHANGED <<pageNum, keyword, rows, nav, outdated>>
      PROVE  ListTyped'
  BY <1>0, <1>9 DEF ListTyped, RowIds
<1>10. CASE ClickSummaryBox
  <2>1. ListTyped' /\ summaryBox' \in BOOLEAN
    BY <1>0, <1>9, <1>10 DEF ClickSummaryBox, ListTyped
  <2> QED BY <1>1, <1>2, <1>3, <1>5, <1>10, <2>1 DEF ClickSummaryBox
<1>11. ASSUME NEW id \in RoleId, ClickItemBox(id) PROVE TypeOK'
  <2>1. ListTyped' /\ summaryBox' \in BOOLEAN
    BY <1>0, <1>9, <1>11 DEF ClickItemBox, ListTyped
  <2> QED BY <1>1, <1>2, <1>3, <1>5, <1>11, <2>1 DEF ClickItemBox
<1>12. ASSUME Hide PROVE modal' \in Modal
  BY <1>6, <1>12 DEF Hide, Modal
<1>13. CASE Dismiss \/ HideModal
  <2>1. DialogTyped'
    <3>1. NoModal \in Modal
      BY DEF NoModal, Modal, Text
    <3> QED BY <1>6, <1>12, <1>13, <3>1 DEF Dismiss, HideModal, DialogTyped
  <2> QED BY <1>0, <1>1, <1>2, <1>3, <1>4, <1>13, <2>1 DEF Dismiss, HideModal
<1>14. ASSUME NEW kind \in {"add", "edit", "confirm"}, NEW ids \in SUBSET RoleId,
              NEW text \in Text, NEW target \in SUBSET RoleId, Open(kind, ids, text, target),
              UNCHANGED <<db, ajax, list, summaryBox, addInput>>
       PROVE  TypeOK'
  <2>1. DialogTyped'
    BY <1>6, <1>14 DEF Open, DialogTyped, Modal
  <2> QED BY <1>0, <1>1, <1>2, <1>3, <1>4, <1>14, <2>1
<1>15. Blank \in Text /\ {} \in SUBSET RoleId
  BY DEF Text
<1>16. CASE ShowAddModal
  BY <1>14, <1>15, <1>16 DEF ShowAddModal
<1>17. ASSUME NEW k \in 1..PageSize, ClickPencil(k) \/ ClickRemove(k) PROVE TypeOK'
  <2>1. rows[k].id \in RoleId /\ rows[k].name \in Text
    BY <1>0, <1>17, RowsOnScreen DEF ClickPencil, ClickRemove, Row
  <2>2. {rows[k].id} \in SUBSET RoleId
    BY <2>1
  <2> QED BY <1>14, <1>15, <1>17, <2>1, <2>2 DEF ClickPencil, ClickRemove, ShowConfirmModal
<1>18. CASE ClickBatchRemove
  <2>1. checked \in SUBSET RoleId
    BY <1>0, RowsOnScreen
  <2> QED BY <1>14, <1>15, <1>18, <2>1 DEF ClickBatchRemove, CheckedIds, ShowConfirmModal
<1>19. ASSUME NEW n \in Text, TypeName(n) PROVE TypeOK'
  <2>1. DialogTyped'
    BY <1>6, <1>19 DEF TypeName, DialogTyped, Modal
  <2> QED BY <1>0, <1>1, <1>2, <1>3, <1>4, <1>19, <2>1 DEF TypeName
<1>20. CASE SaveRole
  <2>1. RequestsTyped'
    BY <1>0, <1>6, <1>15, <1>20, SentTyped DEF SaveRole
  <2>2. DialogTyped'
    BY <1>6, <1>12, <1>15, <1>20 DEF SaveRole, DialogTyped, AfterSave
  <2> QED BY <1>0, <1>1, <1>2, <1>4, <1>20, <2>1, <2>2 DEF SaveRole
<1>21. CASE UpdateRole \/ RemoveRole
  <2>1. modal.ids \in SUBSET RoleId /\ modal.text \in Text
    BY <1>6 DEF Modal
  <2>2. RequestsTyped'
    BY <1>0, <1>6, <1>15, <1>21, <2>1, SentTyped DEF UpdateRole, RemoveRole
  <2>3. DialogTyped'
    BY <1>6, <1>12, <1>21 DEF UpdateRole, RemoveRole, DialogTyped
  <2> QED BY <1>0, <1>1, <1>2, <1>4, <1>21, <2>2, <2>3 DEF UpdateRole, RemoveRole
<1>22. ASSUME NEW r \in DOMAIN ajax, Executed(r) \/ AnswerLost(r) \/ Refused(r)
       PROVE  TypeOK'
  <2>1. PICK status \in {"ok", "error"} : Serve(r, status)
    BY <1>22 DEF Executed, AnswerLost, Refused
  <2>2. RequestsTyped'
    BY <1>0, <2>1, ServedTyped
  <2>3. r.name \in Text
    BY <1>0 DEF RequestsTyped, AjaxRequest
  <2>4. TableTyped'
    <3>1. CASE Execute(r)
      BY <1>0, <2>3, <3>1, TableKept DEF Execute
    <3>2. CASE Refused(r)
      BY <1>2, <3>2 DEF Refused
    <3> QED BY <1>22, <3>1, <3>2 DEF Executed, AnswerLost
  <2>5. outdated' \in BOOLEAN
    BY <1>0, <1>22 DEF Executed, AnswerLost, Refused, ListTyped
  <2>6. ListTyped'
    BY <1>0, <2>1, <2>5 DEF Serve, ListTyped, RowIds
  <2> QED BY <1>0, <1>1, <1>5, <2>1, <2>2, <2>4, <2>6 DEF Serve
<1>23. ASSUME NEW r \in DOMAIN ajax, Answered(r) PROVE TypeOK'
  <2>1. IsABag(ajax') /\ DOMAIN ajax' \subseteq DOMAIN ajax
    BY <1>0, <1>23, BagLoses DEF Answered, RequestsTyped
  <2>2. RequestsTyped'
    BY <1>0, <2>1 DEF RequestsTyped
  <2>3. PageAfter(r) \in 1..MaxRole
    BY <1>6, RoleBounds DEF PageAfter
  <2>4. ListTyped'
    BY <1>0, <1>4, <1>6, <1>23, <2>3, LoadTyped DEF Answered
  <2> QED BY <1>0, <1>1, <1>2, <1>5, <1>23, <2>2, <2>4 DEF Answered
<1>24. CASE Revisit
  <2>1. RequestsTyped'
    <3>1. ajax' = [e \in {} |-> 1]
      BY <1>24 DEF Revisit, EmptyBag, SetToBag
    <3> QED BY <3>1 DEF RequestsTyped, IsABag
  <2>2. ListTyped'
    <3>1. 1 \in 1..MaxRole
      BY RoleBounds
    <3> QED BY <1>0, <1>15, <1>24, <3>1, LoadTyped DEF Revisit
  <2>3. DialogTyped' /\ summaryBox' \in BOOLEAN
    BY <1>15, <1>24 DEF Revisit, DialogTyped, NoModal, Modal
  <2> QED BY <1>1, <1>2, <1>24, <2>1, <2>2, <2>3 DEF Revisit
<1>25. CASE OtherAdmin
  <2>1. TableTyped'
    BY <1>0, <1>25, TableKept DEF OtherAdmin
  <2>2. ListTyped'
    BY <1>0, <1>25 DEF OtherAdmin, ListTyped, RowIds
  <2> QED BY <1>0, <1>1, <1>3, <1>5, <1>25, <2>1, <2>2 DEF OtherAdmin
<1>26. CASE UNCHANGED vars
  BY <1>0, <1>1, <1>2, <1>3, <1>4, <1>5, <1>26 DEF vars
<1> QED BY <1>7, <1>8, <1>10, <1>11, <1>13, <1>16, <1>17, <1>18, <1>19, <1>20, <1>21, <1>22,
           <1>23, <1>24, <1>25, <1>26 DEF Next

\* The variables have the types of the columns and of the script's values; a
\* page number always is that of a page there can be, since a link leads only
\* to a page of the list it is drawn below.
THEOREM TypeCorrect == Spec => []TypeOK
BY LinksInit, LinksStep, TypesInit, TypesStep, PTL DEF Spec
=============================================================================
