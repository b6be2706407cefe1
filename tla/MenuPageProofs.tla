--------------------------- MODULE MenuPageProofs ---------------------------
(***************************************************************************)
(* What TLAPS proves of the page of menus, for any number of menus, any    *)
(* texts and any number of requests under way: the types of the variables, *)
(* that the tree on the screen is the table's once the tab waits for       *)
(* nothing, and that clicks in such a tree keep every menu's parent.       *)
(***************************************************************************)
EXTENDS MenuPage, SequenceTheorems, TLAPS

-----------------------------------------------------------------------------
(***************************************************************************)
(* The inductive invariant.                                                *)
(***************************************************************************)

\* No dialog and no request removes the root, in whatever tree the click was.
RootStays ==
    /\ modal.kind = "confirm" => modal.id # Root
    /\ \A k \in DOMAIN ajax : ajax[k].op = "remove" => ajax[k].id # Root

\* The tree on the screen is the table's unless a tree is on its way, or a
\* change was executed whose answer will ask for one.
Drawn ==
    \/ outdated
    \/ \E k \in DOMAIN ajax : ajax[k].op = "tree" \/ ajax[k].status = "ok"
    \/ tree = menu_t

\* A tree that was read and not overtaken is the table's, unless one asked for
\* later will be drawn over it, or a change was executed meanwhile.
ReadLast ==
    \A k \in DOMAIN ajax :
        ajax[k].op = "tree" /\ ajax[k].status = "ok" /\ ~ajax[k].late =>
            \/ ajax[k].rows = menu_t
            \/ \E l \in DOMAIN ajax : l > k /\ ajax[l].op = "tree"
            \/ \E l \in DOMAIN ajax : ajax[l].op # "tree" /\ ajax[l].status = "ok"

\* Every menu is the root, a branch below it, or a leaf below a branch: the
\* levels for which a node has buttons.
TwoLevels ==
    /\ menu_t[Root].pid = 0
    /\ \A i \in DOMAIN menu_t \ {Root} :
         \/ menu_t[i].pid = Root
         \/ menu_t[i].pid \in DOMAIN menu_t /\ menu_t[menu_t[i].pid].pid = Root

\* The changes under way: that of the dialog on the screen and those that were
\* sent, as the kind of the dialog and the menu.
KindOf(op) ==
    IF op = "save" THEN "add" ELSE IF op = "update" THEN "edit"
    ELSE IF op = "remove" THEN "confirm" ELSE "none"
Change == {"add", "edit", "confirm"} \X (0..MaxMenu)
Underway ==
    {e \in Change : \/ e = <<modal.kind, modal.id>>
                    \/ \E k \in DOMAIN ajax : e = <<KindOf(ajax[k].op), ajax[k].id>>}

\* What the buttons saw when the dialog was opened, and is still so.
Allowed(e) ==
    /\ e[1] = "add" =>
         e[2] \in DOMAIN menu_t /\ (e[2] = Root \/ menu_t[e[2]].pid = Root)
    /\ e[1] = "confirm" => e[2] # Root /\ Children(menu_t, e[2]) = {}

\* Without a race one change is under way at a time, however often its button
\* was clicked, and it is one that keeps the tree whole.
OneChange == \A e, f \in Underway : e = f /\ Allowed(e)

Unraced == EveryParentFound /\ TwoLevels /\ OneChange

MenuInv ==
    /\ TypeOK
    /\ RootStays
    /\ Drawn /\ ReadLast
    /\ ~raced => Unraced

-----------------------------------------------------------------------------
(***************************************************************************)
(* Sequences and tables of rows.                                           *)
(***************************************************************************)

\* A function on 1..n is a sequence.
LEMMA FunctionIsSeq ==
    ASSUME NEW S, NEW n \in Nat, NEW f \in [1..n -> S]
    PROVE  f \in Seq(S) /\ Len(f) = n /\ DOMAIN f = 1..n
<1>1. f \in Seq(S)
  BY SeqDef
<1>2. DOMAIN f = 1..n
  OBVIOUS
<1> QED
  BY <1>1, <1>2, LenProperties

\* RemoveAt drops one element and keeps the order of the others.
LEMMA RemoveAtIsSeq ==
    ASSUME NEW S, NEW q \in Seq(S), NEW i \in DOMAIN q
    PROVE  /\ RemoveAt(q, i) \in Seq(S)
           /\ Len(RemoveAt(q, i)) = Len(q) - 1
           /\ DOMAIN RemoveAt(q, i) = 1..Len(q) - 1
           /\ \A k \in 1..Len(q) - 1 : RemoveAt(q, i)[k] = q[IF k < i THEN k ELSE k + 1]
<1> DEFINE a == SubSeq(q, 1, i - 1)
           b == SubSeq(q, i + 1, Len(q))
<1>0. Len(q) \in Nat /\ i \in 1..Len(q) /\ \A k \in 1..Len(q) : q[k] \in S
  BY LenProperties
<1>1. /\ a \in Seq(S) /\ Len(a) = i - 1
      /\ \A k \in 1..i - 1 : a[k] = q[k]
  <2>1. 1 \in Int /\ i - 1 \in Int /\ \A k \in 1..i - 1 : q[k] \in S
    BY <1>0
  <2> QED
    BY <2>1, <1>0, SubSeqProperties
<1>2. /\ b \in Seq(S) /\ Len(b) = Len(q) - i
      /\ \A k \in 1..Len(q) - i : b[k] = q[k + i]
  <2>1. i + 1 \in Int /\ Len(q) \in Int /\ \A k \in i + 1..Len(q) : q[k] \in S
    BY <1>0
  <2> QED
    BY <2>1, <1>0, SubSeqProperties
<1>3. RemoveAt(q, i) = a \o b
  BY DEF RemoveAt
<1> HIDE DEF a, b
<1>4. /\ a \o b \in Seq(S) /\ Len(a \o b) = Len(q) - 1
      /\ \A k \in 1..Len(q) - 1 : (a \o b)[k] = IF k <= i - 1 THEN a[k] ELSE b[k - (i - 1)]
  <2>1. /\ a \o b \in Seq(S) /\ Len(a \o b) = Len(a) + Len(b)
        /\ \A k \in 1..Len(a) + Len(b) :
             (a \o b)[k] = IF k <= Len(a) THEN a[k] ELSE b[k - Len(a)]
    BY <1>1, <1>2, ConcatProperties
  <2>2. Len(a) + Len(b) = Len(q) - 1
    BY <1>0, <1>1, <1>2
  <2> QED
    BY <1>1, <2>1, <2>2
<1>5. \A k \in 1..Len(q) - 1 : (a \o b)[k] = q[IF k < i THEN k ELSE k + 1]
  <2> TAKE k \in 1..Len(q) - 1
  <2>1. CASE k < i
    BY <2>1, <1>0, <1>1, <1>4
  <2>2. CASE ~(k < i)
    <3>1. k - (i - 1) \in 1..Len(q) - i
      BY <2>2, <1>0
    <3>2. b[k - (i - 1)] = q[(k - (i - 1)) + i] /\ (k - (i - 1)) + i = k + 1
      BY <3>1, <1>0, <1>2
    <3> QED
      BY <3>2, <2>2, <1>0, <1>4
  <2> QED
    BY <2>1, <2>2
<1> QED
  BY <1>3, <1>4, <1>5, LenProperties

\* A table is a function from some of the ids to rows.
LEMMA TableIs ==
    ASSUME NEW ids \in SUBSET MenuId, NEW f \in [ids -> Row]
    PROVE  f \in RowTable
BY DEF RowTable

LEMMA TableHas ==
    ASSUME NEW f \in RowTable
    PROVE  DOMAIN f \subseteq MenuId /\ f \in [DOMAIN f -> Row]
BY DEF RowTable

\* The empty table, of a request that was not answered.
LEMMA NoRowsIsTable == NoRows \in RowTable
<1>1. << >> \in Seq(Row) /\ Len(<< >>) = 0
  BY EmptySeq
<1>2. << >> \in [1..0 -> Row]
  BY <1>1, LenProperties
<1>3. 1..0 = {}
  OBVIOUS
<1> QED
  BY <1>2, <1>3, TableIs DEF NoRows

LEMMA AnyTextIsText == AnyText \in Text
BY TextAssumption DEF AnyText

LEMMA GenerateTreeIsRequest == GenerateTree \in RequestRecord
BY AnyTextIsText, NoRowsIsTable, MenuBounds DEF GenerateTree, Request, RequestRecord


-----------------------------------------------------------------------------
(***************************************************************************)
(* What each step makes of the requests: the sequence after it, and where  *)
(* the requests in it come from.                                           *)
(***************************************************************************)

Requests(q) == q \in Seq(RequestRecord) /\ Len(q) <= MaxAjax

\* Request k of a sequence is request l of an older one, or a new one for the tree.
Same(r, old) == r.op = old.op /\ r.id = old.id
Kept ==
    \A k \in DOMAIN ajax' :
        \/ ajax'[k].op = "tree"
        \/ \E l \in DOMAIN ajax : Same(ajax'[k], ajax[l])

LEMMA AjaxTyped ==
    ASSUME TypeOK
    PROVE  /\ Len(ajax) \in Nat /\ DOMAIN ajax = 1..Len(ajax)
           /\ \A k \in DOMAIN ajax : ajax[k] \in RequestRecord
BY LenProperties DEF TypeOK

\* An answer's status is set on one request.
LEMMA StatusShape ==
    ASSUME TypeOK, NEW i \in DOMAIN ajax, NEW status \in {"ok", "error"}, NEW q,
           q = [ajax EXCEPT ![i].status = status]
    PROVE  /\ q \in Seq(RequestRecord) /\ Len(q) = Len(ajax) /\ DOMAIN q = DOMAIN ajax
           /\ \A k \in DOMAIN ajax \ {i} : q[k] = ajax[k]
           /\ Same(q[i], ajax[i]) /\ q[i].status = status
           /\ q[i].rows = ajax[i].rows /\ q[i].late = ajax[i].late
<1> DEFINE r == [ajax[i] EXCEPT !.status = status]
<1>1. ajax \in Seq(RequestRecord) /\ i \in 1..Len(ajax) /\ ajax[i] \in RequestRecord
  BY AjaxTyped DEF TypeOK
<1>2. /\ r \in RequestRecord /\ Same(r, ajax[i]) /\ r.status = status
      /\ r.rows = ajax[i].rows /\ r.late = ajax[i].late
  BY <1>1 DEF RequestRecord, Same
<1>3. q = [ajax EXCEPT ![i] = r]
  OBVIOUS
<1> HIDE DEF r
<1>4. /\ q \in Seq(RequestRecord) /\ Len(q) = Len(ajax)
      /\ \A k \in 1..Len(ajax) : q[k] = IF k = i THEN r ELSE ajax[k]
  BY <1>1, <1>2, <1>3, ExceptSeq
<1>5. DOMAIN q = DOMAIN ajax
  BY <1>1, <1>4, LenProperties
<1> QED
  BY <1>1, <1>2, <1>4, <1>5, AjaxTyped

\* The trees that were read become late, and nothing else changes.
LEMMA ReadBeforeShape ==
    ASSUME NEW q \in Seq(RequestRecord)
    PROVE  /\ ReadBefore(q) \in Seq(RequestRecord)
           /\ Len(ReadBefore(q)) = Len(q) /\ DOMAIN ReadBefore(q) = DOMAIN q
           /\ \A k \in DOMAIN q :
                /\ Same(ReadBefore(q)[k], q[k])
                /\ ReadBefore(q)[k].status = q[k].status
                /\ ReadBefore(q)[k].rows = q[k].rows
                /\ q[k].op = "tree" /\ q[k].status = "ok" => ReadBefore(q)[k].late
<1> DEFINE late(k) == q[k].late \/ (q[k].op = "tree" /\ q[k].status = "ok")
           r(k) == [q[k] EXCEPT !.late = late(k)]
<1>1. /\ Len(q) \in Nat /\ DOMAIN q = 1..Len(q)
      /\ \A k \in DOMAIN q : q[k] \in RequestRecord
  BY LenProperties
<1>2. ReadBefore(q) = [k \in 1..Len(q) |-> r(k)]
  BY <1>1 DEF ReadBefore
<1>3. ASSUME NEW k \in 1..Len(q)
      PROVE  /\ r(k) \in RequestRecord /\ Same(r(k), q[k]) /\ r(k).status = q[k].status
             /\ r(k).rows = q[k].rows /\ r(k).late = late(k)
  <2>1. late(k) \in BOOLEAN
    BY <1>1 DEF RequestRecord
  <2> HIDE DEF late
  <2> QED
    BY <1>1, <2>1 DEF RequestRecord, Same
<1> HIDE DEF r
<1>4. ReadBefore(q) \in [1..Len(q) -> RequestRecord]
  BY <1>2, <1>3
<1>5. /\ ReadBefore(q) \in Seq(RequestRecord)
      /\ Len(ReadBefore(q)) = Len(q) /\ DOMAIN ReadBefore(q) = 1..Len(q)
  BY <1>1, <1>4, FunctionIsSeq
<1>6. \A k \in 1..Len(q) : ReadBefore(q)[k] = r(k)
  BY <1>2
<1> QED
  BY <1>1, <1>3, <1>5, <1>6

\* The earlier requests for the tree become late, and nothing else changes.
LEMMA OvertakeShape ==
    ASSUME TypeOK, NEW i \in DOMAIN ajax
    PROVE  /\ Overtake(i) \in Seq(RequestRecord)
           /\ Len(Overtake(i)) = Len(ajax) /\ DOMAIN Overtake(i) = DOMAIN ajax
           /\ \A k \in DOMAIN ajax :
                /\ Same(Overtake(i)[k], ajax[k])
                /\ Overtake(i)[k].status = ajax[k].status
                /\ Overtake(i)[k].rows = ajax[k].rows
                /\ Overtake(i)[k].late <=> ajax[k].late \/ (k < i /\ ajax[k].op = "tree")
<1> DEFINE r(k) == IF k < i /\ ajax[k].op = "tree" THEN [ajax[k] EXCEPT !.late = TRUE] ELSE ajax[k]
<1>1. /\ Len(ajax) \in Nat /\ DOMAIN ajax = 1..Len(ajax)
      /\ \A k \in DOMAIN ajax : ajax[k] \in RequestRecord
  BY AjaxTyped
<1>2. Overtake(i) = [k \in 1..Len(ajax) |-> r(k)]
  BY <1>1 DEF Overtake
<1>3. ASSUME NEW k \in 1..Len(ajax)
      PROVE  /\ r(k) \in RequestRecord /\ Same(r(k), ajax[k]) /\ r(k).status = ajax[k].status
             /\ r(k).rows = ajax[k].rows
             /\ r(k).late <=> ajax[k].late \/ (k < i /\ ajax[k].op = "tree")
  BY <1>1 DEF RequestRecord, Same
<1> HIDE DEF r
<1>4. Overtake(i) \in [1..Len(ajax) -> RequestRecord]
  BY <1>2, <1>3
<1>5. /\ Overtake(i) \in Seq(RequestRecord)
      /\ Len(Overtake(i)) = Len(ajax) /\ DOMAIN Overtake(i) = 1..Len(ajax)
  BY <1>1, <1>4, FunctionIsSeq
<1>6. \A k \in 1..Len(ajax) : Overtake(i)[k] = r(k)
  BY <1>2
<1> QED
  BY <1>1, <1>3, <1>5, <1>6


\* Where the elements of RemoveAt(q, i) come from, and where those of q go.
Old(k, i) == IF k < i THEN k ELSE k + 1
New(l, i) == IF l < i THEN l ELSE l - 1

LEMMA OldAndNew ==
    ASSUME NEW n \in Nat, NEW i \in 1..n
    PROVE  /\ \A k \in 1..n - 1 : Old(k, i) \in 1..n \ {i}
           /\ \A l \in 1..n \ {i} : New(l, i) \in 1..n - 1 /\ Old(New(l, i), i) = l
           /\ \A k \in 1..n - 1, l \in 1..n \ {i} : l > Old(k, i) => New(l, i) > k
BY DEF Old, New

\* The answer to a change is taken out, and the tree asked for after a success.
LEMMA ChangeAnsweredShape ==
    ASSUME TypeOK, NEW i \in DOMAIN ajax, ChangeAnswered(i), NEW n, n = Len(ajax)
    PROVE  /\ n \in Nat \ {0} /\ i \in 1..n /\ DOMAIN ajax = 1..n
           /\ ajax' \in Seq(RequestRecord) /\ Len(ajax') <= n
           /\ \A k \in 1..n - 1 : k \in DOMAIN ajax' /\ ajax'[k] = ajax[Old(k, i)]
           /\ ajax[i].status = "ok" => DOMAIN ajax' = 1..n /\ ajax'[n] = GenerateTree
           /\ ajax[i].status # "ok" => DOMAIN ajax' = 1..n - 1
<1> DEFINE r == RemoveAt(ajax, i)
<1>1. /\ n \in Nat \ {0} /\ i \in 1..n /\ DOMAIN ajax = 1..n
      /\ ajax \in Seq(RequestRecord)
  BY AjaxTyped DEF TypeOK
<1>2. /\ r \in Seq(RequestRecord) /\ Len(r) = n - 1 /\ DOMAIN r = 1..n - 1
      /\ \A k \in 1..n - 1 : r[k] = ajax[Old(k, i)]
  BY <1>1, RemoveAtIsSeq DEF Old
<1>3. ajax' = r \o Follow(ajax[i])
  BY DEF ChangeAnswered
<1> HIDE DEF r
<1>4. CASE ajax[i].status = "ok"
  <2>1. ajax' = Append(r, GenerateTree)
    BY <1>2, <1>3, <1>4, GenerateTreeIsRequest, AppendIsConcat DEF Follow
  <2>2. /\ ajax' \in Seq(RequestRecord) /\ Len(ajax') = n
        /\ \A k \in 1..n - 1 : ajax'[k] = r[k]
        /\ ajax'[n] = GenerateTree
    BY <1>1, <1>2, <2>1, GenerateTreeIsRequest, AppendProperties
  <2>3. DOMAIN ajax' = 1..n
    BY <2>2, LenProperties
  <2> QED
    BY <1>1, <1>2, <1>4, <2>2, <2>3
<1>5. CASE ajax[i].status # "ok"
  <2>1. ajax' = r
    BY <1>2, <1>3, <1>5, ConcatEmptySeq DEF Follow
  <2> QED
    BY <1>1, <1>2, <1>5, <2>1
<1> QED
  BY <1>4, <1>5

\* The answer that is drawn is taken out, and those asked for before it are late.
LEMMA TreeAnsweredShape ==
    ASSUME TypeOK, NEW i \in DOMAIN ajax, TreeAnswered(i), NEW n, n = Len(ajax)
    PROVE  /\ n \in Nat \ {0} /\ i \in 1..n /\ DOMAIN ajax = 1..n
           /\ ajax' \in Seq(RequestRecord) /\ Len(ajax') = n - 1 /\ DOMAIN ajax' = 1..n - 1
           /\ \A k \in 1..n - 1 :
                /\ Same(ajax'[k], ajax[Old(k, i)])
                /\ ajax'[k].status = ajax[Old(k, i)].status
                /\ ajax'[k].rows = ajax[Old(k, i)].rows
                /\ ajax'[k].late <=>
                     ajax[Old(k, i)].late \/ (Old(k, i) < i /\ ajax[Old(k, i)].op = "tree")
<1> DEFINE q == Overtake(i)
<1>1. n \in Nat \ {0} /\ i \in 1..n /\ DOMAIN ajax = 1..n
  BY AjaxTyped DEF TypeOK
<1>2. /\ q \in Seq(RequestRecord) /\ Len(q) = n /\ DOMAIN q = 1..n
      /\ \A l \in 1..n :
           /\ Same(q[l], ajax[l]) /\ q[l].status = ajax[l].status
           /\ q[l].rows = ajax[l].rows
           /\ q[l].late <=> ajax[l].late \/ (l < i /\ ajax[l].op = "tree")
  BY <1>1, OvertakeShape
<1>3. ajax' = RemoveAt(q, i)
  BY DEF TreeAnswered
<1> HIDE DEF q
<1>4. /\ ajax' \in Seq(RequestRecord) /\ Len(ajax') = n - 1 /\ DOMAIN ajax' = 1..n - 1
      /\ \A k \in 1..n - 1 : ajax'[k] = q[Old(k, i)]
  BY <1>1, <1>2, <1>3, RemoveAtIsSeq DEF Old
<1>5. \A k \in 1..n - 1 : Old(k, i) \in 1..n
  BY <1>1, OldAndNew
<1> QED
  BY <1>1, <1>2, <1>4, <1>5

\* A tree is read whole.
LEMMA GetTreeShape ==
    ASSUME TypeOK, NEW i \in DOMAIN ajax, GetTree(i)
    PROVE  /\ ajax' \in Seq(RequestRecord) /\ Len(ajax') = Len(ajax) /\ DOMAIN ajax' = DOMAIN ajax
           /\ \A k \in DOMAIN ajax \ {i} : ajax'[k] = ajax[k]
           /\ Same(ajax'[i], ajax[i]) /\ ajax'[i].status = "ok" /\ ajax'[i].rows = menu_t
<1> DEFINE r == [ajax[i] EXCEPT !.status = "ok", !.rows = menu_t]
<1>1. ajax \in Seq(RequestRecord) /\ i \in 1..Len(ajax) /\ ajax[i] \in RequestRecord
  BY AjaxTyped DEF TypeOK
<1>2. /\ r \in RequestRecord /\ Same(r, ajax[i]) /\ r.status = "ok" /\ r.rows = menu_t
  BY <1>1 DEF RequestRecord, Same, TypeOK
<1>3. ajax' = [ajax EXCEPT ![i] = r]
  BY <1>1 DEF GetTree
<1> HIDE DEF r
<1>4. /\ ajax' \in Seq(RequestRecord) /\ Len(ajax') = Len(ajax)
      /\ \A k \in 1..Len(ajax) : ajax'[k] = IF k = i THEN r ELSE ajax[k]
  BY <1>1, <1>2, <1>3, ExceptSeq
<1>5. DOMAIN ajax' = DOMAIN ajax
  BY <1>1, <1>4, LenProperties
<1> QED
  BY <1>1, <1>2, <1>4, <1>5, AjaxTyped

\* A change is sent behind the others.
LEMMA SendShape ==
    ASSUME TypeOK, NEW kind, NEW op \in {"save", "update", "remove"}, NEW text \in Text,
           Send(kind, op, text), NEW n, n = Len(ajax)
    PROVE  /\ n \in Nat /\ DOMAIN ajax = 1..n
           /\ Requests(ajax') /\ DOMAIN ajax' = 1..n + 1
           /\ \A k \in 1..n : ajax'[k] = ajax[k]
           /\ ajax'[n + 1].op = op /\ ajax'[n + 1].id = modal.id
           /\ ajax'[n + 1].status = "sent"
<1> DEFINE r == Request(op, modal.id, text)
<1>1. ajax \in Seq(RequestRecord) /\ n \in Nat /\ DOMAIN ajax = 1..n /\ n < MaxAjax
  BY AjaxTyped DEF TypeOK, Send
<1>2. r \in RequestRecord /\ r.op = op /\ r.id = modal.id /\ r.status = "sent"
  BY NoRowsIsTable DEF Request, RequestRecord, TypeOK
<1>3. ajax' = Append(ajax, r)
  BY DEF Send
<1> HIDE DEF r
<1>4. /\ ajax' \in Seq(RequestRecord) /\ Len(ajax') = n + 1
      /\ \A k \in 1..n : ajax'[k] = ajax[k]
      /\ ajax'[n + 1] = r
  BY <1>1, <1>2, <1>3, AppendProperties
<1>5. DOMAIN ajax' = 1..n + 1
  BY <1>4, LenProperties
<1> QED
  BY <1>1, <1>2, <1>4, <1>5, MenuBounds DEF Requests

\* The page asks for the tree when it is opened.
LEMMA FirstRequest ==
    ASSUME NEW q, q = <<GenerateTree>>
    PROVE  /\ Requests(q) /\ DOMAIN q = {1}
           /\ q[1].op = "tree" /\ q[1].status = "sent"
<1>1. Append(<< >>, GenerateTree) = q
  OBVIOUS
<1>2. << >> \in Seq(RequestRecord) /\ Len(<< >>) = 0
  BY EmptySeq
<1>3. q \in Seq(RequestRecord) /\ Len(q) = 1 /\ q[1] = GenerateTree
  BY <1>1, <1>2, GenerateTreeIsRequest, AppendProperties
<1>4. DOMAIN q = 1..1
  BY <1>3, LenProperties
<1>5. GenerateTree.op = "tree" /\ GenerateTree.status = "sent"
  BY DEF GenerateTree, Request
<1> QED
  BY <1>3, <1>4, <1>5, MenuBounds DEF Requests


-----------------------------------------------------------------------------
(***************************************************************************)
(* Types, and the root.                                                    *)
(***************************************************************************)

TableTyped ==
    /\ menu_t \in RowTable /\ Root \in DOMAIN menu_t
    /\ DOMAIN menu_t \subseteq 1..nextId - 1
    /\ nextId \in 1..MaxMenu + 1
TabTyped ==
    /\ modal \in [kind : {"none", "add", "edit", "confirm"}, shown : BOOLEAN, id : 0..MaxMenu]
    /\ outdated \in BOOLEAN /\ raced \in BOOLEAN

LEMMA NoModalTyped ==
    /\ NoModal \in [kind : {"none", "add", "edit", "confirm"}, shown : BOOLEAN, id : 0..MaxMenu]
    /\ NoModal.kind = "none"
BY MenuBounds DEF NoModal

LEMMA TypesSplit == TypeOK <=> TableTyped /\ TabTyped /\ tree \in RowTable /\ Requests(ajax)
BY DEF TypeOK, TableTyped, TabTyped, Requests

LEMMA InsertTyped ==
    ASSUME TableTyped, NEW pid \in 0..MaxMenu, NEW text \in Text, insert(pid, text)
    PROVE  TableTyped' /\ nextId \notin DOMAIN menu_t
<1> DEFINE row == [pid |-> pid, text |-> text]
           ids == DOMAIN menu_t \cup {nextId}
<1>1. row \in Row
  BY DEF Row
<1>2. menu_t' = [i \in ids |-> IF i = nextId THEN row ELSE menu_t[i]]
  BY DEF insert
<1> HIDE DEF row
<1>3. nextId \in MenuId /\ nextId' = nextId + 1 /\ MaxMenu \in Nat
  BY MenuBounds DEF insert
<1>4. ids \in SUBSET MenuId /\ ids \subseteq 1..nextId' - 1 /\ Root \in ids /\ nextId \notin DOMAIN menu_t
  BY <1>3, TableHas DEF TableTyped, MenuId
<1>5. menu_t' \in [ids -> Row]
  BY <1>1, <1>2, TableHas DEF TableTyped
<1>6. nextId' \in 1..MaxMenu + 1
  BY <1>3 DEF MenuId
<1> QED
  BY <1>4, <1>5, <1>6, TableIs DEF TableTyped

LEMMA UpdateTyped ==
    ASSUME TableTyped, NEW id, NEW text \in Text, updateByPrimaryKeySelective(id, text)
    PROVE  /\ TableTyped' /\ DOMAIN menu_t' = DOMAIN menu_t
           /\ \A i \in DOMAIN menu_t : menu_t'[i].pid = menu_t[i].pid
<1> DEFINE row(i) == IF i = id THEN [menu_t[i] EXCEPT !.text = text] ELSE menu_t[i]
<1>1. ASSUME NEW i \in DOMAIN menu_t PROVE row(i) \in Row /\ row(i).pid = menu_t[i].pid
  BY TableHas DEF TableTyped, Row
<1>2. menu_t' = [i \in DOMAIN menu_t |-> row(i)] /\ nextId' = nextId
  BY DEF updateByPrimaryKeySelective
<1> HIDE DEF row
<1>3. menu_t' \in [DOMAIN menu_t -> Row]
  BY <1>1, <1>2
<1> QED
  BY <1>1, <1>2, <1>3, TableHas, TableIs DEF TableTyped

LEMMA DeleteTyped ==
    ASSUME TableTyped, NEW id, id # Root, deleteByPrimaryKey(id)
    PROVE  /\ TableTyped' /\ DOMAIN menu_t' = DOMAIN menu_t \ {id}
           /\ \A i \in DOMAIN menu_t \ {id} : menu_t'[i] = menu_t[i]
<1>1. menu_t' = [i \in DOMAIN menu_t \ {id} |-> menu_t[i]] /\ nextId' = nextId
  BY DEF deleteByPrimaryKey
<1>2. menu_t' \in [DOMAIN menu_t \ {id} -> Row]
  BY <1>1, TableHas DEF TableTyped
<1> QED
  BY <1>1, <1>2, TableHas, TableIs DEF TableTyped

\* Only a change has an effect when it is executed.
LEMMA ExecuteTyped ==
    ASSUME TypeOK, RootStays, NEW i \in DOMAIN ajax, Execute(ajax[i])
    PROVE  TableTyped' /\ ajax[i].op # "tree"
<1>1. TableTyped /\ ajax[i].id \in 0..MaxMenu /\ ajax[i].text \in Text
  BY TypesSplit, AjaxTyped DEF RequestRecord
<1>2. CASE ajax[i].op = "save" /\ insert(ajax[i].id, ajax[i].text)
  BY <1>1, <1>2, InsertTyped
<1>3. CASE ajax[i].op = "update" /\ updateByPrimaryKeySelective(ajax[i].id, ajax[i].text)
  BY <1>1, <1>3, UpdateTyped
<1>4. CASE ajax[i].op = "remove" /\ deleteByPrimaryKey(ajax[i].id)
  BY <1>1, <1>4, DeleteTyped DEF RootStays
<1> QED
  BY <1>2, <1>3, <1>4 DEF Execute

\* A change of the other administrator is one of three, and not of the root.
OtherChange ==
    \/ \E i \in DOMAIN menu_t, t \in Text : Level(menu_t, i) < 2 /\ insert(i, t)
    \/ \E i \in DOMAIN menu_t \ {Root}, t \in Text : updateByPrimaryKeySelective(i, t)
    \/ \E i \in DOMAIN menu_t \ {Root} : Children(menu_t, i) = {} /\ deleteByPrimaryKey(i)

LEMMA OtherTyped ==
    ASSUME TypeOK, OtherChange
    PROVE  TableTyped'
<1>1. TableTyped
  BY TypesSplit
<1>2. ASSUME NEW i \in DOMAIN menu_t, NEW t \in Text, insert(i, t) PROVE TableTyped'
  <2>1. i \in 0..MaxMenu
    BY <1>1, MenuBounds, TableHas DEF TableTyped, MenuId
  <2> QED
    BY <1>1, <1>2, <2>1, InsertTyped
<1>3. ASSUME NEW i \in DOMAIN menu_t, NEW t \in Text, updateByPrimaryKeySelective(i, t)
      PROVE  TableTyped'
  BY <1>1, <1>3, UpdateTyped
<1>4. ASSUME NEW i \in DOMAIN menu_t \ {Root}, deleteByPrimaryKey(i) PROVE TableTyped'
  BY <1>1, <1>4, DeleteTyped
<1> QED
  BY <1>2, <1>3, <1>4 DEF OtherChange


\* A request that is executed, read or answered leaves requests of the same
\* kinds, and new ones for the tree.
LEMMA AnswersKeep ==
    ASSUME TypeOK, NEW i \in DOMAIN ajax,
           \/ Executed(i) \/ AnswerLost(i) \/ Refused(i) \/ GetTree(i)
           \/ ChangeAnswered(i) \/ TreeAnswered(i)
    PROVE  Requests(ajax') /\ Kept
<1>1. ajax \in Seq(RequestRecord) /\ Len(ajax) <= MaxAjax /\ Len(ajax) \in Nat
  BY AjaxTyped DEF TypeOK
<1>2. MaxAjax \in Nat
  BY MenuBounds
<1>3. ASSUME NEW status \in {"ok", "error"}, Status(i, status) PROVE Requests(ajax') /\ Kept
  BY <1>1, <1>3, StatusShape DEF Status, Requests, Kept, Same
<1>4. CASE Executed(i) \/ Refused(i)
  BY <1>3, <1>4 DEF Executed, Refused
<1>5. CASE AnswerLost(i)
  <2> DEFINE q == [ajax EXCEPT ![i].status = "error"]
  <2>1. /\ q \in Seq(RequestRecord) /\ Len(q) = Len(ajax) /\ DOMAIN q = DOMAIN ajax
        /\ \A k \in DOMAIN ajax : Same(q[k], ajax[k])
    <3>1. q = [ajax EXCEPT ![i].status = "error"]
      OBVIOUS
    <3> HIDE DEF q
    <3>2. /\ q \in Seq(RequestRecord) /\ Len(q) = Len(ajax) /\ DOMAIN q = DOMAIN ajax
          /\ \A k \in DOMAIN ajax \ {i} : q[k] = ajax[k]
          /\ Same(q[i], ajax[i])
      BY <3>1, StatusShape
    <3> QED
      BY <3>2 DEF Same
  <2>2. ajax' = ReadBefore(q)
    BY <1>5 DEF AnswerLost
  <2> HIDE DEF q
  <2>3. /\ ajax' \in Seq(RequestRecord) /\ Len(ajax') = Len(q) /\ DOMAIN ajax' = DOMAIN q
        /\ \A k \in DOMAIN q : Same(ajax'[k], q[k])
    BY <2>1, <2>2, ReadBeforeShape
  <2> QED
    BY <1>1, <2>1, <2>3 DEF Requests, Kept, Same
<1>6. CASE GetTree(i)
  BY <1>1, <1>6, GetTreeShape DEF Requests, Kept, Same
<1>7. CASE ChangeAnswered(i)
  <2> DEFINE n == Len(ajax)
  <2>1. n = Len(ajax)
    OBVIOUS
  <2> HIDE DEF n
  <2>2. /\ n \in Nat \ {0} /\ i \in 1..n /\ DOMAIN ajax = 1..n
        /\ ajax' \in Seq(RequestRecord) /\ Len(ajax') <= n
        /\ \A k \in 1..n - 1 : k \in DOMAIN ajax' /\ ajax'[k] = ajax[Old(k, i)]
        /\ ajax[i].status = "ok" => DOMAIN ajax' = 1..n /\ ajax'[n] = GenerateTree
        /\ ajax[i].status # "ok" => DOMAIN ajax' = 1..n - 1
    BY <1>7, <2>1, ChangeAnsweredShape
  <2>3. \A k \in 1..n - 1 : Old(k, i) \in 1..n
    BY <2>2, OldAndNew
  <2>4. GenerateTree.op = "tree"
    BY DEF GenerateTree, Request
  <2>5. Kept
    <3> SUFFICES ASSUME NEW k \in DOMAIN ajax'
                 PROVE  \/ ajax'[k].op = "tree"
                        \/ \E l \in DOMAIN ajax : Same(ajax'[k], ajax[l])
      BY DEF Kept
    <3>1. k \in 1..n - 1 \/ (k = n /\ ajax[i].status = "ok")
      BY <2>2
    <3>2. CASE k \in 1..n - 1
      BY <2>2, <2>3, <3>2 DEF Same
    <3> QED
      BY <2>2, <2>4, <3>1, <3>2
  <2>6. Len(ajax') \in Nat
    BY <2>2, LenProperties
  <2> QED
    BY <1>1, <1>2, <2>1, <2>2, <2>5, <2>6 DEF Requests
<1>8. CASE TreeAnswered(i)
  <2> DEFINE n == Len(ajax)
  <2>1. n = Len(ajax)
    OBVIOUS
  <2> HIDE DEF n
  <2>2. /\ n \in Nat \ {0} /\ i \in 1..n /\ DOMAIN ajax = 1..n
        /\ ajax' \in Seq(RequestRecord) /\ Len(ajax') = n - 1 /\ DOMAIN ajax' = 1..n - 1
        /\ \A k \in 1..n - 1 : Same(ajax'[k], ajax[Old(k, i)])
    BY <1>8, <2>1, TreeAnsweredShape
  <2>3. \A k \in 1..n - 1 : Old(k, i) \in 1..n
    BY <2>2, OldAndNew
  <2> QED
    BY <1>1, <1>2, <2>1, <2>2, <2>3 DEF Requests, Kept
<1> QED
  BY <1>4, <1>5, <1>6, <1>7, <1>8

LEMMA OtherKeeps ==
    ASSUME TypeOK, OtherAdmin
    PROVE  Requests(ajax') /\ Kept /\ OtherChange
<1>1. ajax \in Seq(RequestRecord) /\ Len(ajax) <= MaxAjax
  BY DEF TypeOK
<1>2. ajax' = ReadBefore(ajax)
  BY DEF OtherAdmin
<1>3. Requests(ajax') /\ Kept
  BY <1>1, <1>2, ReadBeforeShape DEF Requests, Kept
<1> QED
  BY <1>3 DEF OtherAdmin, OtherChange

\* The root has no button that removes it.
LEMMA ClickTyped ==
    ASSUME TypeOK, RootStays, NEW i \in MenuId,
           ClickAdd(i) \/ ClickEdit(i) \/ ClickRemove(i)
    PROVE  TypeOK' /\ RootStays'
<1>1. PICK kind \in {"add", "edit", "confirm"} :
        Click(kind, i) /\ (kind = "confirm" => HasRemoveBtn(i))
  BY DEF ClickAdd, ClickEdit, ClickRemove
<1>2. /\ modal' = [kind |-> kind, shown |-> TRUE, id |-> i]
      /\ UNCHANGED <<menu_t, nextId, tree, ajax, outdated>>
      /\ raced' \in BOOLEAN /\ i \in 0..MaxMenu
  BY <1>1, MenuBounds DEF Click, MenuId
<1>3. TypeOK'
  BY <1>2 DEF TypeOK
<1>4. kind = "confirm" => i # Root
  BY <1>1 DEF HasRemoveBtn, Level
<1> QED
  BY <1>2, <1>3, <1>4 DEF RootStays

LEMMA TypesKept ==
    ASSUME TypeOK, RootStays, [Next]_vars
    PROVE  TypeOK' /\ RootStays'
<1>1. /\ TableTyped /\ TabTyped /\ tree \in RowTable /\ Requests(ajax)
      /\ ajax \in Seq(RequestRecord)
  BY TypesSplit DEF TypeOK
<1>2. ASSUME TableTyped', TabTyped', tree' \in RowTable, Requests(ajax') PROVE TypeOK'
  BY <1>2 DEF TypeOK, TableTyped, TabTyped, Requests
<1>3. ASSUME Kept, modal' = modal PROVE RootStays'
  BY <1>3 DEF Kept, RootStays, Same
<1>4. CASE UNCHANGED vars
  BY <1>4 DEF vars, TypeOK, RootStays
<1>5. CASE \E i \in MenuId : ClickAdd(i) \/ ClickEdit(i) \/ ClickRemove(i)
  BY <1>5, ClickTyped
<1>6. CASE Dismiss \/ HideModal
  <2>1. /\ UNCHANGED <<menu_t, nextId, tree, ajax, outdated, raced>>
        /\ modal' = [modal EXCEPT !.shown = FALSE] \/ modal' = NoModal
    BY <1>6 DEF Dismiss, HideModal
  <2>2. TabTyped' /\ (modal'.kind = "confirm" => modal'.id # Root)
    BY <1>1, <2>1, NoModalTyped DEF TabTyped, RootStays
  <2>3. TypeOK'
    BY <1>1, <1>2, <2>1, <2>2 DEF TableTyped
  <2> QED
    BY <2>1, <2>2, <2>3 DEF RootStays
<1>7. ASSUME NEW kind, NEW op \in {"save", "update", "remove"}, NEW text \in Text,
             Send(kind, op, text), op = "remove" => kind = "confirm"
      PROVE  TypeOK' /\ RootStays'
  <2> DEFINE n == Len(ajax)
  <2>1. n = Len(ajax)
    OBVIOUS
  <2> HIDE DEF n
  <2>2. /\ n \in Nat /\ DOMAIN ajax = 1..n
        /\ Requests(ajax') /\ DOMAIN ajax' = 1..n + 1
        /\ \A k \in 1..n : ajax'[k] = ajax[k]
        /\ ajax'[n + 1].op = op /\ ajax'[n + 1].id = modal.id
    BY <1>7, <2>1, SendShape
  <2>3. /\ modal.kind = kind /\ modal' = [modal EXCEPT !.shown = FALSE]
        /\ UNCHANGED <<menu_t, nextId, tree, outdated, raced>>
    BY <1>7 DEF Send
  <2>4. TabTyped' /\ modal'.kind = modal.kind /\ modal'.id = modal.id
    BY <1>1, <2>3 DEF TabTyped
  <2>5. TypeOK'
    BY <1>1, <1>2, <2>2, <2>3, <2>4 DEF TableTyped
  <2>6. op = "remove" => modal.id # Root
    BY <1>7, <2>3 DEF RootStays
  <2>7. \A k \in 1..n + 1 : k \in 1..n \/ k = n + 1
    BY <2>2
  <2>8. RootStays'
    BY <2>2, <2>4, <2>6, <2>7 DEF RootStays
  <2> QED
    BY <2>5, <2>8
<1>8. CASE SaveMenu \/ EditMenu \/ ConfirmRemove
  BY <1>7, <1>8, AnyTextIsText DEF SaveMenu, EditMenu, ConfirmRemove
<1>9. ASSUME NEW i \in DOMAIN ajax, Executed(i) \/ AnswerLost(i) PROVE TypeOK' /\ RootStays'
  <2>1. Requests(ajax') /\ Kept
    BY <1>9, AnswersKeep
  <2>2. TableTyped'
    BY <1>9, ExecuteTyped DEF Executed, AnswerLost
  <2>3. tree' = tree /\ modal' = modal /\ TabTyped'
    BY <1>1, <1>9 DEF Executed, AnswerLost, TabTyped
  <2> QED
    BY <1>1, <1>2, <1>3, <2>1, <2>2, <2>3
<1>10. ASSUME NEW i \in DOMAIN ajax,
              Refused(i) \/ GetTree(i) \/ ChangeAnswered(i) \/ TreeAnswered(i)
       PROVE  TypeOK' /\ RootStays'
  <2>1. Requests(ajax') /\ Kept
    BY <1>10, AnswersKeep
  <2>2. /\ UNCHANGED <<menu_t, nextId, modal, raced>>
        /\ tree' \in {tree, ajax[i].rows} /\ outdated' \in {outdated, TRUE, ajax[i].late}
    BY <1>10 DEF Refused, GetTree, ChangeAnswered, TreeAnswered
  <2>3. ajax[i].rows \in RowTable /\ ajax[i].late \in BOOLEAN
    BY AjaxTyped DEF RequestRecord
  <2>4. tree' \in RowTable /\ TableTyped' /\ TabTyped'
    BY <1>1, <2>2, <2>3 DEF TableTyped, TabTyped
  <2> QED
    BY <1>2, <1>3, <2>1, <2>2, <2>4
<1>11. CASE Revisit
  <2>1. /\ UNCHANGED <<menu_t, nextId>> /\ tree' = NoRows /\ modal' = NoModal
        /\ outdated' = FALSE /\ raced' \in BOOLEAN /\ ajax' = <<GenerateTree>>
    BY <1>1, <1>11 DEF Revisit, TabTyped
  <2>2. Requests(ajax') /\ DOMAIN ajax' = {1} /\ ajax'[1].op = "tree"
    BY <2>1, FirstRequest
  <2>3. TableTyped' /\ TabTyped' /\ modal'.kind = "none"
    BY <1>1, <2>1, NoModalTyped DEF TableTyped, TabTyped
  <2> QED
    BY <1>2, <2>1, <2>2, <2>3, NoRowsIsTable DEF RootStays
<1>12. CASE OtherAdmin
  <2>1. Requests(ajax') /\ Kept /\ TableTyped'
    BY <1>12, OtherKeeps, OtherTyped
  <2>2. UNCHANGED <<tree, modal>> /\ outdated' = TRUE /\ raced' \in BOOLEAN
    BY <1>1, <1>12 DEF OtherAdmin, TabTyped
  <2>3. TabTyped'
    BY <1>1, <2>2 DEF TabTyped
  <2> QED
    BY <1>1, <1>2, <1>3, <2>1, <2>2, <2>3
<1> QED
  BY <1>4, <1>5, <1>6, <1>8, <1>9, <1>10, <1>11, <1>12 DEF Next, GetTreeFails


-----------------------------------------------------------------------------
(***************************************************************************)
(* The tree on the screen.                                                 *)
(***************************************************************************)

Fresh == Drawn /\ ReadLast

\* An answer to a change: what it witnessed for others is the request that
\* follows it, and what else was witnessed stays.
LEMMA ChangeAnsweredFresh ==
    ASSUME TypeOK, Fresh, NEW i \in DOMAIN ajax, ChangeAnswered(i)
    PROVE  Fresh'
<1> DEFINE n == Len(ajax)
<1>1. n = Len(ajax)
  OBVIOUS
<1> HIDE DEF n
<1>2. /\ n \in Nat \ {0} /\ i \in 1..n /\ DOMAIN ajax = 1..n
      /\ \A k \in 1..n - 1 : k \in DOMAIN ajax' /\ ajax'[k] = ajax[Old(k, i)]
      /\ ajax[i].status = "ok" => DOMAIN ajax' = 1..n /\ ajax'[n] = GenerateTree
      /\ ajax[i].status # "ok" => DOMAIN ajax' = 1..n - 1
  BY <1>1, ChangeAnsweredShape
<1>3. /\ \A k \in 1..n - 1 : Old(k, i) \in 1..n \ {i}
      /\ \A l \in 1..n \ {i} : New(l, i) \in 1..n - 1 /\ Old(New(l, i), i) = l
      /\ \A k \in 1..n - 1, l \in 1..n \ {i} : l > Old(k, i) => New(l, i) > k
  BY <1>2, OldAndNew
<1>4. \A l \in 1..n \ {i} : New(l, i) \in DOMAIN ajax' /\ ajax'[New(l, i)] = ajax[l]
  BY <1>2, <1>3
<1>5. ajax[i].op # "tree" /\ UNCHANGED <<menu_t, tree, outdated>>
  BY DEF ChangeAnswered
<1>6. GenerateTree.op = "tree" /\ GenerateTree.status = "sent"
  BY DEF GenerateTree, Request
<1>7. Drawn'
  <2>1. CASE ajax[i].status = "ok"
    BY <1>2, <1>6, <2>1 DEF Drawn
  <2>2. CASE ajax[i].status # "ok"
    <3>1. \A l \in DOMAIN ajax : ajax[l].op = "tree" \/ ajax[l].status = "ok" => l \in 1..n \ {i}
      BY <1>2, <1>5, <2>2
    <3> QED
      BY <1>4, <1>5, <3>1 DEF Drawn, Fresh
  <2> QED
    BY <2>1, <2>2
<1>8. ReadLast'
  <2> SUFFICES ASSUME NEW k \in DOMAIN ajax',
                      ajax'[k].op = "tree", ajax'[k].status = "ok", ~ajax'[k].late
               PROVE  \/ ajax'[k].rows = menu_t'
                      \/ \E l \in DOMAIN ajax' : l > k /\ ajax'[l].op = "tree"
                      \/ \E l \in DOMAIN ajax' : ajax'[l].op # "tree" /\ ajax'[l].status = "ok"
    BY DEF ReadLast
  <2>1. k \in 1..n - 1
    BY <1>2, <1>6
  <2>2. CASE ajax[i].status = "ok"
    BY <1>2, <1>6, <2>1, <2>2
  <2>3. CASE ajax[i].status # "ok"
    <3>1. /\ Old(k, i) \in DOMAIN ajax /\ ajax'[k] = ajax[Old(k, i)]
      BY <1>2, <1>3, <2>1
    <3>2. \/ ajax[Old(k, i)].rows = menu_t
          \/ \E l \in DOMAIN ajax : l > Old(k, i) /\ ajax[l].op = "tree"
          \/ \E l \in DOMAIN ajax : ajax[l].op # "tree" /\ ajax[l].status = "ok"
      BY <3>1 DEF ReadLast, Fresh
    <3>3. ASSUME NEW l \in DOMAIN ajax, l > Old(k, i), ajax[l].op = "tree"
          PROVE  \E m \in DOMAIN ajax' : m > k /\ ajax'[m].op = "tree"
      BY <1>2, <1>3, <1>4, <1>5, <2>1, <3>3
    <3>4. ASSUME NEW l \in DOMAIN ajax, ajax[l].op # "tree", ajax[l].status = "ok"
          PROVE  \E m \in DOMAIN ajax' : ajax'[m].op # "tree" /\ ajax'[m].status = "ok"
      BY <1>2, <1>4, <2>3, <3>4
    <3> QED
      BY <1>5, <3>1, <3>2, <3>3, <3>4
  <2> QED
    BY <2>2, <2>3
<1> QED
  BY <1>7, <1>8 DEF Fresh

\* A tree is drawn: it was the table's, or what it lacks is still to come.
LEMMA TreeAnsweredFresh ==
    ASSUME TypeOK, Fresh, NEW i \in DOMAIN ajax, TreeAnswered(i)
    PROVE  Fresh'
<1> DEFINE n == Len(ajax)
<1>1. n = Len(ajax)
  OBVIOUS
<1> HIDE DEF n
<1>2. /\ n \in Nat \ {0} /\ i \in 1..n /\ DOMAIN ajax = 1..n /\ DOMAIN ajax' = 1..n - 1
      /\ \A k \in 1..n - 1 :
           /\ Same(ajax'[k], ajax[Old(k, i)])
           /\ ajax'[k].status = ajax[Old(k, i)].status
           /\ ajax'[k].rows = ajax[Old(k, i)].rows
           /\ ajax'[k].late <=>
                ajax[Old(k, i)].late \/ (Old(k, i) < i /\ ajax[Old(k, i)].op = "tree")
  BY <1>1, TreeAnsweredShape
<1>3. /\ \A k \in 1..n - 1 : Old(k, i) \in 1..n \ {i}
      /\ \A l \in 1..n \ {i} : New(l, i) \in 1..n - 1 /\ Old(New(l, i), i) = l
      /\ \A k \in 1..n - 1, l \in 1..n \ {i} : l > Old(k, i) => New(l, i) > k
  BY <1>2, OldAndNew
<1>4. \A l \in 1..n \ {i} : /\ New(l, i) \in DOMAIN ajax'
                            /\ ajax'[New(l, i)].op = ajax[l].op
                            /\ ajax'[New(l, i)].status = ajax[l].status
  BY <1>2, <1>3 DEF Same
<1>5. /\ ajax[i].op = "tree" /\ menu_t' = menu_t
      /\ \/ ajax[i].status = "ok" /\ tree' = ajax[i].rows /\ outdated' = ajax[i].late
         \/ outdated' = TRUE
  BY DEF TreeAnswered
<1>6. Drawn'
  <2>1. CASE outdated'
    BY <2>1 DEF Drawn
  <2>2. CASE ~outdated'
    <3>1. \/ ajax[i].rows = menu_t
          \/ \E l \in DOMAIN ajax : l > i /\ ajax[l].op = "tree"
          \/ \E l \in DOMAIN ajax : ajax[l].op # "tree" /\ ajax[l].status = "ok"
      BY <1>5, <2>2 DEF ReadLast, Fresh
    <3>2. CASE ajax[i].rows = menu_t
      BY <1>5, <2>2, <3>2 DEF Drawn
    <3>3. ASSUME NEW l \in DOMAIN ajax, l # i, ajax[l].op = "tree" \/ ajax[l].status = "ok"
          PROVE  Drawn'
      BY <1>2, <1>4, <3>3 DEF Drawn
    <3>4. \A l \in DOMAIN ajax : l > i => l # i
      BY <1>2
    <3> QED
      BY <1>5, <3>1, <3>2, <3>3, <3>4
  <2> QED
    BY <2>1, <2>2
<1>7. ReadLast'
  <2> SUFFICES ASSUME NEW k \in DOMAIN ajax',
                      ajax'[k].op = "tree", ajax'[k].status = "ok", ~ajax'[k].late
               PROVE  \/ ajax'[k].rows = menu_t'
                      \/ \E l \in DOMAIN ajax' : l > k /\ ajax'[l].op = "tree"
                      \/ \E l \in DOMAIN ajax' : ajax'[l].op # "tree" /\ ajax'[l].status = "ok"
    BY DEF ReadLast
  <2> DEFINE o == Old(k, i)
  <2>1. /\ o \in 1..n \ {i} /\ ajax[o].op = "tree" /\ ajax[o].status = "ok"
        /\ ~ajax[o].late /\ ~(o < i) /\ ajax'[k].rows = ajax[o].rows
    BY <1>2, <1>3 DEF Same
  <2>2. \/ ajax[o].rows = menu_t
        \/ \E l \in DOMAIN ajax : l > o /\ ajax[l].op = "tree"
        \/ \E l \in DOMAIN ajax : ajax[l].op # "tree" /\ ajax[l].status = "ok"
    BY <1>2, <2>1 DEF ReadLast, Fresh
  <2>3. ASSUME NEW l \in DOMAIN ajax, l > o, ajax[l].op = "tree"
        PROVE  \E m \in DOMAIN ajax' : m > k /\ ajax'[m].op = "tree"
    <3>1. l \in 1..n \ {i}
      BY <1>2, <2>1, <2>3
    <3>2. New(l, i) > k
      BY <1>2, <1>3, <2>3, <3>1
    <3> QED
      BY <1>4, <2>3, <3>1, <3>2
  <2>4. ASSUME NEW l \in DOMAIN ajax, ajax[l].op # "tree", ajax[l].status = "ok"
        PROVE  \E m \in DOMAIN ajax' : ajax'[m].op # "tree" /\ ajax'[m].status = "ok"
    BY <1>2, <1>4, <1>5, <2>4
  <2> QED
    BY <1>5, <2>1, <2>2, <2>3, <2>4
<1> QED
  BY <1>6, <1>7 DEF Fresh

LEMMA FreshKept ==
    ASSUME TypeOK, RootStays, Fresh, [Next]_vars
    PROVE  Fresh'
<1>1. ajax \in Seq(RequestRecord)
  BY DEF TypeOK
<1>2. CASE UNCHANGED <<menu_t, tree, ajax, outdated>>
  BY <1>2 DEF Fresh, Drawn, ReadLast
<1>3. ASSUME NEW kind, NEW op \in {"save", "update", "remove"}, NEW text \in Text, Send(kind, op, text)
      PROVE  Fresh'
  <2> DEFINE n == Len(ajax)
  <2>1. n = Len(ajax)
    OBVIOUS
  <2> HIDE DEF n
  <2>2. /\ n \in Nat /\ DOMAIN ajax = 1..n /\ DOMAIN ajax' = 1..n + 1
        /\ \A k \in 1..n : ajax'[k] = ajax[k]
        /\ ajax'[n + 1].op # "tree"
    BY <1>3, <2>1, SendShape
  <2>3. UNCHANGED <<menu_t, tree, outdated>>
    BY <1>3 DEF Send
  <2>4. DOMAIN ajax \subseteq DOMAIN ajax' /\ \A k \in DOMAIN ajax' : k \in DOMAIN ajax \/ k = n + 1
    BY <2>2
  <2> QED
    BY <2>2, <2>3, <2>4 DEF Fresh, Drawn, ReadLast
<1>4. ASSUME NEW i \in DOMAIN ajax, Executed(i) PROVE Fresh'
  <2>1. ajax[i].op # "tree"
    BY <1>4, ExecuteTyped DEF Executed
  <2>2. /\ i \in DOMAIN ajax' /\ ajax'[i].op # "tree" /\ ajax'[i].status = "ok"
    BY <1>4, <2>1, StatusShape DEF Executed, Status, Same
  <2> QED
    BY <2>2 DEF Fresh, Drawn, ReadLast
<1>5. ASSUME NEW q \in Seq(RequestRecord), ajax' = ReadBefore(q), outdated' = TRUE
      PROVE  Fresh'
  <2>1. \A k \in DOMAIN ajax' : ajax'[k].op = "tree" /\ ajax'[k].status = "ok" => ajax'[k].late
    BY <1>5, ReadBeforeShape DEF Same
  <2> QED
    BY <1>5, <2>1 DEF Fresh, Drawn, ReadLast
<1>6. ASSUME NEW i \in DOMAIN ajax, AnswerLost(i) PROVE Fresh'
  <2> DEFINE q == [ajax EXCEPT ![i].status = "error"]
  <2>1. q \in Seq(RequestRecord)
    BY StatusShape
  <2>2. ajax' = ReadBefore(q) /\ outdated' = TRUE
    BY <1>6 DEF AnswerLost
  <2> HIDE DEF q
  <2> QED
    BY <1>5, <2>1, <2>2
<1>7. ASSUME NEW i \in DOMAIN ajax, Refused(i) PROVE Fresh'
  <2>1. /\ DOMAIN ajax' = DOMAIN ajax /\ \A k \in DOMAIN ajax \ {i} : ajax'[k] = ajax[k]
        /\ ajax'[i].op = ajax[i].op /\ ajax'[i].status = "error" /\ ajax[i].status = "sent"
    BY <1>7, StatusShape DEF Refused, Status, Same
  <2>2. UNCHANGED <<menu_t, tree, outdated>>
    BY <1>7 DEF Refused
  <2> QED
    BY <2>1, <2>2 DEF Fresh, Drawn, ReadLast
<1>8. ASSUME NEW i \in DOMAIN ajax, GetTree(i) PROVE Fresh'
  <2>1. /\ DOMAIN ajax' = DOMAIN ajax /\ \A k \in DOMAIN ajax \ {i} : ajax'[k] = ajax[k]
        /\ ajax'[i].op = "tree" /\ ajax[i].op = "tree" /\ ajax'[i].rows = menu_t
    BY <1>8, GetTreeShape DEF GetTree, Same
  <2>2. UNCHANGED <<menu_t, tree, outdated>>
    BY <1>8 DEF GetTree
  <2> QED
    BY <2>1, <2>2 DEF Fresh, Drawn, ReadLast
<1>9. CASE Revisit
  <2>1. DOMAIN ajax' = {1} /\ ajax'[1].op = "tree" /\ ajax'[1].status = "sent"
    BY <1>9, FirstRequest DEF Revisit
  <2> QED
    BY <2>1 DEF Fresh, Drawn, ReadLast
<1>10. CASE OtherAdmin
  BY <1>1, <1>5, <1>10 DEF OtherAdmin
<1>11. CASE \/ UNCHANGED vars \/ Dismiss \/ HideModal
            \/ \E i \in MenuId : ClickAdd(i) \/ ClickEdit(i) \/ ClickRemove(i)
  BY <1>2, <1>11 DEF vars, Dismiss, HideModal, ClickAdd, ClickEdit, ClickRemove, Click
<1>12. CASE SaveMenu \/ EditMenu \/ ConfirmRemove
  BY <1>3, <1>12, AnyTextIsText DEF SaveMenu, EditMenu, ConfirmRemove
<1> QED
  BY <1>4, <1>6, <1>7, <1>8, <1>9, <1>10, <1>11, <1>12,
     ChangeAnsweredFresh, TreeAnsweredFresh DEF Next, GetTreeFails


-----------------------------------------------------------------------------
(***************************************************************************)
(* The tree stays whole as long as nobody was raced.                       *)
(***************************************************************************)

\* A menu that may get another below it.
Branch(i) == i \in DOMAIN menu_t /\ (i = Root \/ menu_t[i].pid = Root)

\* A step without new changes leaves the changes under way.
LEMMA UnderwayShrinks ==
    ASSUME Kept, <<modal'.kind, modal'.id>> \in {<<modal.kind, modal.id>>, <<"none", 0>>}
    PROVE  Underway' \subseteq Underway
<1> SUFFICES ASSUME NEW e \in Underway' PROVE e \in Underway
  OBVIOUS
<1>1. e \in Change /\ e[1] # "none" /\ Change' = Change
  BY DEF Underway, Change
<1>2. CASE e = <<modal'.kind, modal'.id>>
  BY <1>1, <1>2 DEF Underway
<1>3. ASSUME NEW k \in DOMAIN ajax', e = <<KindOf(ajax'[k].op), ajax'[k].id>>
      PROVE  e \in Underway
  <2>1. ajax'[k].op # "tree"
    BY <1>1, <1>3 DEF KindOf
  <2>2. PICK l \in DOMAIN ajax : Same(ajax'[k], ajax[l])
    BY <2>1 DEF Kept
  <2> QED
    BY <1>1, <1>3, <2>2 DEF Underway, Same
<1> QED
  BY <1>2, <1>3 DEF Underway

LEMMA UnracedStays ==
    ASSUME Unraced, Underway' \subseteq Underway, menu_t' = menu_t
    PROVE  Unraced'
BY DEF Unraced, EveryParentFound, TwoLevels, OneChange, Allowed, Children

LEMMA InsertKeepsWhole ==
    ASSUME TableTyped, EveryParentFound, TwoLevels,
           NEW pid, NEW text, insert(pid, text), Branch(pid), nextId \notin DOMAIN menu_t
    PROVE  /\ EveryParentFound' /\ TwoLevels'
           /\ pid \in DOMAIN menu_t' /\ (pid = Root \/ menu_t'[pid].pid = Root)
<1>1. /\ DOMAIN menu_t' = DOMAIN menu_t \cup {nextId} /\ menu_t'[nextId].pid = pid
      /\ \A i \in DOMAIN menu_t : menu_t'[i] = menu_t[i]
  BY DEF insert
<1>2. Root \in DOMAIN menu_t
  BY DEF TableTyped
<1>3. EveryParentFound'
  BY <1>1 DEF EveryParentFound, Branch
<1>4. TwoLevels'
  BY <1>1, <1>2 DEF TwoLevels, Branch
<1>5. pid \in DOMAIN menu_t' /\ (pid = Root \/ menu_t'[pid].pid = Root)
  BY <1>1, <1>2 DEF Branch
<1> QED
  BY <1>3, <1>4, <1>5

LEMMA UpdateKeepsWhole ==
    ASSUME TableTyped, EveryParentFound, TwoLevels,
           NEW id, NEW text \in Text, updateByPrimaryKeySelective(id, text)
    PROVE  EveryParentFound' /\ TwoLevels'
<1>1. /\ DOMAIN menu_t' = DOMAIN menu_t /\ Root \in DOMAIN menu_t
      /\ \A i \in DOMAIN menu_t : menu_t'[i].pid = menu_t[i].pid
  BY UpdateTyped DEF TableTyped
<1> QED
  BY <1>1 DEF EveryParentFound, TwoLevels

LEMMA DeleteKeepsWhole ==
    ASSUME TableTyped, EveryParentFound, TwoLevels,
           NEW id, id # Root, Children(menu_t, id) = {}, deleteByPrimaryKey(id)
    PROVE  EveryParentFound' /\ TwoLevels' /\ Children(menu_t', id) = {}
<1>1. /\ DOMAIN menu_t' = DOMAIN menu_t \ {id} /\ Root \in DOMAIN menu_t
      /\ \A i \in DOMAIN menu_t \ {id} : menu_t'[i] = menu_t[i]
  BY DeleteTyped DEF TableTyped
<1>2. \A i \in DOMAIN menu_t : menu_t[i].pid # id
  BY DEF Children
<1> QED
  BY <1>1, <1>2 DEF EveryParentFound, TwoLevels, Children

\* The change that is executed is the one under way, which its button allowed.
LEMMA ExecuteUnraced ==
    ASSUME TypeOK, RootStays, Unraced, Underway' \subseteq Underway,
           NEW i \in DOMAIN ajax, Execute(ajax[i])
    PROVE  Unraced'
<1> DEFINE r == ajax[i]
           e == <<KindOf(r.op), r.id>>
<1>1. TableTyped /\ r.id \in 0..MaxMenu /\ r.text \in Text
  BY TypesSplit, AjaxTyped DEF RequestRecord
<1>2. r.op \in {"save", "update", "remove"}
  BY DEF Execute
<1>3. e \in Underway /\ e[1] = KindOf(r.op) /\ e[2] = r.id
  BY <1>1, <1>2 DEF Underway, Change, KindOf
<1>4. Allowed(e) /\ \A f \in Underway : f = e
  BY <1>3 DEF Unraced, OneChange
<1>5. EveryParentFound /\ TwoLevels
  BY DEF Unraced
<1>6. ASSUME EveryParentFound', TwoLevels', \A f \in Underway' : Allowed(f)'
      PROVE  Unraced'
  BY <1>4, <1>6 DEF Unraced, OneChange
<1> HIDE DEF e
<1>7. CASE r.op = "save" /\ insert(r.id, r.text)
  <2>1. Branch(r.id) /\ e[1] = "add"
    BY <1>3, <1>4, <1>7 DEF Allowed, Branch, KindOf
  <2>2. /\ EveryParentFound' /\ TwoLevels'
        /\ r.id \in DOMAIN menu_t' /\ (r.id = Root \/ menu_t'[r.id].pid = Root)
    BY <1>1, <1>5, <1>7, <2>1, InsertTyped, InsertKeepsWhole
  <2>3. \A f \in Underway' : f[1] = "add" /\ f[2] = r.id
    BY <1>3, <1>4, <2>1
  <2>4. \A f \in Underway' : Allowed(f)'
    BY <2>2, <2>3 DEF Allowed
  <2> QED
    BY <1>6, <2>2, <2>4
<1>8. CASE r.op = "update" /\ updateByPrimaryKeySelective(r.id, r.text)
  <2>1. e[1] = "edit"
    BY <1>3, <1>8 DEF KindOf
  <2>2. EveryParentFound' /\ TwoLevels'
    BY <1>1, <1>5, <1>8, UpdateKeepsWhole
  <2>3. \A f \in Underway' : Allowed(f)'
    BY <1>4, <2>1 DEF Allowed
  <2> QED
    BY <1>6, <2>2, <2>3
<1>9. CASE r.op = "remove" /\ deleteByPrimaryKey(r.id)
  <2>1. e[1] = "confirm" /\ r.id # Root /\ Children(menu_t, r.id) = {}
    BY <1>3, <1>4, <1>9 DEF Allowed, KindOf
  <2>2. EveryParentFound' /\ TwoLevels' /\ Children(menu_t', r.id) = {}
    BY <1>1, <1>5, <1>9, <2>1, DeleteKeepsWhole
  <2>3. \A f \in Underway' : f[1] = "confirm" /\ f[2] = r.id
    BY <1>3, <1>4, <2>1
  <2>4. \A f \in Underway' : Allowed(f)'
    BY <2>1, <2>2, <2>3 DEF Allowed
  <2> QED
    BY <1>6, <2>2, <2>4
<1> QED
  BY <1>7, <1>8, <1>9 DEF Execute


\* Changes under way that are all of one kind and one menu are one.
LEMMA OneChangeOf ==
    ASSUME EveryParentFound', TwoLevels', NEW kind, NEW i,
           \A e \in Underway' : e[1] = kind /\ e[2] = i /\ Allowed(e)'
    PROVE  Unraced'
<1>1. \A e, f \in Underway' : e = f
  BY DEF Underway, Change
<1> QED
  BY <1>1 DEF Unraced, OneChange

\* A click that raced nobody was made in the table's tree: what the button saw
\* there is so in the table, and no other change is under way.
LEMMA ClickUnraced ==
    ASSUME TypeOK, Fresh, Unraced, ~raced', NEW i \in MenuId,
           ClickAdd(i) \/ ClickEdit(i) \/ ClickRemove(i)
    PROVE  Unraced'
<1>1. PICK kind \in {"add", "edit", "confirm"} :
        /\ Click(kind, i)
        /\ kind = "add" => HasAddBtn(i)
        /\ kind = "confirm" => HasRemoveBtn(i)
  BY DEF ClickAdd, ClickEdit, ClickRemove
<1>2. /\ ~outdated /\ ajax = << >> /\ i \in DOMAIN tree
      /\ modal' = [kind |-> kind, shown |-> TRUE, id |-> i]
      /\ UNCHANGED <<menu_t, nextId, tree, ajax, outdated>>
  BY <1>1 DEF Click
<1>3. DOMAIN ajax = {}
  BY <1>2, AjaxTyped, EmptySeq
<1>4. tree = menu_t
  BY <1>2, <1>3 DEF Fresh, Drawn
<1>5. ASSUME NEW e \in Underway' PROVE e[1] = kind /\ e[2] = i
  BY <1>2, <1>3 DEF Underway
<1>6. EveryParentFound' /\ TwoLevels'
  BY <1>2 DEF Unraced, EveryParentFound, TwoLevels
<1>7. CASE kind = "add"
  <2>1. i \in DOMAIN menu_t /\ (i = Root \/ menu_t[i].pid = Root)
    BY <1>1, <1>2, <1>4, <1>7 DEF HasAddBtn, Level
  <2>2. \A e \in Underway' : Allowed(e)'
    BY <1>2, <1>5, <1>7, <2>1 DEF Allowed
  <2> QED
    BY <1>5, <1>6, <2>2, OneChangeOf
<1>8. CASE kind = "edit"
  <2>1. \A e \in Underway' : Allowed(e)'
    BY <1>5, <1>8 DEF Allowed
  <2> QED
    BY <1>5, <1>6, <2>1, OneChangeOf
<1>9. CASE kind = "confirm"
  <2>1. i # Root /\ (menu_t[i].pid = Root => Children(menu_t, i) = {})
    BY <1>1, <1>4, <1>9 DEF HasRemoveBtn, Level
  <2>2. ASSUME menu_t[i].pid # Root PROVE Children(menu_t, i) = {}
    <3> SUFFICES ASSUME NEW j \in DOMAIN menu_t, menu_t[j].pid = i PROVE FALSE
      BY DEF Children
    <3>1. i # 0
      BY MenuBounds DEF MenuId
    <3> QED
      BY <1>2, <1>4, <2>1, <2>2, <3>1 DEF Unraced, TwoLevels
  <2>3. \A e \in Underway' : Allowed(e)'
    BY <1>2, <1>5, <1>9, <2>1, <2>2 DEF Allowed, Children
  <2> QED
    BY <1>5, <1>6, <2>3, OneChangeOf
<1> QED
  BY <1>7, <1>8, <1>9

\* A change that is sent is that of the dialog.
LEMMA SendUnraced ==
    ASSUME TypeOK, Unraced, NEW kind, NEW op \in {"save", "update", "remove"}, NEW text \in Text,
           Send(kind, op, text), kind = KindOf(op)
    PROVE  Unraced'
<1> DEFINE n == Len(ajax)
<1>1. n = Len(ajax)
  OBVIOUS
<1> HIDE DEF n
<1>2. /\ n \in Nat /\ DOMAIN ajax = 1..n /\ DOMAIN ajax' = 1..n + 1
      /\ \A k \in 1..n : ajax'[k] = ajax[k]
      /\ ajax'[n + 1].op = op /\ ajax'[n + 1].id = modal.id
  BY <1>1, SendShape
<1>3. /\ modal.kind = kind /\ modal' = [modal EXCEPT !.shown = FALSE] /\ menu_t' = menu_t
  BY DEF Send
<1>4. modal'.kind = modal.kind /\ modal'.id = modal.id
  BY <1>3, TypesSplit DEF TabTyped
<1>5. \A k \in DOMAIN ajax' : k \in DOMAIN ajax \/ k = n + 1
  BY <1>2
<1>6. Underway' \subseteq Underway
  <2> SUFFICES ASSUME NEW e \in Underway' PROVE e \in Underway
    OBVIOUS
  <2>1. e \in Change
    BY DEF Underway, Change
  <2>2. CASE e = <<modal'.kind, modal'.id>>
    BY <1>4, <2>1, <2>2 DEF Underway
  <2>3. ASSUME NEW k \in DOMAIN ajax', e = <<KindOf(ajax'[k].op), ajax'[k].id>>
        PROVE  e \in Underway
    <3>1. CASE k \in DOMAIN ajax
      BY <1>2, <2>1, <2>3, <3>1 DEF Underway
    <3>2. CASE k = n + 1
      <4>1. e = <<modal.kind, modal.id>>
        BY <1>2, <1>3, <2>3, <3>2
      <4> QED
        BY <2>1, <4>1 DEF Underway
    <3> QED
      BY <1>5, <3>1, <3>2
  <2> QED
    BY <2>2, <2>3 DEF Underway
<1> QED
  BY <1>3, <1>6, UnracedStays

\* The other administrator is alone, or it is a race.
LEMMA OtherUnraced ==
    ASSUME TypeOK, Unraced, OtherAdmin, ~raced'
    PROVE  Unraced'
<1>1. modal = NoModal /\ ajax = << >> /\ ajax' = ReadBefore(ajax) /\ modal' = modal
  BY DEF OtherAdmin
<1>2. Underway' = {}
  <2>1. DOMAIN ajax = {} /\ ajax \in Seq(RequestRecord)
    BY <1>1, AjaxTyped, EmptySeq DEF TypeOK
  <2>2. DOMAIN ajax' = {}
    BY <1>1, <2>1, ReadBeforeShape
  <2> QED
    BY <1>1, <2>2, NoModalTyped DEF Underway, Change
<1>3. TableTyped /\ EveryParentFound /\ TwoLevels
  BY TypesSplit DEF Unraced
<1>4. ASSUME NEW i \in DOMAIN menu_t, NEW t \in Text, Level(menu_t, i) < 2, insert(i, t)
      PROVE  EveryParentFound' /\ TwoLevels'
  <2>1. Branch(i)
    BY <1>4 DEF Branch, Level
  <2>2. i \in 0..MaxMenu
    BY <1>3, MenuBounds, TableHas DEF TableTyped, MenuId
  <2>3. nextId \notin DOMAIN menu_t
    BY <1>3, <1>4, <2>2, InsertTyped
  <2> QED
    BY <1>3, <1>4, <2>1, <2>3, InsertKeepsWhole
<1>5. ASSUME NEW i \in DOMAIN menu_t, NEW t \in Text, updateByPrimaryKeySelective(i, t)
      PROVE  EveryParentFound' /\ TwoLevels'
  BY <1>3, <1>5, UpdateKeepsWhole
<1>6. ASSUME NEW i \in DOMAIN menu_t \ {Root}, Children(menu_t, i) = {}, deleteByPrimaryKey(i)
      PROVE  EveryParentFound' /\ TwoLevels'
  BY <1>3, <1>6, DeleteKeepsWhole
<1>7. EveryParentFound' /\ TwoLevels'
  BY <1>4, <1>5, <1>6, OtherKeeps DEF OtherChange
<1> QED
  BY <1>2, <1>7 DEF Unraced, OneChange

LEMMA UnracedKept ==
    ASSUME MenuInv, [Next]_vars
    PROVE  ~raced' => Unraced'
<1> SUFFICES ASSUME ~raced' PROVE Unraced'
  OBVIOUS
<1>1. TypeOK /\ RootStays /\ Fresh
  BY DEF MenuInv, Fresh
<1>2. ~raced
  BY DEF Next, vars, ClickAdd, ClickEdit, ClickRemove, Click, Dismiss, HideModal, SaveMenu,
         EditMenu, ConfirmRemove, Send, Executed, AnswerLost, Refused, GetTree, GetTreeFails,
         ChangeAnswered, TreeAnswered, Revisit, OtherAdmin
<1>3. Unraced
  BY <1>2 DEF MenuInv
<1>4. CASE UNCHANGED <<menu_t, ajax>> /\ (modal' = NoModal \/ modal' = [modal EXCEPT !.shown = FALSE])
  <2>1. Kept
    BY <1>4 DEF Kept, Same
  <2>2. <<modal'.kind, modal'.id>> \in {<<modal.kind, modal.id>>, <<"none", 0>>}
    BY <1>1, <1>4, TypesSplit DEF TabTyped, NoModal
  <2> QED
    BY <1>3, <1>4, <2>1, <2>2, UnderwayShrinks, UnracedStays
<1>5. CASE Dismiss \/ HideModal
  BY <1>4, <1>5 DEF Dismiss, HideModal
<1>6. CASE UNCHANGED vars
  <2>1. UNCHANGED <<menu_t, ajax, modal>>
    BY <1>6 DEF vars
  <2> QED
    BY <1>3, <2>1 DEF Unraced, EveryParentFound, TwoLevels, OneChange, Underway, Allowed, Children, Change
<1>7. CASE SaveMenu \/ EditMenu \/ ConfirmRemove
  <2>1. KindOf("save") = "add" /\ KindOf("update") = "edit" /\ KindOf("remove") = "confirm"
    BY DEF KindOf
  <2> QED
    BY <1>1, <1>3, <1>7, <2>1, SendUnraced, AnyTextIsText DEF SaveMenu, EditMenu, ConfirmRemove
<1>8. ASSUME NEW i \in DOMAIN ajax,
             \/ Executed(i) \/ AnswerLost(i) \/ Refused(i) \/ GetTree(i)
             \/ ChangeAnswered(i) \/ TreeAnswered(i)
      PROVE  Unraced'
  <2>1. Kept /\ modal' = modal
    BY <1>1, <1>8, AnswersKeep DEF Executed, AnswerLost, Refused, GetTree, ChangeAnswered, TreeAnswered
  <2>2. Underway' \subseteq Underway
    BY <2>1, UnderwayShrinks
  <2>3. menu_t' = menu_t \/ Execute(ajax[i])
    BY <1>8 DEF Executed, AnswerLost, Refused, GetTree, ChangeAnswered, TreeAnswered
  <2> QED
    BY <1>1, <1>3, <2>2, <2>3, ExecuteUnraced, UnracedStays
<1>9. CASE Revisit
  <2>1. Kept
    BY <1>9, FirstRequest DEF Revisit, Kept
  <2>2. modal' = NoModal /\ menu_t' = menu_t
    BY <1>9 DEF Revisit
  <2> QED
    BY <1>3, <2>1, <2>2, UnderwayShrinks, UnracedStays DEF NoModal
<1> QED
  BY <1>1, <1>3, <1>5, <1>6, <1>7, <1>8, <1>9, ClickUnraced, OtherUnraced DEF Next, GetTreeFails


-----------------------------------------------------------------------------
(***************************************************************************)
(* The theorems.                                                           *)
(***************************************************************************)

LEMMA InitInv ==
    ASSUME Init
    PROVE  MenuInv
<1> DEFINE ids == 1..Len(FirstMenus)
<1>1. /\ ids = DOMAIN FirstMenus /\ ids \subseteq MenuId /\ Root \in ids
      /\ Len(FirstMenus) \in MenuId
      /\ \A i \in ids : FirstMenus[i] \in 0..MaxMenu
  BY FirstMenusAssumption, MenuBounds, LenProperties DEF MenuId
<1>2. /\ DOMAIN menu_t = ids
      /\ \A i \in ids : menu_t[i].pid = FirstMenus[i]
      /\ menu_t \in [ids -> Row]
  BY <1>1, AnyTextIsText DEF Init, Row
<1>3. /\ FirstMenus[Root] = 0
      /\ \A i \in ids \ {Root} : /\ FirstMenus[i] \in ids
                                 /\ FirstMenus[i] = Root \/ FirstMenus[FirstMenus[i]] = Root
  BY <1>1, FirstMenusAssumption
<1>4. /\ ajax = <<GenerateTree>> /\ Requests(ajax)
      /\ DOMAIN ajax = {1} /\ ajax[1].op = "tree" /\ ajax[1].status = "sent"
  BY FirstRequest DEF Init
<1>5. TypeOK
  <2>1. menu_t \in RowTable /\ Root \in DOMAIN menu_t
    BY <1>1, <1>2, TableIs
  <2>2. nextId \in 1..MaxMenu + 1 /\ DOMAIN menu_t \subseteq 1..nextId - 1
    BY <1>1, <1>2, MenuBounds DEF Init, MenuId
  <2> QED
    BY <1>4, <2>1, <2>2, NoRowsIsTable, NoModalTyped DEF Init, TypeOK, Requests
<1>6. RootStays /\ Drawn /\ ReadLast
  BY <1>4, NoModalTyped DEF Init, RootStays, Drawn, ReadLast
<1>7. EveryParentFound /\ TwoLevels
  BY <1>1, <1>2, <1>3 DEF EveryParentFound, TwoLevels
<1>8. Underway = {}
  BY <1>4, NoModalTyped DEF Init, Underway, Change, KindOf
<1> QED
  BY <1>5, <1>6, <1>7, <1>8 DEF MenuInv, Unraced, OneChange

\* The invariant holds in every reachable state, for any number of menus and
\* of requests under way.
THEOREM MenuInvariant == Spec => []MenuInv
<1>1. Init => MenuInv
  BY InitInv
<1>2. MenuInv /\ [Next]_vars => MenuInv'
  <2> SUFFICES ASSUME MenuInv, [Next]_vars PROVE MenuInv'
    OBVIOUS
  <2>1. TypeOK /\ RootStays /\ Fresh
    BY DEF MenuInv, Fresh
  <2>2. TypeOK' /\ RootStays'
    BY <2>1, TypesKept
  <2>3. Drawn' /\ ReadLast'
    BY <2>1, FreshKept DEF Fresh
  <2>4. ~raced' => Unraced'
    BY UnracedKept
  <2> QED
    BY <2>2, <2>3, <2>4 DEF MenuInv
<1> QED
  BY <1>1, <1>2, PTL DEF Spec

\* Every variable has its type, and nothing the buttons, the requests or the
\* other administrator do removes the root.
THEOREM TypeCorrect == Spec => []TypeOK
<1>1. MenuInv => TypeOK
  BY DEF MenuInv
<1> QED
  BY <1>1, MenuInvariant, PTL

\* Once the tab waits for nothing its tree is the table's, whatever answers
\* came in whatever order, unless it was told or overtaken otherwise.
THEOREM TreeIsFresh == Spec => []TreeFresh
<1>1. MenuInv => TreeFresh
  <2> SUFFICES ASSUME MenuInv, ajax = << >>, ~outdated PROVE tree = menu_t
    BY DEF TreeFresh
  <2>1. DOMAIN ajax = {}
    BY AjaxTyped, EmptySeq DEF MenuInv
  <2> QED
    BY <2>1 DEF MenuInv, Drawn
<1> QED
  BY <1>1, MenuInvariant, PTL

\* As long as every click was made in a tree that showed the table and nobody
\* was faster, no menu loses its parent, so that the tree can be read.
THEOREM TreeStaysWhole == Spec => []TreeWholeUnlessRaced
<1>1. MenuInv => TreeWholeUnlessRaced
  BY DEF MenuInv, TreeWholeUnlessRaced, TreeWhole, Unraced
<1> QED
  BY <1>1, MenuInvariant, PTL
=============================================================================
