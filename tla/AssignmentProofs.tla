-------------------------- MODULE AssignmentProofs --------------------------
(***************************************************************************)
(* What the steps of an assignment preserve, whoever begins one: the       *)
(* lemmas the proofs of RoleAssign and AdminRoles rest on.                 *)
(***************************************************************************)
EXTENDS Assignment, TLAPS

(***************************************************************************)
(* A transaction that deleted rows keeps every other from deleting, so at  *)
(* most one has any.  One that is not bare has, and nobody can give its    *)
(* owner new rows before it commits.                                       *)
(***************************************************************************)
Working(w) == tx[w].pc \in {"deleted", "inserted"}

GoneOnlyWhenDeleted == \A w \in Slot : ~Working(w) => tx[w].gone = {}
OneHasGone == \A v, w \in Slot : v # w /\ tx[w].gone # {} => tx[v].gone = {}
OwnerCleared ==
    \A w \in Slot : Working(w) /\ ~tx[w].bare =>
        tx[w].gone # {} /\ rows[tx[w].owner] = {}
OwnersKnown == \A w \in Slot : tx[w].pc # "idle" => tx[w].owner \in Owner

AssignmentInv ==
    /\ AssignmentTypeOK
    /\ OwnersKnown
    /\ GoneOnlyWhenDeleted
    /\ OneHasGone
    /\ OwnerCleared

LEMMA AssignmentInitInv == AssignmentInit => AssignmentInv
BY DEF AssignmentInit, AssignmentInv, AssignmentTypeOK, OwnersKnown, GoneOnlyWhenDeleted,
       OneHasGone, OwnerCleared, Working, NoTx, TxRecord

LEMMA TypeOfTx == AssignmentTypeOK => \A w \in Slot : tx[w] \in TxRecord
BY DEF AssignmentTypeOK

-----------------------------------------------------------------------------
(***************************************************************************)
(* AssignmentInv is inductive.                                             *)
(***************************************************************************)
LEMMA BeginInv ==
    ASSUME AssignmentInv, NEW w \in Slot, NEW o \in Owner, NEW items \in SUBSET Item,
           Begin(w, o, items)
    PROVE  AssignmentInv'
<1>1. AssignmentTypeOK'
  BY DEF AssignmentInv, AssignmentTypeOK, Begin, NoTx, TxRecord
<1>2. OwnersKnown' /\ GoneOnlyWhenDeleted' /\ OneHasGone' /\ OwnerCleared'
  BY DEF AssignmentInv, AssignmentTypeOK, Begin, NoTx, TxRecord, OwnersKnown,
         GoneOnlyWhenDeleted, OneHasGone, OwnerCleared, Working
<1> QED BY <1>1, <1>2 DEF AssignmentInv

\* The rows that a transaction deletes are all that a reader sees.
LEMMA DeletesCommitted ==
    ASSUME AssignmentInv, NEW w \in Slot, Delete(w)
    PROVE  \A o \in Owner : Committed(o) = rows[o]
<1>1. \A v \in Slot : tx[v].gone = {}
  BY DEF Delete, HoldsRows, AssignmentInv, GoneOnlyWhenDeleted, Working
<1> QED BY <1>1 DEF Committed

LEMMA DeleteInv ==
    ASSUME AssignmentInv, NEW w \in Slot, Delete(w)
    PROVE  AssignmentInv'
<1> USE DEF AssignmentInv
<1>1. tx[w].owner \in Owner /\ Committed(tx[w].owner) = rows[tx[w].owner]
  BY DeletesCommitted DEF Delete, OwnersKnown
<1> DEFINE bare == Committed(tx[w].owner) = {}
           deleted == [tx[w] EXCEPT !.pc = "deleted", !.gone = rows[tx[w].owner], !.bare = bare]
<1>2. bare \in BOOLEAN /\ (bare <=> rows[tx[w].owner] = {})
  BY <1>1
<1>3. /\ tx' = [tx EXCEPT ![w] = deleted]
      /\ rows' = [rows EXCEPT ![tx[w].owner] = {}]
      /\ \A v \in Slot : tx[v].gone = {}
  BY DEF Delete, HoldsRows, GoneOnlyWhenDeleted, Working
<1> HIDE DEF bare
<1>4. deleted \in TxRecord /\ tx \in [Slot -> TxRecord]
  <2>1. tx \in [Slot -> TxRecord] /\ tx[w] \in TxRecord /\ rows[tx[w].owner] \subseteq Item
    BY <1>1 DEF AssignmentTypeOK
  <2>2. \A r \in TxRecord, b \in BOOLEAN, g \in SUBSET Item :
          [r EXCEPT !.pc = "deleted", !.gone = g, !.bare = b] \in TxRecord
    BY DEF TxRecord
  <2> QED BY <1>2, <2>1, <2>2
<1>5. /\ deleted.pc = "deleted" /\ deleted.owner = tx[w].owner
      /\ deleted.gone = rows[tx[w].owner] /\ deleted.bare = bare
  BY <1>4 DEF TxRecord
<1> HIDE DEF deleted
<1>6. tx'[w] = deleted /\ \A v \in Slot \ {w} : tx'[v] = tx[v]
  BY <1>3, <1>4
<1>7. AssignmentTypeOK'
  BY <1>3, <1>4 DEF AssignmentTypeOK
<1>8. OwnersKnown' /\ GoneOnlyWhenDeleted' /\ OneHasGone'
  BY <1>1, <1>3, <1>5, <1>6 DEF OwnersKnown, GoneOnlyWhenDeleted, OneHasGone, Working
<1>9. OwnerCleared'
  BY <1>1, <1>2, <1>3, <1>5, <1>6 DEF AssignmentTypeOK, OwnerCleared, Working, OwnersKnown
<1> QED BY <1>7, <1>8, <1>9

LEMMA InsertInv ==
    ASSUME AssignmentInv, NEW w \in Slot, Insert(w)
    PROVE  AssignmentInv'
BY DEF AssignmentInv, AssignmentTypeOK, Insert, TxRecord, OwnersKnown, GoneOnlyWhenDeleted,
       OneHasGone, OwnerCleared, Working

\* Two transactions that are not bare are never at work on one owner.
LEMMA CommitInv ==
    ASSUME AssignmentInv, NEW w \in Slot, Commit(w)
    PROVE  AssignmentInv'
<1> USE DEF AssignmentInv
<1>1. Working(w) /\ tx[w].owner \in Owner
  BY DEF Commit, Working, OwnersKnown
<1>2. AssignmentTypeOK'
  BY DEF AssignmentTypeOK, Commit, TxRecord, NoTx
<1>3. /\ tx'[w] = NoTx
      /\ \A v \in Slot \ {w} :
           /\ tx'[v].pc = tx[v].pc /\ tx'[v].owner = tx[v].owner /\ tx'[v].gone = tx[v].gone
           /\ tx[v].bare => tx'[v].bare
           /\ tx[w].bare /\ Overlap(v, w) => tx'[v].bare
  BY DEF AssignmentTypeOK, Commit, TxRecord
<1>4. OwnersKnown' /\ GoneOnlyWhenDeleted' /\ OneHasGone'
  BY <1>3 DEF OwnersKnown, GoneOnlyWhenDeleted, OneHasGone, Working, NoTx
<1>5. ASSUME NEW v \in Slot, Working(v)', ~tx'[v].bare
      PROVE  tx'[v].gone # {} /\ rows'[tx'[v].owner] = {}
  <2>1. v # w /\ Working(v) /\ ~tx[v].bare
    BY <1>3, <1>5 DEF Working, NoTx
  <2>2. tx[v].gone # {} /\ rows[tx[v].owner] = {}
    BY <2>1 DEF OwnerCleared
  <2>3. tx[v].owner # tx[w].owner
    <3>1. CASE tx[w].bare
      BY <3>1, <1>3, <1>5, <2>1 DEF Overlap, Working
    <3>2. CASE ~tx[w].bare
      BY <3>2, <1>1, <2>1, <2>2 DEF OwnerCleared, OneHasGone
    <3> QED BY <3>1, <3>2
  <2> QED BY <1>3, <2>1, <2>2, <2>3 DEF Commit, AssignmentTypeOK
<1> QED BY <1>2, <1>4, <1>5 DEF OwnerCleared

LEMMA RollbackInv ==
    ASSUME AssignmentInv, NEW w \in Slot, Rollback(w)
    PROVE  AssignmentInv'
<1> USE DEF AssignmentInv
<1>1. AssignmentTypeOK'
  BY DEF AssignmentTypeOK, Rollback, TxRecord, NoTx
<1>2. OwnersKnown' /\ GoneOnlyWhenDeleted' /\ OneHasGone'
  BY DEF AssignmentTypeOK, Rollback, NoTx, OwnersKnown, GoneOnlyWhenDeleted, OneHasGone, Working
<1>3. ASSUME NEW v \in Slot, Working(v)', ~tx'[v].bare
      PROVE  tx'[v].gone # {} /\ rows'[tx'[v].owner] = {}
  <2>1. v # w /\ tx'[v] = tx[v]
    BY <1>3 DEF AssignmentTypeOK, Rollback, NoTx, Working
  <2>2. tx[v].gone # {} /\ rows[tx[v].owner] = {} /\ tx[w].gone = {}
    BY <1>3, <2>1 DEF Working, OwnerCleared, OneHasGone
  <2> QED BY <2>1, <2>2 DEF Rollback, AssignmentTypeOK
<1> QED BY <1>1, <1>2, <1>3 DEF OwnerCleared

LEMMA TxStepInv ==
    ASSUME AssignmentInv, NEW w \in Slot, TxStep(w)
    PROVE  AssignmentInv'
BY DeleteInv, InsertInv, CommitInv, RollbackInv DEF TxStep

-----------------------------------------------------------------------------
(***************************************************************************)
(* What a reader sees                                                      *)
(***************************************************************************)

\* A commit leaves the items of the transaction, unless it is bare.
LEMMA CommitLeavesItems ==
    ASSUME AssignmentInv, NEW w \in Slot, NEW o \in Owner,
           Commit(w), tx[w].owner = o, ~tx[w].bare
    PROVE  Committed(o)' = tx[w].items
<1> USE DEF AssignmentInv
<1>1. Working(w) /\ rows[o] = {} /\ tx[w].gone # {}
  BY DEF Commit, Working, OwnerCleared
<1>2. \A v \in Slot : tx'[v].gone = {}
  BY <1>1 DEF Commit, OneHasGone, AssignmentTypeOK, TxRecord, NoTx
<1>3. rows'[o] = tx[w].items
  BY <1>1 DEF Commit, AssignmentTypeOK
<1> QED BY <1>2, <1>3 DEF Committed

\* Rows a transaction takes out of the table or puts back stay visible.
LEMMA OthersSeeNothing ==
    ASSUME AssignmentInv, NEW w \in Slot, Delete(w) \/ Insert(w) \/ Rollback(w)
    PROVE  \A o \in Owner : Committed(o)' = Committed(o)
<1> SUFFICES ASSUME NEW o \in Owner PROVE Committed(o)' = Committed(o)
  OBVIOUS
<1> USE DEF AssignmentInv
<1>1. CASE Delete(w)
  <2>1. Committed(o) = rows[o] /\ \A v \in Slot : tx[v].gone = {}
    BY <1>1, DeletesCommitted DEF Delete, HoldsRows, GoneOnlyWhenDeleted, Working
  <2>2. tx[w].owner \in Owner
    BY <1>1 DEF Delete, OwnersKnown
  <2>3. /\ tx'[w].owner = tx[w].owner /\ tx'[w].gone = rows[tx[w].owner]
        /\ \A v \in Slot \ {w} : tx'[v] = tx[v]
        /\ rows'[o] = IF o = tx[w].owner THEN {} ELSE rows[o]
    BY <1>1 DEF Delete, AssignmentTypeOK, TxRecord
  <2> QED BY <2>1, <2>2, <2>3 DEF Committed
<1>2. CASE Insert(w)
  BY <1>2 DEF Insert, Committed, AssignmentTypeOK, TxRecord
<1>3. CASE Rollback(w)
  <2>1. /\ tx'[w] = NoTx /\ \A v \in Slot \ {w} : tx'[v] = tx[v]
        /\ rows'[o] = IF o = tx[w].owner THEN rows[o] \cup tx[w].gone ELSE rows[o]
    BY <1>3 DEF Rollback, AssignmentTypeOK
  <2> QED BY <2>1, NoOwnerAssumption DEF Committed, NoTx
<1> QED BY <1>1, <1>2, <1>3

LEMMA BeginShowsNothing ==
    ASSUME AssignmentInv, NEW w \in Slot, NEW p \in Owner, NEW items \in SUBSET Item,
           Begin(w, p, items)
    PROVE  \A o \in Owner : Committed(o)' = Committed(o)
<1>1. /\ tx[w].gone = {} /\ tx'[w].gone = {}
      /\ \A v \in Slot \ {w} : tx'[v] = tx[v]
      /\ rows' = rows
  BY DEF Begin, AssignmentInv, AssignmentTypeOK, GoneOnlyWhenDeleted, Working, NoTx
<1> QED BY <1>1 DEF Committed
\* A commit shows its items to the readers of its owner and of no other.
LEMMA CommitOfAnother ==
    ASSUME AssignmentInv, NEW w \in Slot, Commit(w), NEW o \in Owner, o # tx[w].owner
    PROVE  Committed(o)' = Committed(o)
<1>1. /\ rows'[o] = rows[o]
      /\ tx'[w] = NoTx
      /\ \A v \in Slot \ {w} : tx'[v].owner = tx[v].owner /\ tx'[v].gone = tx[v].gone
  BY DEF Commit, AssignmentInv, AssignmentTypeOK, TxRecord
<1> QED BY <1>1, NoOwnerAssumption DEF Committed, NoTx

(***************************************************************************)
(* Items only: what is in the table and in the transactions is in a set    *)
(* that every assignment's items are taken from.                           *)
(***************************************************************************)
ItemsIn(S) ==
    /\ \A o \in Owner : rows[o] \subseteq S
    /\ \A w \in Slot : tx[w].items \subseteq S /\ tx[w].gone \subseteq S

LEMMA CommittedIn ==
    ASSUME NEW S, ItemsIn(S), NEW o \in Owner
    PROVE  Committed(o) \subseteq S
BY DEF ItemsIn, Committed

LEMMA BeginIn ==
    ASSUME AssignmentInv, NEW S, ItemsIn(S), NEW w \in Slot, NEW o \in Owner,
           NEW items \in SUBSET S, Begin(w, o, items)
    PROVE  ItemsIn(S)'
<1>1. rows' = rows /\ tx'[w].items = items /\ tx'[w].gone = {}
      /\ \A v \in Slot \ {w} : tx'[v] = tx[v]
  BY DEF Begin, NoTx, AssignmentInv, AssignmentTypeOK
<1> QED BY <1>1 DEF ItemsIn

LEMMA TxStepIn ==
    ASSUME AssignmentInv, NEW S, ItemsIn(S), NEW w \in Slot, TxStep(w)
    PROVE  ItemsIn(S)'
<1> USE DEF ItemsIn, AssignmentInv, AssignmentTypeOK
<1>1. CASE Delete(w)
  <2>1. tx[w].owner \in Owner
    BY <1>1 DEF Delete, OwnersKnown
  <2>2. /\ \A o \in Owner : rows'[o] \subseteq rows[o]
        /\ \A v \in Slot : tx'[v].items = tx[v].items
        /\ tx'[w].gone = rows[tx[w].owner]
        /\ \A v \in Slot \ {w} : tx'[v].gone = tx[v].gone
    BY <1>1 DEF Delete, TxRecord
  <2> QED BY <2>1, <2>2
<1>2. CASE Insert(w)
  BY <1>2 DEF Insert, TxRecord
<1>3. CASE Commit(w)
  <2>1. /\ \A o \in Owner : rows'[o] \subseteq rows[o] \cup tx[w].items
        /\ \A v \in Slot : /\ tx'[v].items \subseteq tx[v].items
                           /\ tx'[v].gone \subseteq tx[v].gone
    BY <1>3 DEF Commit, TxRecord, NoTx
  <2> QED BY <2>1
<1>4. CASE Rollback(w)
  BY <1>4 DEF Rollback, TxRecord, NoTx
<1> QED BY <1>1, <1>2, <1>3, <1>4 DEF TxStep
=============================================================================
