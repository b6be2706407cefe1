----------------------------- MODULE Assignment -----------------------------
(***************************************************************************)
(* How the server assigns items to an owner: the authorities of a role     *)
(* (AuthServiceImp.saveRoleAuthRelathinship, table inner_role_auth) and    *)
(* the roles of an account (AdminServiceImp.saveAdminRoleRelationship,     *)
(* table inner_admin_role).  In one transaction, under READ_COMMITTED, the *)
(* owner's rows are deleted and the new ones inserted.                     *)
(*                                                                         *)
(* The tables have no index but their primary key, so DELETE ... WHERE     *)
(* owner = ? visits every row and waits for a row that another transaction *)
(* has deleted or inserted and not committed.  A SELECT waits for nothing  *)
(* and sees what is committed.  A pair that is in the table twice is not   *)
(* told from one that is in it once.                                       *)
(***************************************************************************)
CONSTANTS
    Owner, NoOwner, Item,
    Slot        \* bound: assignments the server works on at once

ASSUME NoOwnerAssumption == NoOwner \notin Owner

VARIABLES
    rows,       \* the items of each owner, without those marked as deleted
    tx          \* per slot: the assignment it works on

\* gone: the rows it marked as deleted; bare (history): when it deleted, the
\* owner had none, or another that is bare was committed since then.
NoTx == [pc |-> "idle", owner |-> NoOwner,
         items |-> {}, gone |-> {}, bare |-> FALSE]
TxRecord == [pc : {"idle", "begun", "deleted", "inserted"}, owner : Owner \cup {NoOwner},
             items : SUBSET Item, gone : SUBSET Item, bare : BOOLEAN]

AssignmentInit ==
    /\ rows = [o \in Owner |-> {}]
    /\ tx = [w \in Slot |-> NoTx]

\* What a SELECT finds: rows marked as deleted by a transaction are still there.
Committed(o) ==
    rows[o] \cup UNION {tx[w].gone : w \in {v \in Slot : tx[v].owner = o}}

(***************************************************************************)
(* Plausible bugs.  Each is a definition below with one mistake.           *)
(***************************************************************************)

\* CommitReplaces: no transaction, so that the deletion is committed by itself.
Delete_commits(w) ==
    /\ tx[w].pc = "begun"
    /\ rows' = [rows EXCEPT ![tx[w].owner] = {}]
    /\ tx' = [tx EXCEPT ![w].pc = "deleted", ![w].bare = (Committed(tx[w].owner) = {})]

\* CommitReplaces: a row of the owner that is locked skipped by the deletion.
HoldsRows_none(w) == FALSE

(***************************************************************************)
(* The steps of one assignment                                             *)
(***************************************************************************)
Begin(w, o, items) ==
    /\ tx[w].pc = "idle"
    /\ tx' = [tx EXCEPT ![w] = [NoTx EXCEPT !.pc = "begun", !.owner = o, !.items = items]]
    /\ UNCHANGED rows

\* Rows this transaction has deleted or inserted, which a deletion waits for.
HoldsRows(w) == tx[w].gone # {} \/ tx[w].pc = "inserted"

\* deleteOldRelationship
Delete(w) ==
    /\ tx[w].pc = "begun"
    /\ \A v \in Slot \ {w} : ~HoldsRows(v)
    /\ rows' = [rows EXCEPT ![tx[w].owner] = {}]
    /\ tx' = [tx EXCEPT ![w].pc = "deleted", ![w].gone = rows[tx[w].owner],
                        ![w].bare = (Committed(tx[w].owner) = {})]

\* insertNewRelationship, left out for an empty list
Insert(w) ==
    /\ tx[w].pc = "deleted"
    /\ tx[w].items # {}
    /\ tx' = [tx EXCEPT ![w].pc = "inserted"]
    /\ UNCHANGED rows

Overlap(v, w) == tx[v].pc \in {"deleted", "inserted"} /\ tx[v].owner = tx[w].owner

Commit(w) ==
    /\ \/ tx[w].pc = "inserted"
       \/ tx[w].pc = "deleted" /\ tx[w].items = {}
    /\ rows' = [rows EXCEPT ![tx[w].owner] = @ \cup tx[w].items]
    /\ tx' = [v \in Slot |->
                IF v = w THEN NoTx
                ELSE IF tx[w].bare /\ Overlap(v, w) THEN [tx[v] EXCEPT !.bare = TRUE]
                ELSE tx[v]]

\* The lock wait times out, a statement fails, or the process stops.
Rollback(w) ==
    /\ tx[w].pc # "idle"
    /\ rows' = [rows EXCEPT ![tx[w].owner] = @ \cup tx[w].gone]
    /\ tx' = [tx EXCEPT ![w] = NoTx]

TxStep(w) == Delete(w) \/ Insert(w) \/ Commit(w) \/ Rollback(w)

-----------------------------------------------------------------------------
AssignmentTypeOK ==
    /\ rows \in [Owner -> SUBSET Item]
    /\ tx \in [Slot -> TxRecord]
=============================================================================
