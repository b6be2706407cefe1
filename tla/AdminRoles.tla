----------------------------- MODULE AdminRoles -----------------------------
(***************************************************************************)
(* The accounts of the administration site (AdminController,               *)
(* AdminServiceImp), the roles each of them has (AdminAssignRoleController *)
(* and assignRole.html), and what a login gets from both                   *)
(* (myUserDetailsService).  Accounts are the owners and roles the items of *)
(* Assignment.                                                             *)
(*                                                                         *)
(* A page and a login read several tables in statements of their own, each *)
(* of which sees what is committed at its time.  Ids are given by the      *)
(* tables and not given twice.  The authorities a login gets are named by  *)
(* the roles that they come from: what a role is allowed is RoleAssign's.  *)
(* Of an account, the login name stands for all that its form can change;  *)
(* the email is unique as well.  The form may be as old as one likes, so   *)
(* it may hold any name.  deleteAdmin is not an action: it reads a session *)
(* attribute that nothing sets, and fails before it deletes.               *)
(***************************************************************************)
EXTENDS Assignment

CONSTANTS
    Acct,           \* login names
    Password,
    Chosen,         \* the password given when an account is created
    NoPassword

ASSUME ChosenAssumption ==
    /\ Chosen \in [Owner -> Password]
    /\ NoPassword \notin Password

VARIABLES
    admin,      \* admin_t: the accounts that exist
    roles,      \* role_t
    removed,    \* history: the roles that were removed
    page,       \* assignRole.html, in one browser tab
    login       \* a login, in another

vars == <<rows, tx, admin, roles, removed, page, login>>

NoAdmin == [exists |-> FALSE]
Account(acct, password) == [exists |-> TRUE, acct |-> acct, password |-> password]
Admins == {o \in Owner : admin[o].exists}

\* options: a role and the list it was in when the page was made; right: those
\* in the list of assigned roles by now; stale (history): an assignment to the
\* account was committed since the first read.
NoPage == [pc |-> "none", of |-> NoOwner, options |-> {}, right |-> {}, stale |-> FALSE]
NoLogin == [pc |-> "none", of |-> NoOwner, stored |-> NoPassword, given |-> NoPassword,
            roles |-> {}, auths |-> {}, stale |-> FALSE]

Options(from, list) == [from : {from}, role : list]
RolesOf(options) == {c.role : c \in options}

Init ==
    /\ AssignmentInit
    /\ admin = [o \in Owner |-> NoAdmin]
    /\ roles = {}
    /\ removed = {}
    /\ page = NoPage
    /\ login = NoLogin

\* What an assignment that is committed makes of what was read before.
Outdated(seen, o) == [seen EXCEPT !.stale = @ \/ seen.of = o]

\* Bound: a page or a login at a time.  They only read; what one of them sees of
\* the other's administrator is an assignment, which OtherSubmits makes.
OneAtATime == page.pc = "none" /\ login.pc = "none"

(***************************************************************************)
(* Plausible bugs.  Each is a definition below with one mistake.           *)
(***************************************************************************)

\* LoggedInByPassword: the password of the request is written, not that of the row.
Updated_fromForm(row, acct) ==
    [row EXCEPT !.acct = acct, !.password = CHOOSE k \in Password : k # row.password]

\* FormKeepsUnmoved: the options are not selected before the form is submitted.
Submitted_selected == {}

\* TypeOK: the options are sent, not their values.
Submitted_options == page.right

\* AuthsOfRoles: the condition on the account is left out.
AuthRows_ofAll(o) == UNION {Committed(a) : a \in Owner}

(***************************************************************************)
(* Accounts and roles                                                      *)
(***************************************************************************)
HasAcct(o, acct) == admin[o].exists /\ admin[o].acct = acct

\* createAdmin; a name that is taken is a DuplicateKeyException
CreateAdmin(o, acct) ==
    /\ ~admin[o].exists
    /\ \A a \in Admins : ~HasAcct(a, acct)
    /\ admin' = [admin EXCEPT ![o] = Account(acct, Chosen[o])]
    /\ UNCHANGED <<rows, tx, roles, removed, page, login>>

\* The form has no password: that of the row is written back.
Updated(row, acct) == [row EXCEPT !.acct = acct]

\* update
UpdateAdmin(o, acct) ==
    /\ o \in Admins
    /\ \A a \in Admins \ {o} : ~HasAcct(a, acct)
    /\ admin' = [admin EXCEPT ![o] = Updated(@, acct)]
    /\ UNCHANGED <<rows, tx, roles, removed, page, login>>

SaveRole(r) ==
    /\ r \notin roles \cup removed
    /\ roles' = roles \cup {r}
    /\ UNCHANGED <<rows, tx, admin, removed, page, login>>

\* deleteByIdList: the rows that assign the roles stay.
RemoveRoles(R) ==
    /\ roles' = roles \ R
    /\ removed' = removed \cup (R \cap roles)
    /\ UNCHANGED <<rows, tx, admin, page, login>>

(***************************************************************************)
(* The page that assigns roles                                             *)
(***************************************************************************)
Assigned(o) == roles \cap Committed(o)
Unassigned(o) == roles \ Committed(o)

\* toAssignRolePage: one query for each list
ReadAssigned(o) ==
    /\ OneAtATime
    /\ page' = [NoPage EXCEPT !.pc = "half", !.of = o,
                              !.options = Options("assigned", Assigned(o)),
                              !.right = Options("assigned", Assigned(o))]
    /\ UNCHANGED <<rows, tx, admin, roles, removed, login>>

ReadUnassigned ==
    /\ page.pc = "half"
    /\ page' = [page EXCEPT !.pc = "open",
                            !.options = @ \cup Options("unassigned", Unassigned(page.of))]
    /\ UNCHANGED <<rows, tx, admin, roles, removed, login>>

Moved(selected) == [page EXCEPT !.right = (@ \ selected) \cup (selected \ @)]

\* toRightBtn and toLeftBtn
Move(selected) ==
    /\ page.pc = "open"
    /\ selected \subseteq page.right \/ selected \cap page.right = {}
    /\ page' = Moved(selected)
    /\ UNCHANGED <<rows, tx, admin, roles, removed, login>>

\* submitBtn selects all of the right list.
Submitted == RolesOf(page.right)

Submit(w) ==
    /\ page.pc = "open"
    /\ Begin(w, page.of, Submitted)
    /\ page' = NoPage
    /\ UNCHANGED <<admin, roles, removed, login>>

Leave ==
    /\ page.pc # "none"
    /\ page' = NoPage
    /\ UNCHANGED <<rows, tx, admin, roles, removed, login>>

\* Another administrator's form, of any age: with roles that are gone by now,
\* but none that is not there yet.
OtherSubmits(w, o, items) ==
    /\ o \in Admins
    /\ items \subseteq roles \cup removed
    /\ Begin(w, o, items)
    /\ UNCHANGED <<admin, roles, removed, page, login>>

ServerStep(w) ==
    /\ \/ Delete(w) /\ UNCHANGED <<page, login>>
       \/ Insert(w) /\ UNCHANGED <<page, login>>
       \/ Rollback(w) /\ UNCHANGED <<page, login>>
       \/ /\ Commit(w)
          /\ page' = Outdated(page, tx[w].owner)
          /\ login' = IF login.pc = "in" THEN login ELSE Outdated(login, tx[w].owner)
    /\ UNCHANGED <<admin, roles, removed>>

(***************************************************************************)
(* A login                                                                 *)
(***************************************************************************)

\* getAdminByLoginAcct, in loadUserByUsername
ReadAccount(o, acct, password) ==
    /\ OneAtATime
    /\ HasAcct(o, acct)
    /\ login' = [NoLogin EXCEPT !.pc = "account", !.of = o,
                                !.stored = admin[o].password, !.given = password]
    /\ UNCHANGED <<rows, tx, admin, roles, removed, page>>

\* getAssignedRole
ReadRoles ==
    /\ login.pc = "account"
    /\ login' = [login EXCEPT !.pc = "roles", !.roles = Assigned(login.of), !.stale = FALSE]
    /\ UNCHANGED <<rows, tx, admin, roles, removed, page>>

\* selectAssignedAuthNameByAdminId joins the tables of the assignments and not role_t.
AuthRows(o) == Committed(o)

ReadAuths ==
    /\ login.pc = "roles"
    /\ login' = [login EXCEPT !.pc = "loaded", !.auths = AuthRows(login.of)]
    /\ UNCHANGED <<rows, tx, admin, roles, removed, page>>

Matches(given, stored) == given = stored

\* The password is compared when all has been read.
Authenticate ==
    /\ login.pc = "loaded"
    /\ login' = IF Matches(login.given, login.stored) THEN [login EXCEPT !.pc = "in"]
                ELSE NoLogin
    /\ UNCHANGED <<rows, tx, admin, roles, removed, page>>

Logout ==
    /\ login.pc = "in"
    /\ login' = NoLogin
    /\ UNCHANGED <<rows, tx, admin, roles, removed, page>>

Next ==
    \/ \E o \in Owner, a \in Acct : CreateAdmin(o, a) \/ UpdateAdmin(o, a)
    \/ \E r \in Item : SaveRole(r)
    \/ \E R \in SUBSET roles : RemoveRoles(R)
    \/ \E o \in Admins : ReadAssigned(o)
    \/ ReadUnassigned \/ Leave
    \/ \E S \in SUBSET page.options : Move(S)
    \/ \E w \in Slot :
         \/ Submit(w)
         \/ \E o \in Owner, R \in SUBSET Item : OtherSubmits(w, o, R)
         \/ ServerStep(w)
    \/ \E o \in Owner, a \in Acct, k \in Password : ReadAccount(o, a, k)
    \/ ReadRoles \/ ReadAuths \/ Authenticate \/ Logout

Spec == Init /\ [][Next]_vars

-----------------------------------------------------------------------------
\* The variables have the types of the tables' columns, of the page's lists and
\* of the login's attributes.
TypeOK ==
    /\ AssignmentTypeOK
    /\ admin \in [Owner -> {NoAdmin} \cup [exists : {TRUE}, acct : Acct, password : Password]]
    /\ roles \subseteq Item
    /\ removed \subseteq Item
    /\ page.pc \in {"none", "half", "open"}
    /\ page.of \in Owner \cup {NoOwner}
    /\ page.right \subseteq page.options
    /\ page.options \subseteq [from : {"assigned", "unassigned"}, role : Item]
    /\ login.pc \in {"none", "account", "roles", "loaded", "in"}
    /\ login.of \in Owner \cup {NoOwner}
    /\ login.roles \subseteq Item /\ login.auths \subseteq Item

\* However often an account was edited and renamed, and by however old a form,
\* who is logged in as that account gave the password it was created with.
LoggedInByPassword == login.pc = "in" => login.given = Chosen[login.of]

\* The role is in the list that it was in when the page was made.
Unmoved(r) == \A c \in page.options : c.role = r => (c \in page.right <=> c.from = "assigned")

\* A form that is submitted changes what was moved in it: as long as no other
\* assignment to the account was committed since the page was read, every role
\* that was not moved is in one list only and is assigned by the form exactly
\* if it is assigned now, whatever roles were created and removed meanwhile.
FormKeepsUnmoved ==
    page.pc = "open" /\ ~page.stale =>
        \A r \in roles :
          Unmoved(r) =>
            /\ \A c, d \in page.options : c.role = r /\ d.role = r => c = d
            /\ (r \in Submitted <=> r \in Committed(page.of))

\* The authorities that a login gets come from the roles it gets, and from
\* roles that were removed while they were assigned; unless an assignment was
\* committed between the two queries.
AuthsOfRoles ==
    login.pc \in {"loaded", "in"} /\ ~login.stale =>
        /\ login.roles \subseteq login.auths
        /\ login.auths \subseteq login.roles \cup removed
=============================================================================
