-------------------------- MODULE AdminRolesProofs --------------------------
(***************************************************************************)
(* Proofs about AdminRoles, for every set of accounts, names, passwords    *)
(* and roles, and any number of assignments at work on the server.         *)
(***************************************************************************)
EXTENDS AdminRoles, AssignmentProofs

Option == [from : {"assigned", "unassigned"}, role : Item]
PageRecord == [pc : {"none", "half", "open"}, of : Owner \cup {NoOwner},
               options : SUBSET Option, right : SUBSET Option, stale : BOOLEAN]
LoginRecord == [pc : {"none", "account", "roles", "loaded", "in"}, of : Owner \cup {NoOwner},
                stored : Password \cup {NoPassword}, given : Password \cup {NoPassword},
                roles : SUBSET Item, auths : SUBSET Item, stale : BOOLEAN]
AdminRecord == {NoAdmin} \cup [exists : {TRUE}, acct : Acct, password : Password]

TablesTypeOK ==
    /\ admin \in [Owner -> AdminRecord]
    /\ roles \subseteq Item
    /\ removed \subseteq Item
    /\ page \in PageRecord
    /\ login \in LoginRecord

(***************************************************************************)
(* The roles that anything refers to exist or have been removed, so a role *)
(* that is new is assigned to nobody and in no list.                       *)
(***************************************************************************)
Ever == roles \cup removed

RolesKnown ==
    /\ ItemsIn(Ever)
    /\ RolesOf(page.options) \subseteq Ever

\* What was read of an account is what is committed, until the next commit.
PageInv ==
    /\ page.right \subseteq page.options
    /\ page.pc # "none" => page.of \in Owner
    /\ page.pc # "none" /\ ~page.stale =>
         /\ \A r \in roles : [from |-> "assigned", role |-> r] \in page.options
                               <=> r \in Committed(page.of)
         /\ \A r \in roles : [from |-> "unassigned", role |-> r] \in page.options
                               => r \notin Committed(page.of)

PasswordInv ==
    /\ \A o \in Owner : admin[o].exists => admin[o].password = Chosen[o]
    /\ login.pc # "none" => login.of \in Owner /\ login.stored = Chosen[login.of]
    /\ login.pc = "in" => login.given = login.stored

LoginInv ==
    /\ login.pc = "roles" /\ ~login.stale =>
         /\ login.roles \subseteq Committed(login.of)
         /\ Committed(login.of) \subseteq login.roles \cup removed
    /\ AuthsOfRoles

Inv ==
    /\ AssignmentInv
    /\ TablesTypeOK
    /\ RolesKnown
    /\ PageInv
    /\ PasswordInv
    /\ LoginInv

LEMMA InitInv == Init => Inv
<1> SUFFICES ASSUME Init PROVE Inv
  OBVIOUS
<1>1. AssignmentInv
  BY AssignmentInitInv DEF Init
<1>2. NoPage \in PageRecord /\ NoLogin \in LoginRecord
  BY DEF NoPage, NoLogin, PageRecord, LoginRecord
<1>3. TablesTypeOK
  BY <1>2 DEF Init, TablesTypeOK, AdminRecord
<1>4. RolesKnown
  BY DEF Init, AssignmentInit, RolesKnown, ItemsIn, Ever, RolesOf, NoPage, NoTx
<1>5. PageInv /\ PasswordInv /\ LoginInv
  BY DEF Init, PageInv, PasswordInv, LoginInv, AuthsOfRoles, NoPage, NoLogin, NoAdmin
<1> QED BY <1>1, <1>3, <1>4, <1>5 DEF Inv
-----------------------------------------------------------------------------
(***************************************************************************)
(* The steps, by what they do to the assignments: most leave them alone,   *)
(* two begin one, and the server's go on with one.                         *)
(***************************************************************************)
AccountStep == \E o \in Owner, a \in Acct : CreateAdmin(o, a) \/ UpdateAdmin(o, a)
RoleStep == (\E r \in Item : SaveRole(r)) \/ (\E R \in SUBSET roles : RemoveRoles(R))
PageStep ==
    \/ \E o \in Admins : ReadAssigned(o)
    \/ ReadUnassigned \/ Leave
    \/ \E S \in SUBSET page.options : Move(S)
LoginStep ==
    \/ \E o \in Owner, a \in Acct, k \in Password : ReadAccount(o, a, k)
    \/ ReadRoles \/ ReadAuths \/ Authenticate \/ Logout
BeginStep ==
    \E w \in Slot : Submit(w) \/ \E o \in Owner, R \in SUBSET Item : OtherSubmits(w, o, R)
SomeServerStep == \E w \in Slot : ServerStep(w)

LEMMA NextCases ==
    Next => \/ AccountStep \/ RoleStep \/ PageStep \/ LoginStep
            \/ BeginStep \/ SomeServerStep
BY DEF Next, AccountStep, RoleStep, PageStep, LoginStep, BeginStep, SomeServerStep

LEMMA QuietSteps ==
    AccountStep \/ RoleStep \/ PageStep \/ LoginStep => UNCHANGED <<rows, tx>>
BY DEF AccountStep, CreateAdmin, UpdateAdmin, RoleStep, SaveRole, RemoveRoles,
       PageStep, ReadAssigned, ReadUnassigned, Leave, Move,
       LoginStep, ReadAccount, ReadRoles, ReadAuths, Authenticate, Logout

\* Who begins an assignment does so for an account and with roles that are known.
LEMMA BeginsKnown ==
    ASSUME Inv, BeginStep
    PROVE  \E w \in Slot, o \in Owner, items \in SUBSET Ever : Begin(w, o, items)
<1>1. ASSUME NEW w \in Slot, Submit(w)
      PROVE  page.of \in Owner /\ Submitted \in SUBSET Ever /\ Begin(w, page.of, Submitted)
  BY <1>1 DEF Submit, Submitted, Inv, PageInv, RolesKnown, RolesOf
<1>2. ASSUME NEW w \in Slot, NEW o \in Owner, NEW R \in SUBSET Item, OtherSubmits(w, o, R)
      PROVE  R \in SUBSET Ever /\ Begin(w, o, R)
  BY <1>2 DEF OtherSubmits, Ever
<1> QED BY <1>1, <1>2 DEF BeginStep

LEMMA EverTyped == TablesTypeOK => Ever \subseteq Item
BY DEF TablesTypeOK, Ever

LEMMA EverGrows == Next => Ever \subseteq Ever'
BY NextCases
   DEF AccountStep, CreateAdmin, UpdateAdmin, RoleStep, SaveRole, RemoveRoles,
       PageStep, ReadAssigned, ReadUnassigned, Leave, Move,
       LoginStep, ReadAccount, ReadRoles, ReadAuths, Authenticate, Logout,
       BeginStep, Submit, OtherSubmits, SomeServerStep, ServerStep, Ever

LEMMA ServerStepIsTx == \A w \in Slot : ServerStep(w) => TxStep(w)
BY DEF ServerStep, TxStep

LEMMA AssignmentStep == Inv /\ Next => AssignmentInv' /\ ItemsIn(Ever)'
<1> SUFFICES ASSUME Inv, Next PROVE AssignmentInv' /\ ItemsIn(Ever)'
  OBVIOUS
<1> USE DEF Inv
<1>1. ASSUME NEW S, ItemsIn(S)', S \subseteq Ever' PROVE ItemsIn(Ever)'
  BY <1>1 DEF ItemsIn
<1>2. Ever \subseteq Ever' /\ Ever \subseteq Item /\ ItemsIn(Ever)
  BY EverGrows, EverTyped DEF RolesKnown
<1>3. CASE UNCHANGED <<rows, tx>>
  <2>1. AssignmentInv'
    BY <1>3 DEF AssignmentInv, AssignmentTypeOK, OwnersKnown, GoneOnlyWhenDeleted,
                OneHasGone, OwnerCleared, Working
  <2>2. ItemsIn(Ever)'
    BY <1>2, <1>3 DEF ItemsIn
  <2> QED BY <2>1, <2>2
<1>4. CASE BeginStep
  <2>1. PICK w \in Slot, o \in Owner, items \in SUBSET Ever : Begin(w, o, items)
    BY <1>4, BeginsKnown
  <2>2. AssignmentInv'
    BY <1>2, <2>1, BeginInv
  <2>3. PICK T : T = Ever
    OBVIOUS
  <2>4. ItemsIn(T)'
    BY <1>2, <2>1, <2>3, BeginIn
  <2> QED BY <1>1, <1>2, <2>2, <2>3, <2>4
<1>5. CASE SomeServerStep
  <2>1. PICK w \in Slot : TxStep(w)
    BY <1>5, ServerStepIsTx DEF SomeServerStep
  <2>2. PICK T : T = Ever
    OBVIOUS
  <2>3. ItemsIn(T)'
    BY <1>2, <2>1, <2>2, TxStepIn
  <2> QED BY <1>1, <1>2, <2>1, <2>2, <2>3, TxStepInv
<1> QED BY <1>3, <1>4, <1>5, NextCases, QuietSteps

\* Only the commit of an assignment to an account changes what is read of it,
\* and it marks what was read before.
Marks(w) ==
    /\ Commit(w)
    /\ page' = Outdated(page, tx[w].owner)
    /\ login' = IF login.pc = "in" THEN login ELSE Outdated(login, tx[w].owner)

LEMMA SeenSame ==
    ASSUME Inv, Next, NEW o \in Owner
    PROVE  \/ Committed(o)' = Committed(o)
           \/ \E w \in Slot : Marks(w) /\ tx[w].owner = o
<1> USE DEF Inv
<1>1. CASE UNCHANGED <<rows, tx>>
  BY <1>1 DEF Committed
<1>2. CASE BeginStep
  BY <1>2, BeginsKnown, EverTyped, BeginShowsNothing
<1>3. ASSUME NEW w \in Slot, ServerStep(w)
      PROVE  Committed(o)' = Committed(o) \/ (Marks(w) /\ tx[w].owner = o)
  BY <1>3, OthersSeeNothing, CommitOfAnother DEF ServerStep, Marks
<1> QED BY <1>1, <1>2, <1>3, NextCases, QuietSteps DEF SomeServerStep

LEMMA CommittedEver == ASSUME Inv, NEW o \in Owner PROVE Committed(o) \subseteq Ever
BY CommittedIn DEF Inv, RolesKnown
-----------------------------------------------------------------------------
(***************************************************************************)
(* TablesTypeOK, PageInv, PasswordInv and LoginInv, action by action.      *)
(***************************************************************************)
LEMMA OutdatedPage ==
    ASSUME NEW p \in PageRecord, NEW o
    PROVE  /\ Outdated(p, o) \in PageRecord
           /\ Outdated(p, o).pc = p.pc /\ Outdated(p, o).of = p.of
           /\ Outdated(p, o).options = p.options /\ Outdated(p, o).right = p.right
           /\ Outdated(p, o).stale <=> p.stale \/ p.of = o
<1> DEFINE late == p.stale \/ p.of = o
<1>1. late \in BOOLEAN
  OBVIOUS
<1>2. Outdated(p, o) = [p EXCEPT !.stale = late]
  BY DEF Outdated, PageRecord
<1> HIDE DEF late
<1>3. /\ [p EXCEPT !.stale = late] \in PageRecord
      /\ [p EXCEPT !.stale = late].stale = late
  BY <1>1 DEF PageRecord
<1>4. /\ [p EXCEPT !.stale = late].pc = p.pc /\ [p EXCEPT !.stale = late].of = p.of
      /\ [p EXCEPT !.stale = late].options = p.options
      /\ [p EXCEPT !.stale = late].right = p.right
  BY DEF PageRecord
<1> QED BY <1>2, <1>3, <1>4 DEF late

LEMMA OutdatedLogin ==
    ASSUME NEW l \in LoginRecord, NEW o
    PROVE  /\ Outdated(l, o) \in LoginRecord
           /\ Outdated(l, o).pc = l.pc /\ Outdated(l, o).of = l.of
           /\ Outdated(l, o).stored = l.stored /\ Outdated(l, o).given = l.given
           /\ Outdated(l, o).roles = l.roles /\ Outdated(l, o).auths = l.auths
           /\ Outdated(l, o).stale <=> l.stale \/ l.of = o
<1> DEFINE late == l.stale \/ l.of = o
<1>1. late \in BOOLEAN
  OBVIOUS
<1>2. Outdated(l, o) = [l EXCEPT !.stale = late]
  BY DEF Outdated, LoginRecord
<1> HIDE DEF late
<1>3. /\ [l EXCEPT !.stale = late] \in LoginRecord
      /\ [l EXCEPT !.stale = late].stale = late
  BY <1>1 DEF LoginRecord
<1>4. /\ [l EXCEPT !.stale = late].pc = l.pc /\ [l EXCEPT !.stale = late].of = l.of
      /\ [l EXCEPT !.stale = late].stored = l.stored /\ [l EXCEPT !.stale = late].given = l.given
      /\ [l EXCEPT !.stale = late].roles = l.roles /\ [l EXCEPT !.stale = late].auths = l.auths
  BY DEF LoginRecord
<1> QED BY <1>2, <1>3, <1>4 DEF late

\* The server touches page and login only to mark what a commit made old.
LEMMA ServerReads ==
    ASSUME NEW w \in Slot, ServerStep(w)
    PROVE  /\ UNCHANGED <<admin, roles, removed>>
           /\ page' \in {page, Outdated(page, tx[w].owner)}
           /\ login' \in {login, Outdated(login, tx[w].owner)}
BY DEF ServerStep

LEMMA TablesType == Inv /\ Next => TablesTypeOK'
<1> SUFFICES ASSUME Inv, Next PROVE TablesTypeOK'
  OBVIOUS
<1> USE DEF Inv, TablesTypeOK
<1>1. /\ NoPage \in PageRecord /\ NoLogin \in LoginRecord
      /\ \A o \in Owner : Committed(o) \subseteq Item
  BY CommittedEver, EverTyped DEF NoPage, NoLogin, PageRecord, LoginRecord
<1>2. CASE AccountStep
  <2>1. \A row \in AdminRecord, a \in Acct : row.exists => Updated(row, a) \in AdminRecord
    BY DEF AdminRecord, Updated, NoAdmin
  <2>2. \A o \in Owner, a \in Acct : Account(a, Chosen[o]) \in AdminRecord
    BY ChosenAssumption DEF AdminRecord, Account
  <2>3. admin' \in [Owner -> AdminRecord]
    BY <1>2, <2>1, <2>2 DEF AccountStep, CreateAdmin, UpdateAdmin, Admins
  <2> QED BY <1>2, <2>3 DEF AccountStep, CreateAdmin, UpdateAdmin
<1>3. CASE RoleStep
  BY <1>3 DEF RoleStep, SaveRole, RemoveRoles
<1>4. CASE PageStep
  <2>1. ASSUME NEW o \in Admins, ReadAssigned(o) PROVE page' \in PageRecord
    <3>1. Options("assigned", Assigned(o)) \subseteq Option
      BY DEF Options, Assigned, Option
    <3> QED BY <2>1, <3>1 DEF ReadAssigned, NoPage, PageRecord, Admins
  <2>2. ASSUME ReadUnassigned PROVE page' \in PageRecord
    <3>1. Options("unassigned", Unassigned(page.of)) \subseteq Option
      BY DEF Options, Unassigned, Option
    <3> QED BY <2>2, <3>1 DEF ReadUnassigned, PageRecord
  <2>3. ASSUME NEW S \in SUBSET page.options, Move(S) PROVE page' \in PageRecord
    BY <2>3 DEF Move, Moved, PageRecord
  <2>4. ASSUME Leave PROVE page' \in PageRecord
    BY <1>1, <2>4 DEF Leave
  <2>5. UNCHANGED <<admin, roles, removed, login>>
    BY <1>4 DEF PageStep, ReadAssigned, ReadUnassigned, Leave, Move
  <2> QED BY <1>4, <2>1, <2>2, <2>3, <2>4, <2>5 DEF PageStep
<1>5. CASE LoginStep
  <2>1. ASSUME NEW o \in Owner, NEW a \in Acct, NEW k \in Password, ReadAccount(o, a, k)
        PROVE  login' \in LoginRecord
    <3>1. admin[o].password \in Password
      BY <2>1, ChosenAssumption DEF ReadAccount, HasAcct, PasswordInv
    <3> QED BY <2>1, <3>1 DEF ReadAccount, NoLogin, LoginRecord
  <2>2. ASSUME ReadRoles PROVE login' \in LoginRecord
    BY <2>2 DEF ReadRoles, Assigned, LoginRecord
  <2>3. ASSUME ReadAuths PROVE login' \in LoginRecord
    <3>1. login.of \in Owner
      BY <2>3 DEF ReadAuths, PasswordInv
    <3> QED BY <1>1, <2>3, <3>1 DEF ReadAuths, AuthRows, LoginRecord
  <2>4. ASSUME Authenticate PROVE login' \in LoginRecord
    BY <1>1, <2>4 DEF Authenticate, LoginRecord
  <2>5. ASSUME Logout PROVE login' \in LoginRecord
    BY <1>1, <2>5 DEF Logout
  <2>6. UNCHANGED <<admin, roles, removed, page>>
    BY <1>5 DEF LoginStep, ReadAccount, ReadRoles, ReadAuths, Authenticate, Logout
  <2> QED BY <1>5, <2>1, <2>2, <2>3, <2>4, <2>5, <2>6 DEF LoginStep
<1>6. CASE BeginStep
  BY <1>1, <1>6 DEF BeginStep, Submit, OtherSubmits
<1>7. CASE SomeServerStep
  BY <1>7, ServerReads, OutdatedPage, OutdatedLogin DEF SomeServerStep
<1> QED BY <1>2, <1>3, <1>4, <1>5, <1>6, <1>7, NextCases
LEMMA RolesStep == Inv /\ Next => RolesKnown'
<1> SUFFICES ASSUME Inv, Next PROVE RolesOf(page'.options) \subseteq Ever'
  BY AssignmentStep DEF RolesKnown, RolesOf
<1> USE DEF Inv
<1>1. Ever \subseteq Ever' /\ RolesOf(page.options) \subseteq Ever
  BY EverGrows DEF RolesKnown
<1>2. SUFFICES RolesOf(page'.options) \subseteq Ever
  BY <1>1
<1>3. RolesOf(NoPage.options) = {}
  BY DEF RolesOf, NoPage
<1>4. CASE page'.options = page.options
  BY <1>1, <1>4
<1>5. CASE page' = NoPage
  BY <1>3, <1>5
<1>6. CASE PageStep
  <2>1. ASSUME NEW o \in Admins, ReadAssigned(o) PROVE RolesOf(page'.options) \subseteq Ever
    <3>1. page'.options = Options("assigned", Assigned(o))
      BY <2>1 DEF ReadAssigned, NoPage
    <3> QED BY <3>1 DEF Options, Assigned, RolesOf, Ever
  <2>2. ASSUME ReadUnassigned PROVE RolesOf(page'.options) \subseteq Ever
    <3>1. page'.options = page.options \cup Options("unassigned", Unassigned(page.of))
      BY <2>2 DEF ReadUnassigned, TablesTypeOK, PageRecord
    <3> QED BY <1>1, <3>1 DEF Options, Unassigned, RolesOf, Ever
  <2>3. ASSUME NEW S \in SUBSET page.options, Move(S) PROVE page'.options = page.options
    BY <2>3 DEF Move, Moved, TablesTypeOK, PageRecord
  <2> QED BY <1>4, <1>5, <1>6, <2>1, <2>2, <2>3 DEF PageStep, Leave
<1>7. CASE AccountStep \/ RoleStep \/ LoginStep
  BY <1>4, <1>7
     DEF AccountStep, CreateAdmin, UpdateAdmin, RoleStep, SaveRole, RemoveRoles,
         LoginStep, ReadAccount, ReadRoles, ReadAuths, Authenticate, Logout
<1>8. CASE BeginStep
  BY <1>4, <1>5, <1>8 DEF BeginStep, Submit, OtherSubmits
<1>9. CASE SomeServerStep
  BY <1>4, <1>9, ServerReads, OutdatedPage DEF SomeServerStep, TablesTypeOK
<1> QED BY <1>6, <1>7, <1>8, <1>9, NextCases

LEMMA PasswordStep == Inv /\ Next => PasswordInv'
<1> SUFFICES ASSUME Inv, Next PROVE PasswordInv'
  OBVIOUS
<1> USE DEF Inv, PasswordInv
<1>1. NoLogin.pc = "none"
  BY DEF NoLogin
<1>2. CASE AccountStep
  <2>1. ASSUME NEW o \in Owner, admin'[o].exists PROVE admin'[o].password = Chosen[o]
    <3>1. \A a \in Acct : Account(a, Chosen[o]).password = Chosen[o]
      BY DEF Account
    <3>2. ASSUME admin[o].exists, NEW a \in Acct
          PROVE  Updated(admin[o], a).password = admin[o].password
      BY <3>2 DEF Updated, TablesTypeOK, AdminRecord, NoAdmin
    <3>3. admin \in [Owner -> AdminRecord]
      BY DEF TablesTypeOK
    <3>4. PICK p \in Owner, a \in Acct : CreateAdmin(p, a) \/ UpdateAdmin(p, a)
      BY <1>2 DEF AccountStep
    <3>5. CASE p # o
      BY <2>1, <3>3, <3>4, <3>5 DEF CreateAdmin, UpdateAdmin
    <3>6. CASE p = o /\ CreateAdmin(p, a)
      BY <3>1, <3>3, <3>6 DEF CreateAdmin
    <3>7. CASE p = o /\ UpdateAdmin(p, a)
      BY <3>2, <3>3, <3>7 DEF UpdateAdmin, Admins
    <3> QED BY <3>4, <3>5, <3>6, <3>7
  <2> QED BY <1>2, <2>1 DEF AccountStep, CreateAdmin, UpdateAdmin
<1>3. CASE UNCHANGED <<admin, login>>
  BY <1>3
<1>4. CASE RoleStep \/ PageStep \/ BeginStep
  BY <1>3, <1>4
     DEF RoleStep, SaveRole, RemoveRoles, PageStep, ReadAssigned, ReadUnassigned, Leave, Move,
         BeginStep, Submit, OtherSubmits
<1>5. CASE LoginStep
  <2>1. ASSUME NEW o \in Owner, NEW a \in Acct, NEW k \in Password, ReadAccount(o, a, k)
        PROVE  PasswordInv'
    <3>1. admin[o].password = Chosen[o] /\ admin' = admin
      BY <2>1 DEF ReadAccount, HasAcct
    <3>2. login'.pc = "account" /\ login'.of = o /\ login'.stored = admin[o].password
      BY <2>1 DEF ReadAccount, NoLogin
    <3> QED BY <3>1, <3>2
  <2>2. ASSUME ReadRoles \/ ReadAuths PROVE PasswordInv'
    BY <2>2 DEF ReadRoles, ReadAuths, TablesTypeOK, LoginRecord
  <2>3. ASSUME Authenticate PROVE PasswordInv'
    BY <1>1, <2>3 DEF Authenticate, Matches, TablesTypeOK, LoginRecord
  <2>4. ASSUME Logout PROVE PasswordInv'
    BY <1>1, <2>4 DEF Logout
  <2> QED BY <1>5, <2>1, <2>2, <2>3, <2>4 DEF LoginStep
<1>6. CASE SomeServerStep
  BY <1>6, ServerReads, OutdatedLogin DEF SomeServerStep, TablesTypeOK
<1> QED BY <1>2, <1>4, <1>5, <1>6, NextCases
LEMMA PageStepInv == Inv /\ Next => PageInv'
<1> SUFFICES ASSUME Inv, Next PROVE PageInv'
  OBVIOUS
<1> USE DEF Inv
<1>1. page \in PageRecord /\ NoPage.pc = "none" /\ NoPage.right \subseteq NoPage.options
  BY DEF TablesTypeOK, NoPage
<1>2. CASE page' = NoPage
  BY <1>1, <1>2 DEF PageInv
<1>3. ASSUME page.pc # "none", ~page'.stale, page'.of = page.of,
             \A o : page' = Outdated(page, o) => page'.stale \/ page.of # o
      PROVE  Committed(page.of)' = Committed(page.of)
  <2>1. PICK o \in Owner : o = page.of
    BY <1>3 DEF PageInv
  <2>2. Committed(o)' = Committed(o)
    BY <1>3, <2>1, SeenSame DEF Marks
  <2> QED BY <1>3, <2>1, <2>2 DEF Committed
<1>4. \A o : page' = Outdated(page, o) => page'.stale \/ page.of # o
  BY <1>1, OutdatedPage
<1>5. ASSUME page'.options = page.options, page'.of = page.of, page'.pc = page.pc,
             page'.right \subseteq page.options, page'.stale \/ ~page.stale,
             roles' \subseteq roles
      PROVE  PageInv'
  <2>1. page'.pc # "none" /\ ~page'.stale => Committed(page.of)' = Committed(page.of)
    BY <1>3, <1>4, <1>5
  <2> QED BY <1>5, <2>1 DEF PageInv
<1>6. ASSUME page' = page, roles' \subseteq roles PROVE PageInv'
  BY <1>5, <1>6 DEF PageInv
<1>7. CASE AccountStep \/ LoginStep
  BY <1>6, <1>7
     DEF AccountStep, CreateAdmin, UpdateAdmin,
         LoginStep, ReadAccount, ReadRoles, ReadAuths, Authenticate, Logout
<1>8. CASE RoleStep
  <2>1. ASSUME NEW r \in Item, SaveRole(r) PROVE PageInv'
    <3>1. roles' = roles \cup {r} /\ r \notin Ever /\ page' = page /\ UNCHANGED <<rows, tx>>
      BY <2>1 DEF SaveRole, Ever
    <3>2. \A l : [from |-> l, role |-> r] \notin page.options
      BY <3>1 DEF RolesKnown, RolesOf
    <3>3. page.pc # "none" => r \notin Committed(page.of)
      BY <3>1, CommittedEver DEF PageInv
    <3>4. Committed(page.of)' = Committed(page.of)
      BY <3>1 DEF Committed
    <3> QED BY <3>1, <3>2, <3>3, <3>4 DEF PageInv
  <2>2. ASSUME NEW R \in SUBSET roles, RemoveRoles(R) PROVE PageInv'
    BY <1>6, <2>2 DEF RemoveRoles
  <2> QED BY <1>8, <2>1, <2>2 DEF RoleStep
<1>9. CASE PageStep
  <2>1. UNCHANGED <<rows, tx, roles>>
    BY <1>9 DEF PageStep, ReadAssigned, ReadUnassigned, Leave, Move
  <2>2. ASSUME NEW o \in Admins, ReadAssigned(o) PROVE PageInv'
    <3>1. /\ page'.of = o /\ page'.options = Options("assigned", Assigned(o))
          /\ page'.right = page'.options
      BY <2>2 DEF ReadAssigned, NoPage
    <3>2. \A l, r : [from |-> l, role |-> r] \in page'.options
                      <=> l = "assigned" /\ r \in Assigned(o)
      BY <3>1 DEF Options
    <3>3. Committed(page.of)' = Committed(o)
      BY <2>1, <3>1 DEF Committed
    <3>4. o \in Owner
      BY DEF Admins
    <3> QED BY <2>1, <3>1, <3>2, <3>3, <3>4 DEF PageInv, Assigned
  <2>3. ASSUME ReadUnassigned PROVE PageInv'
    <3>1. /\ page.pc = "half"
          /\ page' = [page EXCEPT !.pc = "open",
                        !.options = @ \cup Options("unassigned", Unassigned(page.of))]
      BY <2>3 DEF ReadUnassigned
    <3>2. /\ page'.of = page.of /\ page'.right = page.right /\ page'.stale = page.stale
          /\ page'.options = page.options \cup Options("unassigned", Unassigned(page.of))
      BY <1>1, <3>1 DEF PageRecord
    <3>3. \A r : /\ [from |-> "assigned", role |-> r] \in page'.options
                      <=> [from |-> "assigned", role |-> r] \in page.options
                 /\ [from |-> "unassigned", role |-> r] \in page'.options
                      => \/ [from |-> "unassigned", role |-> r] \in page.options
                         \/ r \in Unassigned(page.of)
      BY <3>2 DEF Options
    <3>4. Committed(page.of)' = Committed(page.of)
      BY <2>1, <3>2 DEF Committed
    <3> QED BY <2>1, <3>1, <3>2, <3>3, <3>4 DEF PageInv, Unassigned
  <2>4. ASSUME NEW S \in SUBSET page.options, Move(S) PROVE PageInv'
    <3>1. page' = [page EXCEPT !.right = (@ \ S) \cup (S \ @)]
      BY <2>4 DEF Move, Moved
    <3> QED BY <1>1, <1>5, <2>1, <3>1 DEF PageRecord, PageInv
  <2> QED BY <1>2, <1>9, <2>2, <2>3, <2>4 DEF PageStep, Leave
<1>10. CASE BeginStep
  BY <1>2, <1>6, <1>10 DEF BeginStep, Submit, OtherSubmits
<1>11. CASE SomeServerStep
  <2>1. roles' = roles /\ (page' = page \/ \E o : page' = Outdated(page, o))
    BY <1>11, ServerReads DEF SomeServerStep
  <2> QED BY <1>1, <1>5, <1>6, <2>1, OutdatedPage DEF PageInv
<1> QED BY <1>7, <1>8, <1>9, <1>10, <1>11, NextCases

LEMMA LoginStepInv == Inv /\ Next => LoginInv'
<1> SUFFICES ASSUME Inv, Next PROVE LoginInv'
  OBVIOUS
<1> USE DEF Inv
<1>1. login \in LoginRecord /\ NoLogin.pc = "none"
  BY DEF TablesTypeOK, NoLogin
<1>2. CASE login' = NoLogin
  BY <1>1, <1>2 DEF LoginInv, AuthsOfRoles
<1>3. removed \subseteq removed'
  BY NextCases
     DEF AccountStep, CreateAdmin, UpdateAdmin, RoleStep, SaveRole, RemoveRoles,
         PageStep, ReadAssigned, ReadUnassigned, Leave, Move,
         LoginStep, ReadAccount, ReadRoles, ReadAuths, Authenticate, Logout,
         BeginStep, Submit, OtherSubmits, SomeServerStep, ServerStep
<1>4. ASSUME login.pc = "roles", ~login'.stale, login'.of = login.of,
             \A o : login' = Outdated(login, o) => login'.stale \/ login.of # o
      PROVE  Committed(login.of)' = Committed(login.of)
  <2>1. PICK o \in Owner : o = login.of
    BY <1>4 DEF PasswordInv
  <2>2. Committed(o)' = Committed(o)
    BY <1>4, <2>1, SeenSame DEF Marks
  <2> QED BY <1>4, <2>1, <2>2 DEF Committed
<1>5. \A o : login' = Outdated(login, o) => login'.stale \/ login.of # o
  BY <1>1, OutdatedLogin
<1>6. ASSUME login'.pc = login.pc, login'.of = login.of, login'.roles = login.roles,
             login'.auths = login.auths, login'.stale \/ ~login.stale
      PROVE  LoginInv'
  <2>1. login.pc = "roles" /\ ~login'.stale => Committed(login.of)' = Committed(login.of)
    BY <1>4, <1>5, <1>6
  <2>2. AuthsOfRoles'
    BY <1>3, <1>6 DEF LoginInv, AuthsOfRoles
  <2> QED BY <1>3, <1>6, <2>1, <2>2 DEF LoginInv
<1>7. ASSUME login' = login PROVE LoginInv'
  BY <1>6, <1>7
<1>8. CASE AccountStep \/ RoleStep \/ PageStep \/ BeginStep
  BY <1>7, <1>8
     DEF AccountStep, CreateAdmin, UpdateAdmin, RoleStep, SaveRole, RemoveRoles,
         PageStep, ReadAssigned, ReadUnassigned, Leave, Move, BeginStep, Submit, OtherSubmits
<1>9. CASE LoginStep
  <2>1. UNCHANGED <<rows, tx, removed>>
    BY <1>9 DEF LoginStep, ReadAccount, ReadRoles, ReadAuths, Authenticate, Logout
  <2>2. ASSUME NEW o \in Owner, NEW a \in Acct, NEW k \in Password, ReadAccount(o, a, k)
        PROVE  LoginInv'
    <3>1. login'.pc = "account"
      BY <2>2 DEF ReadAccount, NoLogin
    <3> QED BY <3>1 DEF LoginInv, AuthsOfRoles
  <2>3. ASSUME ReadRoles PROVE LoginInv'
    <3>1. login'.pc = "roles" /\ login'.of = login.of /\ login'.roles = Assigned(login.of)
      BY <1>1, <2>3 DEF ReadRoles, LoginRecord
    <3>2. login.of \in Owner
      BY <2>3 DEF ReadRoles, PasswordInv
    <3>3. Committed(login.of)' = Committed(login.of) /\ Committed(login.of) \subseteq Ever
      BY <2>1, <3>1, <3>2, CommittedEver DEF Committed
    <3> QED BY <2>1, <3>1, <3>3 DEF LoginInv, AuthsOfRoles, Assigned, Ever
  <2>4. ASSUME ReadAuths PROVE LoginInv'
    <3>1. /\ login.pc = "roles" /\ login'.pc = "loaded" /\ login'.roles = login.roles
          /\ login'.auths = Committed(login.of) /\ login'.stale = login.stale
      BY <1>1, <2>4 DEF ReadAuths, AuthRows, LoginRecord
    <3> QED BY <2>1, <3>1 DEF LoginInv, AuthsOfRoles
  <2>5. ASSUME Authenticate PROVE LoginInv'
    <3>1. CASE login' = [login EXCEPT !.pc = "in"]
      <4>1. /\ login.pc = "loaded" /\ login'.pc = "in" /\ login'.roles = login.roles
            /\ login'.auths = login.auths /\ login'.stale = login.stale
        BY <1>1, <2>5, <3>1 DEF Authenticate, LoginRecord
      <4> QED BY <2>1, <4>1 DEF LoginInv, AuthsOfRoles
    <3> QED BY <1>2, <2>5, <3>1 DEF Authenticate
  <2> QED BY <1>2, <1>9, <2>2, <2>3, <2>4, <2>5 DEF LoginStep, Logout
<1>10. CASE SomeServerStep
  <2>1. login' = login \/ \E o : login' = Outdated(login, o)
    BY <1>10, ServerReads DEF SomeServerStep
  <2> QED BY <1>1, <1>6, <1>7, <2>1, OutdatedLogin
<1> QED BY <1>8, <1>9, <1>10, NextCases

LEMMA StutterInv == Inv /\ UNCHANGED vars => Inv'
BY DEF vars, Inv, AssignmentInv, AssignmentTypeOK, OwnersKnown, GoneOnlyWhenDeleted, OneHasGone,
       OwnerCleared, Working, TablesTypeOK, RolesKnown, ItemsIn, Ever, PageInv, Committed,
       PasswordInv, LoginInv, AuthsOfRoles

LEMMA InvHolds == Spec => []Inv
<1>1. Inv /\ [Next]_vars => Inv'
  BY AssignmentStep, TablesType, RolesStep, PageStepInv, PasswordStep, LoginStepInv, StutterInv
     DEF Inv
<1> QED BY <1>1, InitInv, PTL DEF Spec

-----------------------------------------------------------------------------
(***************************************************************************)
(* The results                                                             *)
(***************************************************************************)

\* Every variable keeps its type, whatever is read, assigned and removed.
THEOREM TypeCorrect == Spec => []TypeOK
<1>1. Inv => TypeOK
  BY DEF Inv, AssignmentInv, TablesTypeOK, PageInv, TypeOK, AdminRecord, PageRecord,
         LoginRecord, Option
<1> QED BY <1>1, InvHolds, PTL

\* Who is logged in as an account gave the password it was created with.
THEOREM LoginsByPassword == Spec => []LoggedInByPassword
<1>1. Inv => LoggedInByPassword
  BY DEF Inv, PasswordInv, LoggedInByPassword
<1> QED BY <1>1, InvHolds, PTL

\* The authorities of a login come from its roles and from removed ones.
THEOREM LoginsAuthorities == Spec => []AuthsOfRoles
<1>1. Inv => AuthsOfRoles
  BY DEF Inv, LoginInv
<1> QED BY <1>1, InvHolds, PTL

\* A form assigns the roles that were not moved in it if they are assigned.
THEOREM FormsKeepUnmoved == Spec => []FormKeepsUnmoved
<1>1. Inv => FormKeepsUnmoved
  <2> SUFFICES ASSUME Inv, page.pc = "open", ~page.stale, NEW r \in roles, Unmoved(r)
               PROVE  /\ \A c, d \in page.options : c.role = r /\ d.role = r => c = d
                      /\ (r \in Submitted <=> r \in Committed(page.of))
    BY DEF FormKeepsUnmoved
  <2> DEFINE a == [from |-> "assigned", role |-> r]
             u == [from |-> "unassigned", role |-> r]
  <2>1. /\ page.right \subseteq page.options
        /\ a \in page.options <=> r \in Committed(page.of)
        /\ u \in page.options => r \notin Committed(page.of)
    BY DEF Inv, PageInv
  <2>2. \A c \in page.options : c.role = r => c = a \/ c = u
    BY DEF Inv, TablesTypeOK, PageRecord, Option
  <2>3. a.from = "assigned" /\ u.from # "assigned" /\ a.role = r /\ u.role = r
    OBVIOUS
  <2>4. r \in Submitted <=> a \in page.right
    BY <2>1, <2>2, <2>3 DEF Submitted, RolesOf, Unmoved
  <2>5. a \in page.right <=> a \in page.options
    BY <2>1, <2>3 DEF Unmoved
  <2> QED BY <2>1, <2>2, <2>4, <2>5
<1> QED BY <1>1, InvHolds, PTL
=============================================================================
