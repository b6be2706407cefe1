# Verification of crowdfunding

TLA+ models of the crowdfunding platform in `src/`, the TLC runs that check them on small
instances, and TLAPS proofs about all of them. `PROJECT.json` lists components, runs,
mutants, hazards, findings, theorems and, under `map`, the source lines each definition models.

## The system

Three Spring Boot services stand behind a Zuul gateway and share one MySQL schema
(`src/iDevData/MySQL_init_and_data.sql`) and one Redis; an admin application works on tables of
its own, from pages whose scripts keep state in the browser. A browser session is a Spring Session in Redis which every service sees.

| component | state | operations | what is hard | what makes it correct |
|---|---|---|---|---|
| Order service (`OrderController`, `OrderServiceImpl`, `PaypalServiceImpl`) | session attributes `orderProjectVO`, `projectId`, `orderVO`, `addressVOList`; tables `t_order`, `t_order_project`, `t_address`, columns `supportmoney`, `supporter` of `t_project`; payments and webhook events at PayPal | choose a return, choose a count, save an address, generate an order, PayPal's return page, PayPal's webhook | tabs share the session; the payment, two inserts and a credit are four transactions of three systems; sessions expire while the member is at PayPal; PayPal delivers at least once | an order per executed payment, a detail per order, money credited once, to the right project, only for completed sales |
| Project service, launch (`ProjectHandler`, `ProjectServiceImpl.saveProject`) | session attribute with the draft; six tables; the OSS bucket | basic information with uploads, add a return, confirm | read-modify-write of the draft by several tabs; uploads that fail half way; a confirmation sent twice | a draft is published once, whole, with all its returns and with pictures that exist |
| Project service, detail page (`getDetailProjectVO`) | none | select, status text, days left | dates and their arithmetic | status text of the schema, days never wrong by one |
| Member service (`MemberController`, `MemberServiceImpl`, `RedisHandler`) | `t_member`; registration codes in Redis for 15 minutes; attribute `loginMember` | send code, register, login, logout | the code is read, compared and deleted in three calls; the account's uniqueness is found out last | one account per name, one per code and overlapping request |
| Gateway (`CrowdAccessFilter`, `AccessPassResources`) | none; reads `loginMember` | let a path pass, or look for a login | the check and the service's own read are apart | every path that needs a login is looked at |
| Admin: accounts and their roles (`AdminServiceImp`, `AdminAssignRoleController`, `assignRole.html`, `myUserDetailsService`) | `admin_t`, `role_t`, `inner_admin_role`; the two lists of a form; the authorities of a login | create, edit; read the lists, move roles, submit; log in | a form and a login read several tables in statements of their own; delete-all-then-insert under READ_COMMITTED; rows left behind by a deletion | a form changes what was moved in it; a login is by the account's password and gets what its roles allow |
| Admin: roles (`role.js`, `my-role.js`, `RoleController`, `RoleServiceImpl`) | `role_t`; in the tab the page number, keyword, list, links, boxes, dialog, requests not yet answered | search, page, check, add, rename, remove | answers in any order, clicks in a dialog that fades, ids that outlive the list they were taken from, pages counted from 0 and from 1 | the list on the screen is the table's, and only the rows meant change |
| Admin: authorities of a role (end of `role.js`, `AuthServiceImp`) | `inner_role_auth`; the tree on the screen, handlers bound to its button | open the dialog, check nodes, assign | handlers are added and never removed; a read that fails leaves an old tree with a message, or an empty one without; assignments overlap | one assignment per opening, for the right role, seen as a whole |
| Admin: menu (`my-menu.js`, `menu-page.html`, `MenuServiceImp`) | `menu_t`; the tree on the screen, requests | tree, save, update, remove | all requests are asynchronous; the buttons decide from an old tree | the rows are always one tree, and it is the one on the screen |
| Page links and dialogs (`jquery.pagination.js`, Bootstrap's `Modal`) | links, fading dialogs | follow a link; show, hide | intervals, edges and gaps at both ends | every page has a link or is behind an ellipsis |
| Admin security, logging, exceptions; clients of OSS, short messages, PayPal; Eureka; tools; pages | configuration or none | | | |

The services call each other only through the gateway's redirects and the shared session and
tables: the project service inserts the rows of `t_project` and `t_return` the order service
reads; the order service adds to `supportmoney` and `supporter`; the member service sets
`loginMember`, which all read.

## Modules

| module | models |
|---|---|
| `Checkout` | the order service with its sessions, request threads, tables, and PayPal |
| `Funding` | what the checkout promises of each payment, and nothing else; `Checkout` implements it |
| `CheckoutProofs` | theorems about `Checkout` |
| `ProjectLaunch` | the launch of a project in the project service |
| `Catalogue` | what readers of the project tables rely on; `ProjectLaunch` implements it |
| `MemberAuth` | registration, login and logout in the member service, with the codes in Redis |
| `Pagination` | the page links that `jquery.pagination.js` draws: pure operators |
| `RolePage` | the page of roles in one browser tab, its requests, the table, and another administrator |
| `Assignment` | the transaction that replaces the items of an owner; used by the next two |
| `RoleAssign` | the dialog that assigns authorities to a role, over `Assignment` |
| `AdminRoles` | accounts, their roles, the form that assigns them and the login, over `Assignment` |
| `MenuPage` | the page of menus in one browser tab, its requests, the table, and another administrator |
| `ProjectLaunchProofs`, `MemberAuthProofs`, `RolePageProofs`, `AssignmentProofs`, `RoleAssignProofs`, `AdminRolesProofs`, `MenuPageProofs` | theorems about these |
| `MCCheckout`, `MCProjectLaunch`, `MCMemberAuth`, `MCRolePage`, `MCRoleAssign`, `MCAdminRoles`, `MCMenuPage` | instances for TLC |

### How the code becomes actions

A request thread runs a handler. Spring Session reads the attributes of a session when a request
starts and writes the attributes that were set with `setAttribute` or `removeAttribute` when its
response is committed, so each handler is split there: a first action reads the session into
`request[t]`, a last one (named `commit...`, `remove...`) writes what the handler set, and only that.
Between them stands one action for every call that leaves the process: `createPayment`,
`executePayment`, every insert that is a transaction of its own, every upload. A handler that reads
no attribute is one action. An attribute that is mutated and not set again is lost, as in the code.

* **Checkout.** `showReturnConfirmInfo`, `showConfirmOrderInfo`/`commitConfirmOrder` and `saveAddress`
  are the pages before the payment. `generateOrder`/`createPayment`/`commitOrder` draw an order
  number, call PayPal and redirect; the handler catches PayPal's exception and goes on, and so does the
  model. `returnUrlMethod`/`executePayment` (or `executeRefused`, `executeReplyLost`), `insertOrder`,
  `insertOrderProject` are the return page: `OrderServiceImpl.saveOrder` has no `@Transactional`, so the two
  inserts are two transactions, and a session that expired is noticed only after the payment was
  executed. `notifyUrlMethod`, then `notifyIgnored`, `updateProjectMoney` or `updateFails`, then `notifyAnswered`
  or `notifyAnswerLost` are one delivery of PayPal's webhook. The amount is computed in Java `int`
  (`ToInt` wraps), and `order_amount DOUBLE(10,5)` refuses what it cannot hold.
  A payment is named by its invoice number, the order number `generateOrder` draws. `applied` counts how often a
  payment was credited, for the properties only.
* **ProjectLaunch.** `saveProjectBasicInfo`, `upload` for each picture, `commitDraft`; `saveReturn`,
  `commitReturn`; `saveConfirm`, `insertProject`, `commitProject` or `rollbackProject`, `removeDraft`.
  `saveProject` is one `REQUIRES_NEW` transaction: the key is taken by the first insert, the rows become
  visible together at the commit or not at all. A draft without a type makes an `INSERT` without values, one
  without a return a null pointer: both roll back. The column `draft` of the model's `t_project`, `accepted`
  and `forms` record history for the properties. `accepted` names the draft `saveReturn` read from the session: the form names none (see below).
  `Overlapping` chooses whether a session may have several requests at once; requests of different sessions always overlap.
* **MemberAuth.** `sendMessage` and `codeExpires` are the life of a code in Redis. `register` is the reading and the
  comparison (one action: a thread compares what it just read), `removeCode` or `removeCodeFails` the deletion
  whose result the code does not look at, `insertMember` or `insertFails` the insert, which the unique key on `loginacct`
  decides: `register` does not look the account up. `login` reads the row and compares the password, `commitLogin`
  writes the session. The code is always the text "1111"; codes are numbered to say which one a member used.
  `notDeleted`, `answered` and the password kept in the session record history for the properties.

A browser tab runs one script at a time, to its end, so an event handler is one action. What it
sends asynchronously is a request in `ajax` that the server executes (or refuses) in a step of its own and
answers in another; answers come in any order and may be lost. `generatePage` of the page of roles and the
two reads of the dialog of authorities are synchronous and part of the handler. A dialog that is told to
hide still has a working button until `HideModal`, and it and its backdrop cover the page until then. A page that is
loaded anew (`Revisit`) forgets its variables and the answers it waited for. `OtherAdmin` is somebody else's tab.

* **RolePage.** `Search`, `FollowLink`, `ClickSummaryBox`, `ClickItemBox` are the list; `ShowAddModal`, `TypeName`, `SaveRole`,
  `ClickPencil`, `UpdateRole`, `ClickRemove`, `ClickBatchRemove`, `RemoveRole` the dialogs; `Executed`, `AnswerLost`, `Refused` the server; `Answered` the
  success and error functions, the first of which loads the list again. The page's rows are computed as PageHelper does
  and its links as `Pagination` does. When the ids of the bound are used up an insert fails, and its request can only be refused. `outdated` and `saved` record history for the properties.
* **Assignment.** `Begin`, `Delete`, `Insert`, `Commit`, `Rollback` are `saveRoleAuthRelathinship` and `saveAdminRoleRelationship` with
  `@Transactional(isolation = READ_COMMITTED)`. The tables have no key but their own id, so InnoDB's `DELETE ... WHERE owner = ?` reads every
  row and waits for those another transaction has deleted or inserted: that is `HoldsRows`. A reader waits for nothing and finds
  `Committed`. `bare` records that a transaction found nothing to delete, so that it held no lock.
* **RoleAssign.** `ClickCheck` sets `window.roleId`, reads both lists and binds one more handler to the button. `Answer` is what the page gets to each read: data, a status
  that is not 200 (`refused`: a message, and the tree is left as it was), or what `ExceptionsHandlingTools` makes of a failure of the server (`failed`): status 200 and no data,
  which the page takes for success. Without the list of authorities `zTree.init` draws an empty tree (`TreeBeforeOwn`), and without those of the role line 362 throws, so that the tree stands without checks (`Fills`); nothing is
  shown of either. `ClickAssign` runs all handlers (`RunHandler`), until one finds no tree and throws (`HandlerFails`). `reads` records the worse of the two answers for `TreeIsOfRole`.
* **AdminRoles.** `ReadAssigned` and `ReadUnassigned` are the two queries of `toAssignRolePage`, `Move` and `Submit` the page; `ReadAccount`, `ReadRoles`,
  `ReadAuths` and `Authenticate` a login; `RemoveRoles` leaves the assignments behind, as the code does. `OtherSubmits` is a form of any age.
* **MenuPage.** `ClickAdd`, `ClickEdit`, `ClickRemove` are the buttons a node has in the tree on the screen, `SaveMenu`, `EditMenu`, `ConfirmRemove` what the dialogs
  send, `GetTree` (or `GetTreeFails`, when a parent is missing) the reading of the tree, `ChangeAnswered` and `TreeAnswered` the answers. `raced` and `outdated`
  record history for the properties.

## Runs

Deadlock is checked in every passing run but `MCMemberAuth`, where the registrations the bounds allow are used up and
nobody need be logged in: an idle service waiting for a request is not a deadlock.

| run | question | instance |
|---|---|---|
| `MCCheckoutOrders` | do `t_order` and `t_order_project` stay consistent with each other and with PayPal (`OrderRecordedOncePerPayment`, `DetailMatchesOrder`), does the invariant of the proofs hold (`OrderInv`, which includes the types), does the checkout implement `Funding!Safety` (`RefinesFunding`) | 1 session, 2 threads, 2 orders; sessions expire, requests crash, answers are lost, an amount exceeds the column |
| `MCCheckoutDelivery` | are only completed sales credited (`CreditOnlyCompleted`), and each of them in the end (`CompletedIsCredited`), does the fair checkout implement the fair `Funding` (`RefinesFundingFairly`) | 1 thread, 2 orders, each credited up to 2 times; both events subscribed; requests crash, updates fail, answers are lost |
| `MCCheckoutSerial` | what holds with one request at a time (`PaidToProjectOfReturn`, `CapturedIsBooked`), and is the money the sum of the notifications (`MoneyMatchesCredits`) | 1 thread, 2 projects, 2 orders, each credited up to 2 times, amounts that overflow the small `int`; answers to PayPal are lost |
| `MCLaunchTables` | do the six tables stay consistent (`ReturnsOfDraftRead`, `PicturesUploaded`, `TypeOK`), do their inserts look like one step that adds the rows of one draft (`PublishesWhole`) | 2 threads, whose requests overlap in a session; 2 drafts, 2 returns, 3 keys, all faults |
| `MCLaunchSerial` | what holds when each session has one request at a time and nothing fails, whatever other sessions do (`ReturnKept`, `PublishedOnce`, `ConfirmedIsSaved`), and what breaks the order pages (`OrderableUntilIntroducedAnew`) | 2 sessions, 2 threads that overlap, 2 members, 2 introductions, 2 drafts, 2 returns, 2 keys |
| `MCMemberAuth` | was every member's code sent to its phone, how many members can one code register, who wins an account, is a login that of the account given (`MemberHadCode`, `CodeUsesBounded`, `RegisteredOnce`, `LoginIsOfAccount`, `TypeOK`) | 1 session, 2 threads, 2 phones, 3 accounts, 3 forms, 2 codes per phone; Redis fails to delete, requests crash |
| `MCRolePage` | is the list the table's once all is answered (`TableFresh`), do the links belong to it (`LinksOfTheList`), is a name sent once (`SavedOncePerOpening`), do only the rows meant change (`OnlyMeantRowsChange`, `TypeOK`) | 2 ids, 1 row per page, 2 requests under way; the links also by themselves, for 1 to 30 pages with the numbers of the code |
| `MCRoleAssign` | is the tree on the screen of the role, unless its reading failed (`TreeIsOfRole`), is it sent once (`SentOncePerOpening`), does a commit replace (`CommitReplaces`), does nobody see a half of it (`SeenWhole`, `TypeOK`) | 2 roles, 2 authorities, 2 assignments at once, 2 handlers on the button; both reads of the dialog are refused or fail |
| `MCAdminRoles` | does a form change only what was moved (`FormKeepsUnmoved`), is a login by its account's password (`LoggedInByPassword`), with authorities from its roles (`AuthsOfRoles`, `TypeOK`) | 2 accounts, 2 names, 2 roles, 1 assignment at a time, a form or a login at a time |
| `MCMenuPage` | is every parent there as long as clicks are made in a tree that shows the table (`TreeWholeUnlessRaced`), is the tree the table's once all is answered (`TreeFresh`, `TypeOK`) | root, a branch and one more menu, 2 requests under way |

Runs that must find a violation, each a disagreement between a comment and the code
(`findings` in `PROJECT.json` has the quotes):

| run | what it shows |
|---|---|
| `MCCheckoutResend` | an answer to PayPal that is lost makes the project be credited twice |
| `MCMenuOrphan` | a branch is removed while a child is added to it, and from then on nobody's tree can be read |

What the properties leave open on purpose, because the code does not give it:

* A second order generated before the first payment returns is recorded with the first payment: `orderVO` is overwritten. `OrderRecordedOncePerPayment`
  and `DetailMatchesOrder` say how much stays true.
* When requests of a session overlap `PaidToProjectOfReturn` fails, because `showConfirmOrderInfo` writes back an `orderProjectVO` it read before another tab chose a return of
  another project; `ReturnKept`, because of two returns saved at once one is lost although both are answered with success; and `PublishedOnce`, because a
  draft can be confirmed twice at once, and a return saved during the confirmation puts the published draft back into the session.
* A return entered for one draft goes into another when a second tab has started it in between: the form of a return does not name its draft, and `saveReturn` takes the one
  it finds in the session. `ReturnsOfDraftRead` says only that it stays with that one, whatever other tabs do between the reading and the writing.
* Introductions are not tied to a project, so a second project with another one breaks the order pages of both, for good. `OrderableUntilIntroducedAnew` says that nothing else does.
* When the server fails while a dialog of authorities is read, the page shows no message. An empty tree, or one without the role's checks, stays, and a handler of an earlier opening can send it,
  which takes the role's authorities away. `TreeIsOfRole` promises the role's tree only for reads that were answered, and after such a failure the role's or one into which nothing was read; another role's may stay only after a refusal, of which there is a message.
* One code does register two accounts when two requests read it before either deletes it: `CodeUsesBounded` says that
  overlapping requests are the only way, at most one account per thread; its instance has one form more than threads.
* A search or a removal can leave `pageNum` behind the last page, with the message of no data above an unempty table (`RolePage!NoDataMeansNone` says so and does not hold).
* Two assignments to an owner that has nothing are joined: neither finds a row to lock. `CommitReplaces` says that this is the only way.
* A removed role's authorities stay with the accounts that had it: `selectAssignedAuthNameByAdminId` does not join `role_t` (`AuthsOfRoles`).
* `deleteAdmin` reads a session attribute that nothing sets, and fails before it deletes.

Why the bounds are enough: the actors interact through one session, one row or one payment at a time,
and the handlers compare at most two of them, so two threads, two payments (or drafts) and two projects
produce every order of two competing requests; a third request repeats what the second does. Two tabs of
one session are two threads of the same session; in `Checkout` two sessions share only `t_project`, whose update is one
statement, and are covered by two payments; in `ProjectLaunch` they also share the introductions of a member and the keys, and `MCLaunchSerial` has two. On the administration pages one
tab competes with the other administrator, who may do anything at any time; two requests under way give every
order of two answers; a page of one row and two ids are enough for a second page, a last page that becomes empty, and a list that changes under
checked boxes. A gap in the links needs more pages than that: `MCRolePage` assumes `NavigatorWhole` for up to 30, which TLC evaluates, and
`NavigatorIsWhole` proves it for all. Two assignments give every order of their four steps; `AdminRoles` with one at a time is enough for
pages and logins, which see only what is committed, and its theorems hold for any number. `MaxOrders`, `MaxCredits`, `MaxAddress`, `MaxDraft`, `MaxReturn`, `MaxPicture`,
`MaxKey`, `MaxForm`, `MaxCode`, `MaxRole`, `MaxAjax`, `MaxHandlers`, `MaxMenu` and the sets `Slot` and `Owner` stop counters that are unbounded in the code; they stand in guards of actions that receive
something new, so that no running handler is stopped by a bound; where `MaxRole` or `MaxMenu` is reached, an insert fails as one in a full table would. `OneAtATime` in `AdminRoles` lets a form or a login be read, not both at once: they
share nothing but the tables, which neither changes. `Overlapping` in `ProjectLaunch` is said above. `Faults` chooses the failures of an
instance, so that a property that fails under one fault can be checked under the others.

## Fairness

`Checkout!Fairness`: a thread goes on with its handler (weak; the servlet container runs it); PayPal
delivers what it has queued (weak) and keeps sending; an update attempted again and again succeeds in
the end (strong: the update and its failure compete, and a database that fails for ever is not a case
the handler could do anything about). No fairness is assumed of members, of PayPal settling a
sale, or of faults. `ProjectLaunch!Fairness`: a thread goes on with its handler. The other modules
state no fairness: nothing in the code promises that an administrator's request is answered.

## Proofs

Every theorem is about the specification without fairness, for every value of the constants that satisfies the `ASSUME`s of its module,
which TLC evaluates in every run. They say no more than that bounds are numbers, that the value for nothing is not one of the things, that request threads
are finitely many, and that prices, the plugin's configuration and the menus the schema inserts are of the form they have in the code.

### Order service: `CheckoutProofs`

| theorem | statement |
|---|---|
| `TypeCorrect` | `Spec => []TypeOK` |
| `OrderInvHolds` | `Spec => []OrderInv` |
| `OrdersOncePerPayment` | `Spec => []OrderRecordedOncePerPayment` |
| `DetailsMatchOrders` | `Spec => []DetailMatchesOrder` |
| `CreditsOnlyCompleted` | `Spec => []CreditOnlyCompleted` |
| `ImplementsFunding` | `Spec => RefinesFunding` |
| `PaidToItsProject` | `Spec /\ [][SelectsAlone]_vars => []PaidToProjectOfReturn` |
| `MoneyIsSumOfCredits` | `Spec => []MoneyMatchesCredits` |

The argument is the inductive invariant `OrderInv`. `OrderRecordedOncePerPayment` alone is not inductive: a thread
about to insert might hold a payment that already has an order. `SavingExclusive` excludes it: PayPal executes a
payment once, so the request whose `executePayment` succeeded is the only one that saves it, and until its first
insert the payment has no order. `DetailPending` carries this over the second insert, where the two tables are
inconsistent for a while: the row of `orderId` exists, is the request's own and has no detail.
`AmountsComputed` says the amount travels with the return and count it was computed from, wherever another tab
overwrites the selection. `CreationExclusive` and `PaymentsOwned` keep the payment of a request that is still talking to
PayPal from being changed by another. `NotifiedIsCompleted` gives `CreditOnlyCompleted`. Each conjunct has lemmas of its own,
one step per action.

`ImplementsFunding` maps every step of the checkout to one step of `Funding` or to none that it sees. It needs `OrderInv` where a request acts on
what it read before: the payment it executes, inserts or credits must still be in the state in which it was read.

`PaidToItsProject` is not about one thread. `SelectsAlone` forbids only that a return is chosen while the count page of the same session
is being answered, which is what makes `showConfirmOrderInfo` write back an old `orderProjectVO`; all else may overlap. `SelectionInv` says that `projectId` is the
project of the return, in the session and for the request that is about to write it.

`MoneyIsSumOfCredits` states the money of a project as `Total`, a sum over all order numbers defined by recursion. That a total exists, is unique and grows by what one order
is credited is induction over the order numbers, done by a least counterexample (`Least`, from the well-foundedness of the natural numbers), because the library's induction theorems
take an operator. The property says more than its sums: every credited payment is for a project that exists (`TotalsPositive`, `SelectionKnown`).

### Project service: `ProjectLaunchProofs`

| theorem | statement |
|---|---|
| `LaunchInvariant`, `TypeCorrect` | `Spec => []LaunchInv`, `Spec => []TypeOK` |
| `PicturesAlwaysUploaded` | `Spec => []PicturesUploaded` |
| `ReturnsStayWithDraftRead` | `Spec => []ReturnsOfDraftRead` |
| `ImplementsCatalogue` | `Spec => PublishesWhole` |
| `OrderPagesBreakOnlyByIntroduction` | `Spec => OrderableUntilIntroducedAnew` |
| `OrderableWhileIntroductionsAgree` | `Spec => [](ReturnsOrderable <=> IntroductionsAgree)` |
| `PublishedOnceWhenSerial` | `Spec /\ []SerialSessions => []PublishedOnce`, unless the service crashes |
| `ReturnKeptWhenSerial` | `Spec /\ []SerialSessions => []ReturnKept`, unless the service crashes |
| `SerialIfNotOverlapping` | `Spec => []SerialSessions` where `Overlapping` is `FALSE` |

What is published is right because what the session holds is: `SessionsWhole` (all pictures of the draft are in the bucket, all its returns were
put into it), and `HandlersHold` says the same of the copy a handler works on, whatever another tab does to the session. A form is worked on by one thread (`FormsApart`), a key is
given to one (`KeysApart`), and no table has a row of a key that is not in `t_project` (`KeysOfProjects`), so that the rows a commit adds are those of the new project and no other:
that is `ImplementsCatalogue`. `PublishedOnce` and `ReturnKept` are false with two tabs, as said above. `SerialSessions` is what they need: no session has two requests at once, for
any number of sessions and threads; `SerialIfNotOverlapping` says that the instances of `MCLaunchSerial` have it. `SerialInv` then follows a draft: it is in one session (`OneHolder`), or its form is still being worked on, or it is in the table, and the
session that published it lets go of it before its next request (`PublishedIsRemoved`). A crash between the commit and the end of the request is the other way to publish a draft twice.
`selectOrderProjectVO` joins the chosen project and return with the introductions of the member, by the member only, and its caller expects one row. `OrderPagesBreakOnlyByIntroduction` says that one step alone ends this, the commit of
a project of that member with an introduction it had not given before, whatever overlaps or fails; `OrderableWhileIntroductionsAgree` says the same as a condition on the table: the order pages of all members work (`ReturnsOrderable`) exactly while introductions agree.

### Member service: `MemberAuthProofs`

| theorem | statement |
|---|---|
| `AuthInvariant`, `TypeCorrect` | `Spec => []AuthInv`, `Spec => []TypeOK` |
| `MembersHadCodes` | `Spec => []MemberHadCode` |
| `AccountsRegisteredOnce` | `Spec => []RegisteredOnce` |
| `LoginsOfTheirAccount` | `Spec => []LoginIsOfAccount` |
| `CodesUsedByOverlapOnly` | `Spec => []CodeUsesBounded` |

`AuthInv` ties what a handler has read to what stays true: a registration holds a code that had been sent to its phone, a login a row of `t_member` (`HandlersKnow`), and
the unique key keeps one row per account (`AccountsUnique`). `CodesUsedByOverlapOnly` counts: the members a code has registered and the threads that have read it and not yet inserted are together
no more than the threads there are, and one that deletes the code ends its use by new ones.

### Administration pages

| module | theorem | statement |
|---|---|---|
| `RoleAssignProofs` | `TypeCorrect` | `Spec => []TypeOK` |
| | `TreesOfTheirRole` | `Spec => []TreeIsOfRole` |
| | `OneAssignmentPerOpening` | `Spec => []SentOncePerOpening` |
| | `CommitsReplace` | `Spec => CommitReplaces` |
| | `ReadersSeeWholeAssignments` | `Spec => SeenWhole` |
| `AdminRolesProofs` | `TypeCorrect` | `Spec => []TypeOK` |
| | `LoginsByPassword` | `Spec => []LoggedInByPassword` |
| | `LoginsAuthorities` | `Spec => []AuthsOfRoles` |
| | `FormsKeepUnmoved` | `Spec => []FormKeepsUnmoved` |
| `RolePageProofs` | `NavigatorIsWhole` | `NavigatorWhole(cp, np)` for every current page `cp` of `np` pages |
| | `TypeCorrect` | `Spec => []TypeOK` |
| | `LinksAlwaysOfTheList` | `Spec => []LinksOfTheList` |
| | `TableAlwaysFresh` | `Spec => []TableFresh` |
| | `NamesSentOnce` | `Spec => []SavedOncePerOpening` |
| | `OnlyMeantRows` | `Spec => OnlyMeantRowsChange` |
| `MenuPageProofs` | `MenuInvariant`, `TypeCorrect` | `Spec => []MenuInv`, `Spec => []TypeOK` |
| | `TreeIsFresh` | `Spec => []TreeFresh` |
| | `TreeStaysWhole` | `Spec => []TreeWholeUnlessRaced` |

`AssignmentProofs` has what the first two share. `CommitReplaces` needs an invariant about all transactions at once: only one has deleted
rows that are not committed (`OneHasGone`), and as long as one that is not bare is at work its owner has no rows and cannot get any (`OwnerCleared`); one that
deleted nothing holds no lock and could give the owner rows, but it is bare, and its commit makes those it overlaps bare. `SentOncePerOpening` needs that a tree
is on the screen only while nothing was sent (`TreeUnsent`): a second handler finds none. For `AdminRoles` the two lists of a form, and what a login has read, are tied to what is
committed until the next commit to that account marks them (`PageInv`, `LoginInv`); that a role which is new is in no list and assigned to nobody is
`RolesKnown`.

`RolePage`: `LinksOfTheList` follows from the row that is first on the page: where there is one, the page exists (`PageExists`), and the interval of the
plugin is around it (`IntervalAround`). That the rows are rows of the table in the order of its key is `KeyOrder`, by counting. `FreshInv` says why answers may come in any order: the list differs from the table only while
an answer that will load it again is under way, or after a change the tab does not learn of. `TabInv` has the ids of a request among the rows its dialog was opened for, and a dialog that was
used hidden and empty.

`MenuPage`: the tree on the screen is the table's unless a tree is on its way or a change is answered and will ask for one (`Drawn`), and a tree that arrives has the rows of the table unless
another is still to come (`ReadLast`). As long as nothing raced a click, at most one change is under way and it fits the table (`Unraced`). Two levels of menus are all there are: the page gives a node on the second no button to add, and that is what keeps every parent there when a leaf is removed.

### Only model-checked

* All liveness: `CompletedIsCredited`, `CapturedIsBooked`, `ConfirmedIsSaved`, and the fair refinement `RefinesFundingFairly`. Fairness and `ENABLED` are outside the prover.

## What is abstracted or left out

* Data no property tells apart: names, texts, invoice, remark, address contents; `cancelPay`, which changes nothing;
  `uploadReturnPicture`, which adds an object to the bucket and returns its path to the page.
* The members of `Checkout`'s sessions are logged in; `ProjectLaunch` models the login attribute itself.
* A session ends (expiry, logout) only while none of its requests runs.
* Requests reach a service as its pages send them: a count from `Count`, ids that exist together.
* What events PayPal's webhook is subscribed to is configured at PayPal: `Subscribed`.
* Administration: the animation of the sidebar and its copy of the menu tree, messages, and what zTree checks along with a node
  (any set may be checked). Of an account, the login name stands for all its form can change; the list of accounts only reads.
* Names of roles do not contain one another, so that `like '%keyword%'` finds exactly the role of that name.
* Ids are given by `AUTO_INCREMENT` and not given twice while the server runs.

## Not modelled

* The project's detail page and the portal: selects without state; the remaining days are arithmetic on one date.
* The gateway: it refuses a request without a login and changes nothing. A login that ends between two requests is in the
  modules of the services.
* Spring Security's rules, logging, exception pages, Eureka, the reverse engineering tool, templates: declarations or stock code.
* Third-party files, which are most of the repository's JavaScript: `echarts.js` alone is three copies of 73142 lines, next to which the scripts the site is made of
  (`role.js`, `my-role.js`, `my-menu.js`, and of the plugins what their pages call) are small.

## Plan

Done: `Checkout`, `Funding`, `ProjectLaunch`, `Catalogue`, `MemberAuth`, `Pagination`, `RolePage`, `Assignment`, `RoleAssign`, `AdminRoles`, `MenuPage`, and the
theorems listed above: every safety property of the runs that must pass is stated by one. What is left are proofs that say more:

1. `RolePage`: that its pages together show each matching role once.
2. `Checkout`: the safety half of `CapturedIsBooked`, that a payment without an order is one a running request is about to save or one lost to a
   listed fault.
