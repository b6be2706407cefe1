----------------------------- MODULE MemberAuth -----------------------------
(***************************************************************************)
(* Registration, login and logout in the member service: MemberController, *)
(* MemberServiceImpl, the codes RedisHandler keeps for 15 minutes and the  *)
(* table t_member.  A registration reads the code, deletes it and inserts  *)
(* the member in three calls that other requests may come between.         *)
(*                                                                         *)
(* Registration forms are numbered in the order they arrive; the password  *)
(* of a form is its number.  The codes sent to one phone are numbered too: *)
(* their text is always "1111", which is why a form only has a right code, *)
(* a wrong one or none.                                                    *)
(***************************************************************************)
EXTENDS Integers, Sequences, FiniteSets

CONSTANTS
    Session, Thread, Phone,
    Account,    \* loginacct
    MaxForm,    \* bound: registration forms
    MaxCode,    \* bound: codes sent to one phone
    Faults,     \* the failures this instance has, a subset of Fault
    None

Fault == {"crash", "redisDelete"}
Form == 1..MaxForm
FormCode == {"right", "wrong", "none"}

ASSUME BoundAssumption == MaxForm \in Nat /\ MaxCode \in Nat
ASSUME FaultAssumption == Faults \subseteq Fault
ASSUME NoneAssumption == None \notin Account \cup Session \cup Phone
ASSUME ThreadAssumption == IsFiniteSet(Thread)

VARIABLES
    codes,      \* Redis: number of the live code of each phone, 0 for none
    sent,       \* codes sent to each phone so far
    forms,      \* registration forms received so far
    answered,   \* the account each form was told to have registered
    request,    \* per thread: the handler it runs and its local values
    t_member,   \* the table: a row's id is its index
    session,    \* per session: loginMember, and the form whose password was given
    notDeleted  \* history: the phone and code of each deletion that failed

vars == <<codes, sent, forms, answered, request, t_member, session, notDeleted>>

PC == {"idle", "removeCode", "insertMember", "commitLogin"}
RequestRecord == [pc : PC, form : 0..MaxForm, phone : Phone \cup {None},
                  acct : Account \cup {None}, code : 0..MaxCode,
                  sid : Session \cup {None}, id : Nat]
MemberRow == [loginacct : Account, userpswd : Form, phone : Phone, code : 0..MaxCode]
SessionRecord == [loginMember : Nat, acct : Account \cup {None}, password : 0..MaxForm]
Idle == [pc |-> "idle", form |-> 0, phone |-> None, acct |-> None,
         code |-> 0, sid |-> None, id |-> 0]
NoLogin == [loginMember |-> 0, acct |-> None, password |-> 0]

Init ==
    /\ codes = [p \in Phone |-> 0]
    /\ sent = [p \in Phone |-> 0]
    /\ forms = 0
    /\ answered = [f \in Form |-> None]
    /\ request = [t \in Thread |-> Idle]
    /\ t_member = << >>
    /\ session = [s \in Session |-> NoLogin]
    /\ notDeleted = {}

At(t, pc) == request[t].pc = pc
End(t) == request' = [request EXCEPT ![t] = Idle]

selectByLoginAcct(a) == {i \in DOMAIN t_member : t_member[i].loginacct = a}

(***************************************************************************)
(* Plausible bugs.  Each is a definition below with one mistake.           *)
(***************************************************************************)

\* MemberHadCode: the code missing in Redis (line 97) not looked at, so that
\* it equals the code missing in the form.
Matches_nullIsEqual(formCode, p) ==
    \/ formCode = "right" /\ codes[p] # 0
    \/ formCode = "none" /\ codes[p] = 0

\* CodeUsesBounded: the deletion left out.
removeCode_leftOut(t) ==
    /\ At(t, "removeCode")
    /\ request' = [request EXCEPT ![t].pc = "insertMember"]
    /\ UNCHANGED <<codes, sent, forms, answered, t_member, session, notDeleted>>

\* RegisteredOnce: the duplicate key exception caught, and success answered.
insertFails_caught(t) ==
    /\ At(t, "insertMember")
    /\ selectByLoginAcct(request[t].acct) # {}
    /\ answered' = [answered EXCEPT ![request[t].form] = request[t].acct]
    /\ End(t)
    /\ UNCHANGED <<codes, sent, forms, t_member, session, notDeleted>>

\* TypeOK: the row inserted for a form without an account.
insertMember_noAccount(t) ==
    /\ At(t, "insertMember")
    /\ selectByLoginAcct(request[t].acct) = {}
    /\ t_member' = Append(t_member, [loginacct |-> None, userpswd |-> request[t].form,
                                     phone |-> request[t].phone, code |-> request[t].code])
    /\ answered' = [answered EXCEPT ![request[t].form] = request[t].acct]
    /\ End(t)
    /\ UNCHANGED <<codes, sent, forms, session, notDeleted>>

\* LoginIsOfAccount: the password compared with that of any member.
login_anyPassword(t, s, a, f) ==
    /\ At(t, "idle")
    /\ \E i \in selectByLoginAcct(a) :
         /\ \E j \in DOMAIN t_member : t_member[j].userpswd = f
         /\ request' = [request EXCEPT ![t] = [Idle EXCEPT
                !.pc = "commitLogin", !.sid = s, !.acct = a, !.form = f, !.id = i]]
    /\ UNCHANGED <<codes, sent, forms, answered, t_member, session, notDeleted>>

(***************************************************************************)
(* sendMessage stores a code, over the one that is there; Redis forgets it *)
(* after 15 minutes.                                                       *)
(***************************************************************************)
sendMessage(p) ==
    /\ sent[p] < MaxCode
    /\ sent' = [sent EXCEPT ![p] = @ + 1]
    /\ codes' = [codes EXCEPT ![p] = sent'[p]]
    /\ UNCHANGED <<forms, answered, request, t_member, session, notDeleted>>

codeExpires(p) ==
    /\ codes[p] # 0
    /\ codes' = [codes EXCEPT ![p] = 0]
    /\ UNCHANGED <<sent, forms, answered, request, t_member, session, notDeleted>>

(***************************************************************************)
(* register.  A missing or a different code shows the form again.          *)
(***************************************************************************)
Matches(formCode, p) == codes[p] # 0 /\ formCode = "right"

register(t, p, a, formCode) ==
    /\ At(t, "idle")
    /\ forms < MaxForm
    /\ forms' = forms + 1
    /\ request' = IF Matches(formCode, p)
                  THEN [request EXCEPT ![t] = [Idle EXCEPT
                           !.pc = "removeCode", !.form = forms', !.phone = p,
                           !.acct = a, !.code = codes[p]]]
                  ELSE request
    /\ UNCHANGED <<codes, sent, answered, t_member, session, notDeleted>>

\* Deletes whatever code the phone has now.
removeCode(t) ==
    /\ At(t, "removeCode")
    /\ codes' = [codes EXCEPT ![request[t].phone] = 0]
    /\ request' = [request EXCEPT ![t].pc = "insertMember"]
    /\ UNCHANGED <<sent, forms, answered, t_member, session, notDeleted>>

\* RedisHandler returns "failed" and register does not look at it.
removeCodeFails(t) ==
    /\ "redisDelete" \in Faults
    /\ At(t, "removeCode")
    /\ request' = [request EXCEPT ![t].pc = "insertMember"]
    /\ notDeleted' = notDeleted \cup {<<request[t].phone, request[t].code>>}
    /\ UNCHANGED <<codes, sent, forms, answered, t_member, session>>

\* The unique key on loginacct admits the first.
insertMember(t) ==
    /\ At(t, "insertMember")
    /\ selectByLoginAcct(request[t].acct) = {}
    /\ t_member' = Append(t_member, [loginacct |-> request[t].acct,
                                     userpswd |-> request[t].form,
                                     phone |-> request[t].phone, code |-> request[t].code])
    /\ answered' = [answered EXCEPT ![request[t].form] = request[t].acct]
    /\ End(t)
    /\ UNCHANGED <<codes, sent, forms, session, notDeleted>>

\* The duplicate key exception leaves the handler; the code stays deleted.
insertFails(t) ==
    /\ At(t, "insertMember")
    /\ selectByLoginAcct(request[t].acct) # {}
    /\ End(t)
    /\ UNCHANGED <<codes, sent, forms, answered, t_member, session, notDeleted>>

(***************************************************************************)
(* login and logout.                                                       *)
(***************************************************************************)

\* With an unknown account or another password the form is shown again.
login(t, s, a, f) ==
    /\ At(t, "idle")
    /\ \E i \in selectByLoginAcct(a) :
         /\ t_member[i].userpswd = f
         /\ request' = [request EXCEPT ![t] = [Idle EXCEPT
                !.pc = "commitLogin", !.sid = s, !.acct = a, !.form = f, !.id = i]]
    /\ UNCHANGED <<codes, sent, forms, answered, t_member, session, notDeleted>>

commitLogin(t) ==
    /\ At(t, "commitLogin")
    /\ session' = [session EXCEPT ![request[t].sid] =
           [loginMember |-> request[t].id, acct |-> request[t].acct, password |-> request[t].form]]
    /\ End(t)
    /\ UNCHANGED <<codes, sent, forms, answered, t_member, notDeleted>>

\* As elsewhere a session ends while none of its requests runs.
logout(s) ==
    /\ session[s] # NoLogin
    /\ \A t \in Thread : request[t].sid # s
    /\ session' = [session EXCEPT ![s] = NoLogin]
    /\ UNCHANGED <<codes, sent, forms, answered, request, t_member, notDeleted>>

crash(t) ==
    /\ "crash" \in Faults
    /\ ~ At(t, "idle")
    /\ End(t)
    /\ UNCHANGED <<codes, sent, forms, answered, t_member, session, notDeleted>>

-----------------------------------------------------------------------------
Handle(t) ==
    \/ removeCode(t)
    \/ removeCodeFails(t)
    \/ insertMember(t)
    \/ insertFails(t)
    \/ commitLogin(t)

Next ==
    \/ \E p \in Phone : sendMessage(p) \/ codeExpires(p)
    \/ \E t \in Thread :
         \/ \E p \in Phone, a \in Account, c \in FormCode : register(t, p, a, c)
         \/ \E s \in Session, a \in Account, f \in Form : login(t, s, a, f)
         \/ Handle(t)
         \/ crash(t)
    \/ \E s \in Session : logout(s)

Spec == Init /\ [][Next]_vars

-----------------------------------------------------------------------------
(***************************************************************************)
(* Properties.                                                              *)
(***************************************************************************)

\* Every variable has its type.
TypeOK ==
    /\ codes \in [Phone -> 0..MaxCode]
    /\ sent \in [Phone -> 0..MaxCode]
    /\ forms \in 0..MaxForm
    /\ answered \in [Form -> Account \cup {None}]
    /\ request \in [Thread -> RequestRecord]
    /\ t_member \in Seq(MemberRow)
    /\ session \in [Session -> SessionRecord]
    /\ notDeleted \subseteq Phone \X (1..MaxCode)

\* Every member was registered with a code that had been sent to the phone of
\* the form, however codes expire and are sent again between the steps.
MemberHadCode ==
    \A i \in DOMAIN t_member :
        t_member[i].code \in 1..sent[t_member[i].phone]

\* Only registrations that overlap share a code: between reading it and being
\* saved each takes a thread, so a code registers at most one member per thread,
\* and one where requests do not overlap.
CodeUsesBounded ==
    \A p \in Phone, c \in 1..MaxCode :
        LET uses == {i \in DOMAIN t_member : t_member[i].phone = p /\ t_member[i].code = c}
        IN  <<p, c>> \in notDeleted \/ Cardinality(uses) <= Cardinality(Thread)

\* Of competing registrations of one account exactly one is told that it
\* succeeded, and it is its password that stays.
RegisteredOnce ==
    \A f \in Form : answered[f] # None =>
        \E i \in DOMAIN t_member :
            /\ selectByLoginAcct(answered[f]) = {i}
            /\ t_member[i].userpswd = f

\* The member a session is logged in as is the one whose account and password
\* were given, whatever logins of the same session overlap.
LoginIsOfAccount ==
    \A s \in Session : session[s].loginMember # 0 =>
        /\ session[s].loginMember \in DOMAIN t_member
        /\ t_member[session[s].loginMember].loginacct = session[s].acct
        /\ t_member[session[s].loginMember].userpswd = session[s].password
=============================================================================
