-------------------------- MODULE MemberAuthProofs --------------------------
(***************************************************************************)
(* Proofs about MemberAuth, for every set of sessions, phones and accounts *)
(* and any finite number of request threads.                               *)
(***************************************************************************)
EXTENDS MemberAuth, FiniteSetTheorems, SequenceTheorems, TLAPS

Registering(t) == request[t].pc \in {"removeCode", "insertMember"}

(***************************************************************************)
(* A code that Redis has was sent.                                         *)
(***************************************************************************)
CodesSent == \A p \in Phone : codes[p] <= sent[p]

(***************************************************************************)
(* What a handler that has read its input holds: a registration a form and *)
(* a code sent to its phone, a login the member whose account and password *)
(* were given.                                                             *)
(***************************************************************************)
Knows(t) ==
    /\ Registering(t) =>
         /\ request[t].form \in Form
         /\ request[t].phone \in Phone
         /\ request[t].acct \in Account
         /\ request[t].code \in 1..sent[request[t].phone]
    /\ At(t, "commitLogin") =>
         /\ request[t].sid \in Session
         /\ request[t].id \in DOMAIN t_member
         /\ t_member[request[t].id].loginacct = request[t].acct
         /\ t_member[request[t].id].userpswd = request[t].form
HandlersKnow == \A t \in Thread : Knows(t)

\* The unique key t_member_UN.
AccountsUnique ==
    \A i, j \in DOMAIN t_member : t_member[i].loginacct = t_member[j].loginacct => i = j

AnsweredIsMember ==
    \A f \in Form : answered[f] # None =>
        \E i \in DOMAIN t_member :
            t_member[i].loginacct = answered[f] /\ t_member[i].userpswd = f

AuthInv ==
    /\ TypeOK
    /\ CodesSent
    /\ HandlersKnow
    /\ AccountsUnique
    /\ AnsweredIsMember
    /\ MemberHadCode
    /\ LoginIsOfAccount

LEMMA IdleTyped == Idle \in RequestRecord
BY BoundAssumption DEF Idle, RequestRecord, PC

LEMMA InitInv == Init => AuthInv
<1> SUFFICES ASSUME Init PROVE AuthInv
  OBVIOUS
<1>1. TypeOK
  <2>1. NoLogin \in SessionRecord
    BY BoundAssumption DEF NoLogin, SessionRecord
  <2> QED BY <2>1, IdleTyped, BoundAssumption DEF Init, TypeOK, Form
<1>2. CodesSent /\ HandlersKnow
  BY DEF Init, CodesSent, HandlersKnow, Knows, Registering, At, Idle
<1>3. AccountsUnique /\ AnsweredIsMember /\ MemberHadCode /\ LoginIsOfAccount
  BY DEF Init, AccountsUnique, AnsweredIsMember, MemberHadCode, LoginIsOfAccount, NoLogin
<1> QED BY <1>1, <1>2, <1>3 DEF AuthInv

-----------------------------------------------------------------------------
\* The table is only appended to, so what is known of a member stays true.
LEMMA Inserted ==
    ASSUME AuthInv, NEW t \in Thread, insertMember(t)
    PROVE  LET row == [loginacct |-> request[t].acct, userpswd |-> request[t].form,
                       phone |-> request[t].phone, code |-> request[t].code]
           IN  /\ row \in MemberRow
               /\ t_member' \in Seq(MemberRow)
               /\ DOMAIN t_member' = DOMAIN t_member \cup {Len(t_member) + 1}
               /\ Len(t_member) + 1 \notin DOMAIN t_member
               /\ \A i \in DOMAIN t_member : t_member'[i] = t_member[i]
               /\ t_member'[Len(t_member) + 1] = row
<1> DEFINE row == [loginacct |-> request[t].acct, userpswd |-> request[t].form,
                   phone |-> request[t].phone, code |-> request[t].code]
<1>1. t_member \in Seq(MemberRow) /\ request[t] \in RequestRecord
  BY DEF AuthInv, TypeOK
<1>2. row \in MemberRow
  <2>1. Registering(t)
    BY DEF insertMember, At, Registering
  <2>2. /\ request[t].form \in Form /\ request[t].phone \in Phone
        /\ request[t].acct \in Account /\ request[t].code \in 0..MaxCode
    BY <1>1, <2>1 DEF AuthInv, HandlersKnow, Knows, RequestRecord
  <2> QED BY <2>2 DEF MemberRow
<1>3. t_member' = Append(t_member, row)
  BY DEF insertMember
<1> HIDE DEF row
<1>4. /\ t_member' \in Seq(MemberRow) /\ Len(t_member') = Len(t_member) + 1
      /\ \A i \in 1..Len(t_member) : t_member'[i] = t_member[i]
      /\ t_member'[Len(t_member) + 1] = row
  BY <1>1, <1>2, <1>3, AppendProperties
<1>5. /\ DOMAIN t_member = 1..Len(t_member) /\ Len(t_member) \in Nat
      /\ DOMAIN t_member' = 1..Len(t_member) + 1
  BY <1>1, <1>4, LenProperties
<1>6. /\ DOMAIN t_member' = DOMAIN t_member \cup {Len(t_member) + 1}
      /\ Len(t_member) + 1 \notin DOMAIN t_member
  BY <1>5
<1> QED BY <1>2, <1>4, <1>5, <1>6 DEF row

-----------------------------------------------------------------------------
(***************************************************************************)
(* Types.  What a handler takes over is typed by the variables it read.    *)
(***************************************************************************)
LEMMA RequestTyped ==
    ASSUME TypeOK, NEW t \in Thread, NEW r \in RequestRecord,
           request' = [request EXCEPT ![t] = r]
    PROVE  request' \in [Thread -> RequestRecord]
BY DEF TypeOK

LEMMA PcTyped ==
    ASSUME TypeOK, NEW t \in Thread, NEW pc \in PC,
           request' = [request EXCEPT ![t].pc = pc]
    PROVE  request' \in [Thread -> RequestRecord]
<1>1. request[t] \in RequestRecord
  BY DEF TypeOK
<1>2. [request[t] EXCEPT !.pc = pc] \in RequestRecord
  BY <1>1 DEF RequestRecord
<1>3. request' = [request EXCEPT ![t] = [request[t] EXCEPT !.pc = pc]]
  OBVIOUS
<1> QED BY <1>2, <1>3, RequestTyped

LEMMA TypeStep == AuthInv /\ [Next]_vars => TypeOK'
<1> SUFFICES ASSUME AuthInv, [Next]_vars PROVE TypeOK'
  OBVIOUS
<1> USE BoundAssumption
<1>0. TypeOK
  BY DEF AuthInv
<1>1. ASSUME NEW p \in Phone, sendMessage(p) PROVE TypeOK'
  BY <1>0, <1>1 DEF sendMessage, TypeOK
<1>2. ASSUME NEW p \in Phone, codeExpires(p) PROVE TypeOK'
  BY <1>0, <1>2 DEF codeExpires, TypeOK
<1>3. ASSUME NEW t \in Thread, NEW p \in Phone, NEW a \in Account, NEW c \in FormCode,
             register(t, p, a, c)
      PROVE  TypeOK'
  <2>1. forms' \in Form /\ forms' \in 0..MaxForm /\ codes[p] \in 0..MaxCode
    BY <1>0, <1>3 DEF register, TypeOK, Form
  <2> DEFINE q == [Idle EXCEPT !.pc = "removeCode", !.form = forms', !.phone = p]
             r == [q EXCEPT !.acct = a, !.code = codes[p]]
  <2>2. r \in RequestRecord
    <3>1. q \in RequestRecord
      BY <2>1, IdleTyped DEF RequestRecord, PC
    <3> HIDE DEF q
    <3> QED BY <2>1, <3>1 DEF RequestRecord
  <2>3. request' = request \/ request' = [request EXCEPT ![t] = r]
    BY <1>3 DEF register
  <2> HIDE DEF r
  <2>4. request' \in [Thread -> RequestRecord]
    BY <1>0, <2>2, <2>3, RequestTyped DEF TypeOK
  <2> QED BY <1>0, <1>3, <2>1, <2>4 DEF register, TypeOK, Form
<1>4. ASSUME NEW t \in Thread, NEW s \in Session, NEW a \in Account, NEW f \in Form,
             login(t, s, a, f)
      PROVE  TypeOK'
  <2>1. PICK i \in DOMAIN t_member :
              request' = [request EXCEPT ![t] = [Idle EXCEPT
                !.pc = "commitLogin", !.sid = s, !.acct = a, !.form = f, !.id = i]]
    BY <1>4 DEF login, selectByLoginAcct
  <2>2. i \in Nat /\ f \in 0..MaxForm
    BY <1>0, <2>1, LenProperties DEF TypeOK, Form
  <2> DEFINE q == [Idle EXCEPT !.pc = "commitLogin", !.sid = s, !.acct = a]
             r == [q EXCEPT !.form = f, !.id = i]
  <2>3. r \in RequestRecord
    <3>1. q \in RequestRecord
      BY IdleTyped DEF RequestRecord, PC
    <3> HIDE DEF q
    <3> QED BY <2>2, <3>1 DEF RequestRecord
  <2>4. request' \in [Thread -> RequestRecord]
    BY <1>0, <2>1, <2>3, RequestTyped
  <2> QED BY <1>0, <1>4, <2>4 DEF login, TypeOK
<1>5. ASSUME NEW t \in Thread, removeCode(t) PROVE TypeOK'
  <2>1. request' \in [Thread -> RequestRecord]
    BY <1>0, <1>5, PcTyped DEF removeCode, PC
  <2>2. codes \in [Phone -> 0..MaxCode] /\ 0 \in 0..MaxCode
    BY <1>0 DEF TypeOK
  <2>3. codes' = [codes EXCEPT ![request[t].phone] = 0]
    BY <1>5 DEF removeCode
  <2>4. codes' \in [Phone -> 0..MaxCode]
    BY <2>2, <2>3
  <2> QED BY <1>0, <1>5, <2>1, <2>4 DEF removeCode, TypeOK
<1>6. ASSUME NEW t \in Thread, removeCodeFails(t) PROVE TypeOK'
  <2>1. request' \in [Thread -> RequestRecord]
    BY <1>0, <1>6, PcTyped DEF removeCodeFails, PC
  <2>2. request[t].phone \in Phone /\ request[t].code \in 1..MaxCode
    BY <1>6 DEF removeCodeFails, AuthInv, HandlersKnow, Knows, Registering, At, TypeOK
  <2> QED BY <1>0, <1>6, <2>1, <2>2 DEF removeCodeFails, TypeOK
<1>7. ASSUME NEW t \in Thread, insertMember(t) PROVE TypeOK'
  <2>1. request' \in [Thread -> RequestRecord]
    BY <1>0, <1>7, IdleTyped, RequestTyped DEF insertMember, End
  <2>2. t_member' \in Seq(MemberRow)
    BY <1>7, Inserted
  <2>3. request[t].form \in Form /\ request[t].acct \in Account
    BY <1>7 DEF insertMember, AuthInv, HandlersKnow, Knows, Registering, At
  <2> QED BY <1>0, <1>7, <2>1, <2>2, <2>3 DEF insertMember, TypeOK
<1>8. ASSUME NEW t \in Thread, insertFails(t) \/ crash(t) PROVE TypeOK'
  <2>1. request' \in [Thread -> RequestRecord]
    BY <1>0, <1>8, IdleTyped, RequestTyped DEF insertFails, crash, End
  <2> QED BY <1>0, <1>8, <2>1 DEF insertFails, crash, TypeOK
<1>9. ASSUME NEW t \in Thread, commitLogin(t) PROVE TypeOK'
  <2>1. request' \in [Thread -> RequestRecord]
    BY <1>0, <1>9, IdleTyped, RequestTyped DEF commitLogin, End
  <2>2. [loginMember |-> request[t].id, acct |-> request[t].acct,
         password |-> request[t].form] \in SessionRecord
    BY <1>0 DEF TypeOK, RequestRecord, SessionRecord
  <2> QED BY <1>0, <1>9, <2>1, <2>2 DEF commitLogin, TypeOK
<1>10. ASSUME NEW s \in Session, logout(s) PROVE TypeOK'
  <2>1. NoLogin \in SessionRecord
    BY DEF NoLogin, SessionRecord
  <2> QED BY <1>0, <1>10, <2>1 DEF logout, TypeOK
<1>11. CASE UNCHANGED vars
  BY <1>0, <1>11 DEF vars, TypeOK
<1> QED BY <1>1, <1>2, <1>3, <1>4, <1>5, <1>6, <1>7, <1>8, <1>9, <1>10, <1>11
        DEF Next, Handle

-----------------------------------------------------------------------------
(***************************************************************************)
(* The rest of the invariant.  No step takes back a code or a member, so   *)
(* only a step of a handler can change what that handler knows.            *)
(***************************************************************************)
Grows ==
    /\ \A p \in Phone : sent[p] <= sent'[p]
    /\ DOMAIN t_member \subseteq DOMAIN t_member'
    /\ \A i \in DOMAIN t_member : t_member'[i] = t_member[i]

LEMMA NextGrows == AuthInv /\ [Next]_vars => Grows
<1> SUFFICES ASSUME AuthInv, [Next]_vars PROVE Grows
  OBVIOUS
<1>1. ASSUME NEW p \in Phone, sendMessage(p) PROVE Grows
  BY <1>1 DEF sendMessage, AuthInv, TypeOK, Grows
<1>2. ASSUME NEW t \in Thread, insertMember(t) PROVE Grows
  <2>1. UNCHANGED sent
    BY <1>2 DEF insertMember
  <2>2. \A p \in Phone : sent[p] <= sent'[p]
    BY <2>1 DEF AuthInv, TypeOK
  <2> QED BY <1>2, <2>2, Inserted DEF Grows
<1>3. CASE UNCHANGED <<sent, t_member>>
  BY <1>3 DEF AuthInv, TypeOK, Grows
<1> QED
  BY <1>1, <1>2, <1>3
     DEF Next, Handle, codeExpires, register, login, removeCode, removeCodeFails,
         insertFails, commitLogin, logout, crash, vars

LEMMA StillKnows ==
    ASSUME AuthInv, Grows, TypeOK', NEW u \in Thread, request'[u] = request[u]
    PROVE  Knows(u)'
<1>1. Knows(u)
  BY DEF AuthInv, HandlersKnow
<1>2. request[u].phone \in Phone =>
        /\ sent[request[u].phone] \in Nat /\ sent'[request[u].phone] \in Nat
        /\ sent[request[u].phone] <= sent'[request[u].phone]
  BY BoundAssumption DEF AuthInv, TypeOK, Grows
<1> QED BY <1>1, <1>2 DEF Knows, Registering, At, Grows

LEMMA IdleKnows ==
    ASSUME AuthInv, Grows, TypeOK', NEW t \in Thread, End(t)
    PROVE  HandlersKnow'
<1>1. ASSUME NEW u \in Thread PROVE Knows(u)'
  <2>1. CASE u = t
    <3>1. request'[u] = Idle
      BY <2>1 DEF End, AuthInv, TypeOK
    <3> QED BY <3>1 DEF Knows, Registering, At, Idle
  <2>2. CASE u # t
    <3>1. request'[u] = request[u]
      BY <2>2 DEF End, AuthInv, TypeOK
    <3> QED BY <3>1, StillKnows
  <2> QED BY <2>1, <2>2
<1> QED BY <1>1 DEF HandlersKnow

LEMMA HandlersStep == AuthInv /\ [Next]_vars => HandlersKnow'
<1> SUFFICES ASSUME AuthInv, [Next]_vars PROVE HandlersKnow'
  OBVIOUS
<1>0. TypeOK /\ TypeOK' /\ Grows
  BY TypeStep, NextGrows DEF AuthInv
<1>1. CASE UNCHANGED request
  BY <1>0, <1>1, StillKnows DEF HandlersKnow
<1>2. ASSUME NEW t \in Thread, NEW p \in Phone, NEW a \in Account, NEW c \in FormCode,
             register(t, p, a, c)
      PROVE  HandlersKnow'
  <2>1. CASE request' = request
    BY <1>1, <2>1
  <2>2. CASE request' # request
    <3> DEFINE q == [Idle EXCEPT !.pc = "removeCode", !.form = forms', !.phone = p]
               r == [q EXCEPT !.acct = a, !.code = codes[p]]
    <3>1. request' = [request EXCEPT ![t] = r]
      BY <1>2, <2>2 DEF register
    <3>2. /\ forms' \in Form /\ codes[p] # 0 /\ codes[p] \in 0..sent[p]
          /\ sent' = sent
      <4>1. Matches(c, p) /\ forms < MaxForm /\ forms' = forms + 1 /\ sent' = sent
        BY <1>2, <2>2 DEF register
      <4>2. codes[p] <= sent[p] /\ codes[p] \in Nat /\ sent[p] \in Nat
        BY <1>0, BoundAssumption DEF AuthInv, CodesSent, TypeOK
      <4> QED BY <1>0, <4>1, <4>2, BoundAssumption DEF Matches, TypeOK, Form
    <3>3. r.pc = "removeCode" /\ r.form = forms' /\ r.phone = p /\ r.acct = a /\ r.code = codes[p]
      <4>1. q.pc = "removeCode" /\ q.form = forms' /\ q.phone = p /\ DOMAIN q = DOMAIN Idle
        BY DEF Idle
      <4>2. {"pc", "form", "phone", "acct", "code"} \subseteq DOMAIN q
        BY <4>1 DEF Idle
      <4> HIDE DEF q
      <4> QED BY <4>1, <4>2
    <3> HIDE DEF r, q
    <3>4. ASSUME NEW u \in Thread PROVE Knows(u)'
      <4>1. CASE u = t
        <5>1. request'[u] = r
          BY <1>0, <3>1, <4>1 DEF TypeOK
        <5> QED BY <3>2, <3>3, <5>1 DEF Knows, Registering, At
      <4>2. CASE u # t
        <5>1. request'[u] = request[u]
          BY <1>0, <3>1, <4>2 DEF TypeOK
        <5> QED BY <1>0, <5>1, StillKnows
      <4> QED BY <4>1, <4>2
    <3> QED BY <3>4 DEF HandlersKnow
  <2> QED BY <2>1, <2>2
<1>3. ASSUME NEW t \in Thread, NEW s \in Session, NEW a \in Account, NEW f \in Form,
             login(t, s, a, f)
      PROVE  HandlersKnow'
  <2>1. PICK i \in DOMAIN t_member :
          /\ t_member[i].loginacct = a
          /\ t_member[i].userpswd = f
          /\ request' = [request EXCEPT ![t] = [Idle EXCEPT
                !.pc = "commitLogin", !.sid = s, !.acct = a, !.form = f, !.id = i]]
    BY <1>3 DEF login, selectByLoginAcct
  <2> DEFINE q == [Idle EXCEPT !.pc = "commitLogin", !.sid = s, !.acct = a]
             r == [q EXCEPT !.form = f, !.id = i]
  <2>2. r.pc = "commitLogin" /\ r.sid = s /\ r.acct = a /\ r.form = f /\ r.id = i
    <3>1. q.pc = "commitLogin" /\ q.sid = s /\ q.acct = a /\ DOMAIN q = DOMAIN Idle
      BY DEF Idle
    <3>2. {"pc", "sid", "acct", "form", "id"} \subseteq DOMAIN q
      BY <3>1 DEF Idle
    <3> HIDE DEF q
    <3> QED BY <3>1, <3>2
  <2>3. request' = [request EXCEPT ![t] = r]
    BY <2>1
  <2> HIDE DEF r, q
  <2>4. t_member' = t_member
    BY <1>3 DEF login
  <2>5. ASSUME NEW u \in Thread PROVE Knows(u)'
    <3>1. CASE u = t
      <4>1. request'[u] = r
        BY <1>0, <2>3, <3>1 DEF TypeOK
      <4> QED BY <2>1, <2>2, <2>4, <4>1 DEF Knows, Registering, At
    <3>2. CASE u # t
      <4>1. request'[u] = request[u]
        BY <1>0, <2>3, <3>2 DEF TypeOK
      <4> QED BY <1>0, <4>1, StillKnows
    <3> QED BY <3>1, <3>2
  <2> QED BY <2>5 DEF HandlersKnow
<1>4. ASSUME NEW t \in Thread, removeCode(t) \/ removeCodeFails(t) PROVE HandlersKnow'
  <2>1. /\ request' = [request EXCEPT ![t].pc = "insertMember"]
        /\ UNCHANGED sent /\ At(t, "removeCode")
    BY <1>4 DEF removeCode, removeCodeFails
  <2>2. Knows(t) /\ request[t] \in RequestRecord
    BY <1>0 DEF AuthInv, HandlersKnow, TypeOK
  <2>3. ASSUME NEW u \in Thread PROVE Knows(u)'
    <3>1. CASE u = t
      <4>1. request'[u] = [request[t] EXCEPT !.pc = "insertMember"]
        BY <1>0, <2>1, <3>1 DEF TypeOK
      <4>2. /\ request'[u].pc = "insertMember" /\ request'[u].form = request[t].form
            /\ request'[u].phone = request[t].phone /\ request'[u].acct = request[t].acct
            /\ request'[u].code = request[t].code
        BY <2>2, <4>1 DEF RequestRecord
      <4> QED BY <2>1, <2>2, <4>2 DEF Knows, Registering, At
    <3>2. CASE u # t
      <4>1. request'[u] = request[u]
        BY <1>0, <2>1, <3>2 DEF TypeOK
      <4> QED BY <1>0, <4>1, StillKnows
    <3> QED BY <3>1, <3>2
  <2> QED BY <2>3 DEF HandlersKnow
<1>5. ASSUME NEW t \in Thread, insertMember(t) \/ insertFails(t) \/ commitLogin(t) \/ crash(t)
      PROVE  HandlersKnow'
  BY <1>0, <1>5, IdleKnows DEF insertMember, insertFails, commitLogin, crash
<1> QED
  BY <1>1, <1>2, <1>3, <1>4, <1>5
     DEF Next, Handle, sendMessage, codeExpires, logout, vars

LEMMA CodesStep == AuthInv /\ [Next]_vars => CodesSent'
<1> SUFFICES ASSUME AuthInv, [Next]_vars PROVE CodesSent'
  OBVIOUS
<1>0. /\ codes \in [Phone -> 0..MaxCode] /\ sent \in [Phone -> 0..MaxCode]
      /\ \A p \in Phone : codes[p] <= sent[p]
  BY DEF AuthInv, TypeOK, CodesSent
<1> USE BoundAssumption
<1>1. ASSUME NEW p \in Phone, sendMessage(p) PROVE CodesSent'
  BY <1>0, <1>1 DEF sendMessage, CodesSent
<1>2. ASSUME NEW p \in Phone, codes' = [codes EXCEPT ![p] = 0], UNCHANGED sent
      PROVE  CodesSent'
  BY <1>0, <1>2 DEF CodesSent
<1>3. ASSUME NEW t \in Thread, removeCode(t) PROVE CodesSent'
  BY <1>2, <1>3 DEF removeCode, AuthInv, HandlersKnow, Knows, Registering, At
<1>4. CASE UNCHANGED <<codes, sent>>
  BY <1>0, <1>4 DEF CodesSent
<1> QED
  BY <1>1, <1>2, <1>3, <1>4
     DEF Next, Handle, codeExpires, register, login, removeCodeFails, insertMember,
         insertFails, commitLogin, logout, crash, vars

LEMMA MembersStep ==
    AuthInv /\ [Next]_vars => AccountsUnique' /\ MemberHadCode' /\ AnsweredIsMember'
<1> SUFFICES ASSUME AuthInv, [Next]_vars
             PROVE  AccountsUnique' /\ MemberHadCode' /\ AnsweredIsMember'
  OBVIOUS
<1>0. TypeOK /\ TypeOK' /\ Grows /\ AccountsUnique /\ MemberHadCode /\ AnsweredIsMember
  BY TypeStep, NextGrows DEF AuthInv
<1>1. ASSUME NEW i \in DOMAIN t_member PROVE t_member'[i].code \in 1..sent'[t_member'[i].phone]
  <2>1. t_member[i] \in MemberRow /\ t_member'[i] = t_member[i]
    BY <1>0, ElementOfSeq, LenProperties DEF TypeOK, Grows
  <2>2. t_member[i].phone \in Phone /\ t_member[i].code \in 1..sent[t_member[i].phone]
    BY <1>0, <2>1 DEF MemberHadCode, MemberRow
  <2>3. /\ sent[t_member[i].phone] \in Nat /\ sent'[t_member[i].phone] \in Nat
        /\ sent[t_member[i].phone] <= sent'[t_member[i].phone]
    BY <1>0, <2>2, BoundAssumption DEF TypeOK, Grows
  <2> QED BY <2>1, <2>2, <2>3
<1>2. ASSUME NEW t \in Thread, insertMember(t)
      PROVE  AccountsUnique' /\ MemberHadCode' /\ AnsweredIsMember'
  <2> DEFINE n == Len(t_member) + 1
             row == [loginacct |-> request[t].acct, userpswd |-> request[t].form,
                     phone |-> request[t].phone, code |-> request[t].code]
  <2>1. /\ DOMAIN t_member' = DOMAIN t_member \cup {n}
        /\ n \notin DOMAIN t_member
        /\ \A i \in DOMAIN t_member : t_member'[i] = t_member[i]
        /\ t_member'[n] = row
    BY <1>2, Inserted
  <2>2. /\ row.loginacct = request[t].acct /\ row.userpswd = request[t].form
        /\ row.phone = request[t].phone /\ row.code = request[t].code
    OBVIOUS
  <2> HIDE DEF n, row
  <2>3. \A i \in DOMAIN t_member : t_member[i].loginacct # request[t].acct
    BY <1>2 DEF insertMember, selectByLoginAcct
  <2>4. AccountsUnique'
    BY <1>0, <2>1, <2>2, <2>3 DEF AccountsUnique
  <2>5. row.code \in 1..sent'[row.phone]
    BY <1>2, <2>2 DEF insertMember, AuthInv, HandlersKnow, Knows, Registering, At
  <2>6. MemberHadCode'
    BY <1>1, <2>1, <2>5 DEF MemberHadCode
  <2>7. AnsweredIsMember'
    <3>1. answered' = [answered EXCEPT ![request[t].form] = request[t].acct]
      BY <1>2 DEF insertMember
    <3>2. ASSUME NEW f \in Form, answered'[f] # None
          PROVE  \E i \in DOMAIN t_member' :
                   t_member'[i].loginacct = answered'[f] /\ t_member'[i].userpswd = f
      <4>1. CASE f = request[t].form
        <5>1. answered'[f] = request[t].acct
          BY <1>0, <3>1, <4>1 DEF TypeOK
        <5> QED BY <2>1, <2>2, <4>1, <5>1
      <4>2. CASE f # request[t].form
        <5>1. answered'[f] = answered[f]
          BY <1>0, <3>1, <4>2 DEF TypeOK
        <5> QED BY <1>0, <2>1, <3>2, <5>1 DEF AnsweredIsMember
      <4> QED BY <4>1, <4>2
    <3> QED BY <3>2 DEF AnsweredIsMember
  <2> QED BY <2>4, <2>6, <2>7
<1>3. CASE UNCHANGED <<t_member, answered>>
  <2>1. AccountsUnique' /\ AnsweredIsMember'
    BY <1>0, <1>3 DEF AccountsUnique, AnsweredIsMember
  <2>2. MemberHadCode'
    BY <1>1, <1>3 DEF MemberHadCode
  <2> QED BY <2>1, <2>2
<1> QED
  BY <1>2, <1>3
     DEF Next, Handle, sendMessage, codeExpires, register, login, removeCode,
         removeCodeFails, insertFails, commitLogin, logout, crash, vars

LEMMA LoginStep == AuthInv /\ [Next]_vars => LoginIsOfAccount'
<1> SUFFICES ASSUME AuthInv, [Next]_vars PROVE LoginIsOfAccount'
  OBVIOUS
<1>0. TypeOK /\ Grows /\ LoginIsOfAccount
  BY NextGrows DEF AuthInv
<1>1. ASSUME NEW s \in Session, session'[s] = session[s], session'[s].loginMember # 0
      PROVE  /\ session'[s].loginMember \in DOMAIN t_member'
             /\ t_member'[session'[s].loginMember].loginacct = session'[s].acct
             /\ t_member'[session'[s].loginMember].userpswd = session'[s].password
  BY <1>0, <1>1 DEF LoginIsOfAccount, Grows
<1>2. CASE UNCHANGED session
  BY <1>1, <1>2 DEF LoginIsOfAccount
<1>3. ASSUME NEW t \in Thread, commitLogin(t) PROVE LoginIsOfAccount'
  <2> DEFINE new == [loginMember |-> request[t].id, acct |-> request[t].acct,
                     password |-> request[t].form]
  <2>1. session' = [session EXCEPT ![request[t].sid] = new] /\ t_member' = t_member
    BY <1>3 DEF commitLogin
  <2>2. /\ new.loginMember \in DOMAIN t_member
        /\ t_member[new.loginMember].loginacct = new.acct
        /\ t_member[new.loginMember].userpswd = new.password
    BY <1>3 DEF commitLogin, AuthInv, HandlersKnow, Knows, At
  <2> HIDE DEF new
  <2>3. \A s \in Session : session'[s] = new \/ session'[s] = session[s]
    BY <1>0, <2>1 DEF TypeOK
  <2> QED BY <1>1, <2>1, <2>2, <2>3 DEF LoginIsOfAccount
<1>4. ASSUME NEW s \in Session, logout(s) PROVE LoginIsOfAccount'
  <2>1. \A u \in Session : session'[u].loginMember = 0 \/ session'[u] = session[u]
    BY <1>0, <1>4 DEF logout, TypeOK, NoLogin
  <2> QED BY <1>1, <2>1 DEF LoginIsOfAccount
<1> QED
  BY <1>2, <1>3, <1>4
     DEF Next, Handle, sendMessage, codeExpires, register, login, removeCode,
         removeCodeFails, insertMember, insertFails, crash, vars

THEOREM AuthInvariant == Spec => []AuthInv
<1>1. AuthInv /\ [Next]_vars => AuthInv'
  BY TypeStep, HandlersStep, CodesStep, MembersStep, LoginStep DEF AuthInv
<1> QED BY <1>1, InitInv, PTL DEF Spec

\* The variables always have their types.
THEOREM TypeCorrect == Spec => []TypeOK
<1>1. AuthInv => TypeOK
  BY DEF AuthInv
<1> QED BY <1>1, AuthInvariant, PTL

\* Every member was registered with a code that had been sent to its phone.
THEOREM MembersHadCodes == Spec => []MemberHadCode
<1>1. AuthInv => MemberHadCode
  BY DEF AuthInv
<1> QED BY <1>1, AuthInvariant, PTL

\* Of competing registrations of an account the one told of its success is
\* the only member of that account, with the password it gave.
THEOREM AccountsRegisteredOnce == Spec => []RegisteredOnce
<1>1. AuthInv => RegisteredOnce
  <2> SUFFICES ASSUME AuthInv, NEW f \in Form, answered[f] # None
               PROVE  \E i \in DOMAIN t_member :
                        /\ selectByLoginAcct(answered[f]) = {i}
                        /\ t_member[i].userpswd = f
    BY DEF RegisteredOnce
  <2>1. PICK i \in DOMAIN t_member :
               t_member[i].loginacct = answered[f] /\ t_member[i].userpswd = f
    BY DEF AuthInv, AnsweredIsMember
  <2>2. selectByLoginAcct(answered[f]) = {i}
    BY <2>1 DEF AuthInv, AccountsUnique, selectByLoginAcct
  <2> QED BY <2>1, <2>2
<1> QED BY <1>1, AuthInvariant, PTL

\* A session is logged in as the member whose account and password were given.
THEOREM LoginsOfTheirAccount == Spec => []LoginIsOfAccount
<1>1. AuthInv => LoginIsOfAccount
  BY DEF AuthInv
<1> QED BY <1>1, AuthInvariant, PTL

-----------------------------------------------------------------------------
(***************************************************************************)
(* How often a code is used.  While Redis has it, it has registered nobody *)
(* and no registration that read it has gone past the deletion.  Once it   *)
(* is gone nobody reads it any more, and each registration that still      *)
(* holds it is a thread that can at most turn into one member.             *)
(***************************************************************************)
Uses(p, c) == {i \in DOMAIN t_member : t_member[i].phone = p /\ t_member[i].code = c}
Holders(p, c) ==
    {t \in Thread : Registering(t) /\ request[t].phone = p /\ request[t].code = c}

UnusedWhileLive(p, c) ==
    codes[p] = c =>
        /\ Uses(p, c) = {}
        /\ \A t \in Holders(p, c) : ~At(t, "insertMember")
UsesBounded(p, c) == Cardinality(Uses(p, c)) + Cardinality(Holders(p, c)) <= Cardinality(Thread)

UsesInv ==
    \A p \in Phone, c \in 1..MaxCode :
        <<p, c>> \notin notDeleted => UnusedWhileLive(p, c) /\ UsesBounded(p, c)

LEMMA UsesInit == Init => UsesInv
<1> SUFFICES ASSUME Init, NEW p \in Phone, NEW c \in 1..MaxCode
             PROVE  UnusedWhileLive(p, c) /\ UsesBounded(p, c)
  BY DEF UsesInv
<1>1. Uses(p, c) = {} /\ Holders(p, c) = {}
  BY DEF Init, Uses, Holders, Registering, Idle
<1>2. Cardinality({}) = 0 /\ Cardinality(Thread) \in Nat
  BY FS_EmptySet, FS_CardinalityType, ThreadAssumption
<1> QED BY <1>1, <1>2 DEF UnusedWhileLive, UsesBounded

LEMMA UsesFinite ==
    ASSUME TypeOK, NEW p, NEW c
    PROVE  /\ IsFiniteSet(Uses(p, c)) /\ Cardinality(Uses(p, c)) \in Nat
           /\ IsFiniteSet(Holders(p, c)) /\ Cardinality(Holders(p, c)) \in Nat
           /\ Cardinality(Holders(p, c)) <= Cardinality(Thread)
           /\ Cardinality(Thread) \in Nat
<1>1. DOMAIN t_member = 1..Len(t_member) /\ Len(t_member) \in Nat
  BY LenProperties DEF TypeOK
<1>2. IsFiniteSet(DOMAIN t_member)
  BY <1>1, FS_Interval
<1>3. Uses(p, c) \in SUBSET DOMAIN t_member /\ Holders(p, c) \in SUBSET Thread
  BY DEF Uses, Holders
<1> QED BY <1>2, <1>3, ThreadAssumption, FS_Subset, FS_CardinalityType

\* A step that registers nobody with the code and gives it to no other thread.
LEMMA BoundKept ==
    ASSUME TypeOK, NEW p, NEW c, UsesBounded(p, c),
           Uses(p, c)' = Uses(p, c), Holders(p, c)' \subseteq Holders(p, c)
    PROVE  UsesBounded(p, c)'
<1>1. Cardinality(Holders(p, c)') <= Cardinality(Holders(p, c))
      /\ Cardinality(Holders(p, c)') \in Nat
  BY UsesFinite, FS_Subset, FS_CardinalityType
<1>2. Cardinality(Holders(p, c)') + Cardinality(Uses(p, c)') <= Cardinality(Thread)
  BY <1>1, UsesFinite DEF UsesBounded
<1> QED BY <1>1, <1>2, UsesFinite DEF UsesBounded

\* A code that has registered nobody is held by no more threads than there are.
LEMMA UnusedBounded ==
    ASSUME TypeOK', NEW p, NEW c, Uses(p, c)' = {}
    PROVE  UsesBounded(p, c)'
<1>1. Holders(p, c)' \in SUBSET Thread
  BY DEF Holders
<1>2. /\ Cardinality(Holders(p, c)') <= Cardinality(Thread)
      /\ Cardinality(Holders(p, c)') \in Nat /\ Cardinality(Thread) \in Nat
  BY <1>1, FS_Subset, FS_CardinalityType, ThreadAssumption
<1>3. Cardinality(Uses(p, c)') = 0
  BY FS_EmptySet
<1> QED BY <1>2, <1>3 DEF UsesBounded

\* The other threads hold what they held.
LEMMA HoldersOfOthers ==
    ASSUME TypeOK, NEW t \in Thread, NEW r, request' = [request EXCEPT ![t] = r],
           NEW p, NEW c,
           r.pc \in {"removeCode", "insertMember"} => r.phone # p \/ r.code # c
    PROVE  Holders(p, c)' = Holders(p, c) \ {t}
<1>1. request'[t] = r /\ \A u \in Thread \ {t} : request'[u] = request[u]
  BY DEF TypeOK
<1> QED BY <1>1 DEF Holders, Registering

LEMMA EndHolders ==
    ASSUME TypeOK, NEW t \in Thread, End(t), NEW p, NEW c
    PROVE  Holders(p, c)' = Holders(p, c) \ {t}
<1>1. Idle.pc = "idle"
  BY DEF Idle
<1> QED BY <1>1, HoldersOfOthers DEF End

LEMMA UsesStep == AuthInv /\ UsesInv /\ [Next]_vars => UsesInv'
<1> SUFFICES ASSUME AuthInv, UsesInv, [Next]_vars,
                    NEW p \in Phone, NEW c \in 1..MaxCode, <<p, c>> \notin notDeleted'
             PROVE  UnusedWhileLive(p, c)' /\ UsesBounded(p, c)'
  BY DEF UsesInv
<1>0. TypeOK /\ TypeOK'
  BY TypeStep DEF AuthInv
<1>1. UnusedWhileLive(p, c) /\ UsesBounded(p, c)
  <2>1. notDeleted \subseteq notDeleted'
    BY DEF Next, Handle, sendMessage, codeExpires, register, login, removeCode,
           removeCodeFails, insertMember, insertFails, commitLogin, logout, crash, vars
  <2> QED BY <2>1 DEF UsesInv
<1>2. UNCHANGED t_member => Uses(p, c)' = Uses(p, c)
  BY DEF Uses
<1>3. CASE UNCHANGED <<codes, request, t_member>>
  BY <1>1, <1>3 DEF UnusedWhileLive, UsesBounded, Uses, Holders, Registering, At
<1>4. ASSUME NEW q \in Phone, sendMessage(q) \/ codeExpires(q)
      PROVE  UnusedWhileLive(p, c)' /\ UsesBounded(p, c)'
  <2>1. UNCHANGED <<request, t_member>>
    BY <1>4 DEF sendMessage, codeExpires
  <2>2. Uses(p, c)' = Uses(p, c) /\ Holders(p, c)' = Holders(p, c)
    BY <2>1 DEF Uses, Holders, Registering
  <2>3. UsesBounded(p, c)'
    BY <1>0, <1>1, <2>2, BoundKept
  <2>4. ASSUME codes'[p] = c, codes[p] # c PROVE Uses(p, c) = {} /\ Holders(p, c) = {}
    <3>1. p = q /\ c = sent[p] + 1
      BY <1>0, <1>4, <2>4 DEF sendMessage, codeExpires, TypeOK
    <3>2. sent[p] \in Nat
      BY <1>0, BoundAssumption DEF TypeOK
    <3>3. Uses(p, c) = {}
      BY <3>1, <3>2 DEF Uses, AuthInv, MemberHadCode
    <3>4. Holders(p, c) = {}
      BY <3>1, <3>2 DEF Holders, AuthInv, HandlersKnow, Knows
    <3> QED BY <3>3, <3>4
  <2>5. UnusedWhileLive(p, c)'
    BY <1>1, <2>1, <2>2, <2>4 DEF UnusedWhileLive, At
  <2> QED BY <2>3, <2>5
<1>5. ASSUME NEW t \in Thread, NEW q \in Phone, NEW a \in Account, NEW f \in FormCode,
             register(t, q, a, f)
      PROVE  UnusedWhileLive(p, c)' /\ UsesBounded(p, c)'
  <2>1. UNCHANGED <<codes, t_member>>
    BY <1>5 DEF register
  <2>2. CASE request' = request
    BY <1>3, <2>1, <2>2
  <2>3. CASE request' # request
    <3> DEFINE o == [Idle EXCEPT !.pc = "removeCode", !.form = forms', !.phone = q]
               r == [o EXCEPT !.acct = a, !.code = codes[q]]
    <3>1. request' = [request EXCEPT ![t] = r]
      BY <1>5, <2>3 DEF register
    <3>2. r.pc = "removeCode" /\ r.phone = q /\ r.code = codes[q]
      <4>1. o.pc = "removeCode" /\ o.phone = q /\ "code" \in DOMAIN o
        BY DEF Idle
      <4> HIDE DEF o
      <4> QED BY <4>1
    <3> HIDE DEF r, o
    <3>3. request'[t] = r /\ \A u \in Thread \ {t} : request'[u] = request[u]
      BY <1>0, <3>1 DEF TypeOK
    <3>4. UnusedWhileLive(p, c)'
      BY <1>1, <1>2, <2>1, <3>2, <3>3 DEF UnusedWhileLive, Holders, Registering, At
    <3>5. UsesBounded(p, c)'
      <4>1. CASE codes[p] = c
        BY <1>0, <1>1, <1>2, <2>1, <4>1, UnusedBounded DEF UnusedWhileLive
      <4>2. CASE codes[p] # c
        <5>0. request'[t].phone # p \/ request'[t].code # c
          BY <3>2, <3>3, <4>2
        <5>1. Holders(p, c)' = Holders(p, c) \ {t}
          BY <3>3, <5>0 DEF Holders, Registering
        <5> QED BY <1>0, <1>1, <1>2, <2>1, <5>1, BoundKept
      <4> QED BY <4>1, <4>2
    <3> QED BY <3>4, <3>5
  <2> QED BY <2>2, <2>3
<1>6. ASSUME NEW t \in Thread, UNCHANGED <<codes, t_member>>,
             Holders(p, c)' = Holders(p, c) \ {t},
             \A u \in Thread \ {t} : request'[u] = request[u]
      PROVE  UnusedWhileLive(p, c)' /\ UsesBounded(p, c)'
  <2>1. UsesBounded(p, c)'
    BY <1>0, <1>1, <1>2, <1>6, BoundKept
  <2>2. UnusedWhileLive(p, c)'
    BY <1>1, <1>2, <1>6 DEF UnusedWhileLive, At, Holders
  <2> QED BY <2>1, <2>2
<1>7. ASSUME NEW t \in Thread, NEW s \in Session, NEW a \in Account, NEW f \in Form,
             login(t, s, a, f)
      PROVE  UnusedWhileLive(p, c)' /\ UsesBounded(p, c)'
  <2>1. PICK i : request' = [request EXCEPT ![t] = [Idle EXCEPT
                !.pc = "commitLogin", !.sid = s, !.acct = a, !.form = f, !.id = i]]
    BY <1>7 DEF login
  <2> DEFINE o == [Idle EXCEPT !.pc = "commitLogin", !.sid = s, !.acct = a]
             r == [o EXCEPT !.form = f, !.id = i]
  <2>2. r.pc = "commitLogin"
    <3>1. o.pc = "commitLogin" /\ "pc" \in DOMAIN o
      BY DEF Idle
    <3> HIDE DEF o
    <3> QED BY <3>1
  <2>3. request' = [request EXCEPT ![t] = r]
    BY <2>1
  <2> HIDE DEF r, o
  <2>4. Holders(p, c)' = Holders(p, c) \ {t}
    BY <1>0, <2>2, <2>3, HoldersOfOthers
  <2>5. \A u \in Thread \ {t} : request'[u] = request[u]
    BY <1>0, <2>3 DEF TypeOK
  <2> QED BY <1>6, <1>7, <2>4, <2>5 DEF login
<1>8. ASSUME NEW t \in Thread, removeCode(t) \/ removeCodeFails(t)
      PROVE  UnusedWhileLive(p, c)' /\ UsesBounded(p, c)'
  <2>1. /\ request' = [request EXCEPT ![t].pc = "insertMember"]
        /\ UNCHANGED t_member /\ At(t, "removeCode")
    BY <1>8 DEF removeCode, removeCodeFails
  <2>2. request[t] \in RequestRecord
    BY <1>0 DEF TypeOK
  <2>3. /\ request'[t].pc = "insertMember" /\ request'[t].phone = request[t].phone
        /\ request'[t].code = request[t].code
        /\ \A u \in Thread \ {t} : request'[u] = request[u]
    <3>1. /\ request'[t] = [request[t] EXCEPT !.pc = "insertMember"]
          /\ \A u \in Thread \ {t} : request'[u] = request[u]
      BY <1>0, <2>1 DEF TypeOK
    <3> QED BY <2>2, <3>1 DEF RequestRecord
  <2>4. Holders(p, c)' = Holders(p, c)
    BY <2>1, <2>3 DEF Holders, Registering, At
  <2>5. UsesBounded(p, c)'
    BY <1>0, <1>1, <1>2, <2>1, <2>4, BoundKept
  <2>6. ASSUME codes'[p] = c PROVE codes[p] = c /\ (request[t].phone # p \/ request[t].code # c)
    <3>1. CASE removeCode(t)
      <4>1. codes' = [codes EXCEPT ![request[t].phone] = 0] /\ c # 0
        BY <3>1 DEF removeCode
      <4> QED BY <1>0, <2>6, <4>1 DEF TypeOK
    <3>2. CASE removeCodeFails(t)
      BY <2>6, <3>2 DEF removeCodeFails
    <3> QED BY <1>8, <3>1, <3>2
  <2>7. UnusedWhileLive(p, c)'
    BY <1>1, <1>2, <2>1, <2>3, <2>4, <2>6 DEF UnusedWhileLive, Holders, At
  <2> QED BY <2>5, <2>7
<1>9. ASSUME NEW t \in Thread, insertMember(t)
      PROVE  UnusedWhileLive(p, c)' /\ UsesBounded(p, c)'
  <2> DEFINE n == Len(t_member) + 1
             row == [loginacct |-> request[t].acct, userpswd |-> request[t].form,
                     phone |-> request[t].phone, code |-> request[t].code]
  <2>0. /\ DOMAIN t_member' = DOMAIN t_member \cup {n}
        /\ n \notin DOMAIN t_member
        /\ \A i \in DOMAIN t_member : t_member'[i] = t_member[i]
        /\ t_member'[n] = row
    BY <1>9, Inserted
  <2>1. /\ DOMAIN t_member' = DOMAIN t_member \cup {n}
        /\ n \notin DOMAIN t_member
        /\ \A i \in DOMAIN t_member : t_member'[i] = t_member[i]
        /\ t_member'[n].phone = request[t].phone /\ t_member'[n].code = request[t].code
    <3> HIDE DEF n
    <3> QED BY <2>0
  <2> HIDE DEF n, row
  <2>2. Holders(p, c)' = Holders(p, c) \ {t}
    BY <1>0, <1>9, EndHolders DEF insertMember
  <2>3. codes' = codes /\ \A u \in Thread \ {t} : request'[u] = request[u]
    BY <1>0, <1>9 DEF insertMember, End, TypeOK
  <2>4. CASE request[t].phone = p /\ request[t].code = c
    <3>1. t \in Holders(p, c) /\ At(t, "insertMember")
      BY <1>9, <2>4 DEF Holders, Registering, insertMember, At
    <3>2. codes[p] # c
      BY <1>1, <3>1 DEF UnusedWhileLive
    <3>3. Uses(p, c)' = Uses(p, c) \cup {n} /\ n \notin Uses(p, c)
      BY <2>1, <2>4 DEF Uses
    <3>4. /\ Cardinality(Uses(p, c)') = Cardinality(Uses(p, c)) + 1
          /\ Cardinality(Holders(p, c)') = Cardinality(Holders(p, c)) - 1
      <4>1. IsFiniteSet(Uses(p, c)) /\ IsFiniteSet(Holders(p, c))
        BY <1>0, UsesFinite
      <4>2. Cardinality(Uses(p, c) \cup {n}) = Cardinality(Uses(p, c)) + 1
        BY <3>3, <4>1, FS_AddElement
      <4>3. Cardinality(Holders(p, c) \ {t}) = Cardinality(Holders(p, c)) - 1
        BY <3>1, <4>1, FS_RemoveElement
      <4> QED BY <2>2, <3>3, <4>2, <4>3
    <3>5. UsesBounded(p, c)'
      BY <1>0, <1>1, <3>4, UsesFinite DEF UsesBounded
    <3> QED BY <2>3, <3>2, <3>5 DEF UnusedWhileLive
  <2>5. CASE ~(request[t].phone = p /\ request[t].code = c)
    <3>1. Uses(p, c)' = Uses(p, c)
      BY <2>1, <2>5 DEF Uses
    <3>2. UsesBounded(p, c)'
      BY <1>0, <1>1, <2>2, <3>1, BoundKept
    <3>3. UnusedWhileLive(p, c)'
      BY <1>1, <2>2, <2>3, <3>1 DEF UnusedWhileLive, At, Holders
    <3> QED BY <3>2, <3>3
  <2> QED BY <2>4, <2>5
<1>10. ASSUME NEW t \in Thread, insertFails(t) \/ commitLogin(t) \/ crash(t)
       PROVE  UnusedWhileLive(p, c)' /\ UsesBounded(p, c)'
  <2>1. End(t) /\ UNCHANGED <<codes, t_member>>
    BY <1>10 DEF insertFails, commitLogin, crash
  <2>2. Holders(p, c)' = Holders(p, c) \ {t}
    BY <1>0, <2>1, EndHolders
  <2>3. \A u \in Thread \ {t} : request'[u] = request[u]
    BY <1>0, <2>1 DEF End, TypeOK
  <2> QED BY <1>6, <2>1, <2>2, <2>3
<1> QED
  BY <1>3, <1>4, <1>5, <1>7, <1>8, <1>9, <1>10 DEF Next, Handle, logout, vars

\* A code whose deletion did not fail registers at most one member per thread.
THEOREM CodesUsedByOverlapOnly == Spec => []CodeUsesBounded
<1>1. AuthInv /\ UsesInv => CodeUsesBounded
  <2> SUFFICES ASSUME AuthInv, UsesInv, NEW p \in Phone, NEW c \in 1..MaxCode,
                      <<p, c>> \notin notDeleted
               PROVE  Cardinality(Uses(p, c)) <= Cardinality(Thread)
    BY DEF CodeUsesBounded, Uses
  <2>1. TypeOK /\ UsesBounded(p, c)
    BY DEF AuthInv, UsesInv
  <2> QED BY <2>1, UsesFinite DEF UsesBounded
<1> QED BY <1>1, UsesInit, UsesStep, AuthInvariant, PTL DEF Spec
=============================================================================
