--------------------------- MODULE ProjectLaunch ----------------------------
(***************************************************************************)
(* Launching a project in the project service: ProjectHandler collects a   *)
(* ProjectVO in the HTTP session over several pages (basic information     *)
(* with pictures, then returns) and saves it on confirmation;              *)
(* ProjectServiceImpl.saveProject writes it into six tables in one         *)
(* transaction.  As in Checkout a request reads the session when it starts *)
(* and writes the attributes it set when it ends.                          *)
(*                                                                         *)
(* The forms are numbered in the order they arrive: a basic information    *)
(* form is a draft, a return form a return.  What the forms say is left    *)
(* out, but for the parts the handlers look at: whether a type is chosen,  *)
(* the number of pictures and the launcher's introduction.                 *)
(***************************************************************************)
EXTENDS Integers, Sequences, FiniteSets

CONSTANTS
    Session, Member, Thread,
    Description,   \* memberLauchInfoVO.descriptionSimple
    MaxDraft,      \* bound: basic information forms
    MaxReturn,     \* bound: return forms
    MaxPicture,    \* bound: detail pictures of one form
    MaxKey,        \* bound: keys t_project gives out
    Overlapping,   \* bound: whether a session may have several requests at once
    Faults,        \* the failures this instance has, a subset of Fault
    None

Fault == {"upload", "database", "crash", "expire"}
Draft == 1..MaxDraft
ReturnVO == 1..MaxReturn
Key == 1..MaxKey

ASSUME BoundAssumption ==
    MaxDraft \in Nat /\ MaxReturn \in Nat /\ MaxPicture \in Nat /\ MaxKey \in Nat
ASSUME OverlappingAssumption == Overlapping \in BOOLEAN
ASSUME FaultAssumption == Faults \subseteq Fault
ASSUME NoneAssumption == None \notin Member
ASSUME ThreadAssumption == IsFiniteSet(Thread)

\* The pictures of a form: the header picture is number 0.
Picture == Draft \X (0..MaxPicture)

ProjectVO == [id : Draft, typed : BOOLEAN, intro : Description,
              pictures : 0..MaxPicture, returnVOList : Seq(ReturnVO)]

VARIABLES
    session,                \* per session: project (the draft) and loginMember
    request,                \* per thread: the handler it runs and its local values
    forms,                  \* basic information and return forms received so far
    accepted,               \* history: the draft read from the session to put each return into, 0 before
    bucket,                 \* objects in the OSS bucket
    nextKey,                \* AUTO_INCREMENT of t_project
    t_project, t_project_type, t_project_item_pic,
    t_member_launch_info, t_return, t_member_confirm_info

tables == <<t_project, t_project_type, t_project_item_pic,
            t_member_launch_info, t_return, t_member_confirm_info>>
vars == <<session, request, forms, accepted, bucket, nextKey, tables>>

PC == {"idle", "upload", "commitDraft", "commitReturn",
       "insertProject", "commitProject", "removeDraft"}
SessionRecord == [project : ProjectVO \cup {None}, loginMember : Member \cup {None}]
RequestRecord == [pc : PC, sid : Session \cup {None}, projectVO : ProjectVO \cup {None},
                  uploaded : 0..(MaxPicture + 1), member : Member \cup {None}, key : 0..MaxKey]
Idle == [pc |-> "idle", sid |-> None, projectVO |-> None,
         uploaded |-> 0, member |-> None, key |-> 0]

Init ==
    /\ session = [s \in Session |-> [project |-> None, loginMember |-> None]]
    /\ request = [t \in Thread |-> Idle]
    /\ forms = [draft |-> 0, ret |-> 0]
    /\ accepted = [r \in ReturnVO |-> 0]
    /\ bucket = {}
    /\ nextKey = 1
    /\ t_project = << >> /\ t_project_type = << >> /\ t_project_item_pic = << >>
    /\ t_member_launch_info = << >> /\ t_return = << >> /\ t_member_confirm_info = << >>

At(t, pc) == request[t].pc = pc
Goto(t, pc) == request' = [request EXCEPT ![t].pc = pc]
End(t) == request' = [request EXCEPT ![t] = Idle]

\* The rows a batch insert adds.
Pictures(vo, key) == [i \in 1..vo.pictures |-> [projectid |-> key, picture |-> <<vo.id, i>>]]
Returns(vo, key) ==
    [i \in DOMAIN vo.returnVOList |-> [projectid |-> key, ret |-> vo.returnVOList[i]]]

\* Rows of one project, by their own key, and the different introductions of
\* one member.
Of(table, key) == [i \in {j \in DOMAIN table : table[j].projectid = key} |-> table[i]]
Introductions(m) ==
    {t_member_launch_info[i].intro : i \in {j \in DOMAIN t_member_launch_info :
                                               t_member_launch_info[j].memberid = m}}

\* The ways the transaction of saveProject cannot go on: an empty typeIdList
\* makes an INSERT without VALUES, no list of returns is a null pointer.
Complete(vo) == vo.typed /\ vo.returnVOList # << >>

(***************************************************************************)
(* Plausible bugs.  Each is a definition below with one mistake.           *)
(***************************************************************************)

\* PicturesUploaded: the result of the upload (line 110) not looked at.
uploadFails_goesOn(t) ==
    /\ At(t, "upload")
    /\ "upload" \in Faults
    /\ LET n == request[t].uploaded
       IN request' = [request EXCEPT ![t].uploaded = n + 1,
                                     ![t].pc = IF n > 0 /\ n = request[t].projectVO.pictures
                                               THEN "commitDraft" ELSE "upload"]
    /\ UNCHANGED <<session, forms, accepted, bucket, nextKey, tables>>

\* ReturnsOfDraftRead: the return put into the draft the session holds now.
commitReturn_intoCurrent(t) ==
    /\ At(t, "commitReturn")
    /\ LET vo == request[t].projectVO
           r == vo.returnVOList[Len(vo.returnVOList)]
           now == session[request[t].sid].project
       IN /\ accepted' = [accepted EXCEPT ![r] = vo.id]
          /\ session' = [session EXCEPT ![request[t].sid].project =
                 IF now = None THEN vo
                 ELSE [now EXCEPT !.returnVOList = Append(@, r)]]
    /\ End(t)
    /\ UNCHANGED <<forms, bucket, nextKey, tables>>

\* ReturnKept: the list replaced and not appended to.
saveReturn_replaces(t, s) ==
    /\ At(t, "idle")
    /\ forms.ret < MaxReturn
    /\ session[s].project # None
    /\ forms' = [forms EXCEPT !.ret = @ + 1]
    /\ request' = [request EXCEPT ![t] = [Idle EXCEPT
           !.pc = "commitReturn",
           !.sid = s,
           !.projectVO = [session[s].project EXCEPT !.returnVOList = <<forms'.ret>>]]]
    /\ UNCHANGED <<session, accepted, bucket, nextKey, tables>>

\* PublishedOnce: the draft not removed from the session.
removeDraft_kept(t) ==
    /\ At(t, "removeDraft")
    /\ End(t)
    /\ UNCHANGED <<session, forms, accepted, bucket, nextKey, tables>>

\* PublishesWhole: no transaction, what was inserted stays.
rollbackProject_keepsRow(t) ==
    /\ At(t, "commitProject")
    /\ "database" \in Faults \/ ~ Complete(request[t].projectVO)
    /\ t_project' = Append(t_project, [id |-> request[t].key, memberid |-> request[t].member,
                                       draft |-> request[t].projectVO.id])
    /\ End(t)
    /\ UNCHANGED <<session, forms, accepted, bucket, nextKey, t_project_type,
                   t_project_item_pic, t_member_launch_info, t_return, t_member_confirm_info>>

\* TypeOK: useGeneratedKeys forgotten, the key stays unset.
insertProject_badKey(t) ==
    /\ At(t, "insertProject")
    /\ nextKey' = nextKey + 1
    /\ request' = [request EXCEPT ![t].pc = "commitProject"]
    /\ UNCHANGED <<session, forms, accepted, bucket, tables>>

\* OrderableUntilIntroducedAnew: DISTINCT forgotten (the rows, not what differs in them).
selectOrderProjectVO_all(m) ==
    LET Rows == {j \in DOMAIN t_member_launch_info : t_member_launch_info[j].memberid = m}
    IN IF Rows = {} THEN {None} ELSE Rows

\* ConfirmedIsSaved: a unique key on t_member_launch_info.memberid.
commitProject_oneIntroduction(t) ==
    /\ At(t, "commitProject")
    /\ LET vo == request[t].projectVO
           key == request[t].key
           m == request[t].member
       IN /\ Complete(vo) /\ Introductions(m) = {}
          /\ t_project' = Append(t_project, [id |-> key, memberid |-> m, draft |-> vo.id])
          /\ t_project_type' = Append(t_project_type, [projectid |-> key])
          /\ t_project_item_pic' = t_project_item_pic \o Pictures(vo, key)
          /\ t_member_launch_info' =
                Append(t_member_launch_info, [memberid |-> m, intro |-> vo.intro])
          /\ t_return' = t_return \o Returns(vo, key)
          /\ t_member_confirm_info' = Append(t_member_confirm_info, [memberid |-> m])
    /\ Goto(t, "removeDraft")
    /\ UNCHANGED <<session, forms, accepted, bucket, nextKey>>

\* The rows the order service's select finds for a return of a project of m:
\* one for each introduction that differs (SELECT DISTINCT), one without an
\* introduction if there is none (LEFT JOIN).
selectOrderProjectVO(m) == IF Introductions(m) = {} THEN {None} ELSE Introductions(m)

(***************************************************************************)
(* MemberController.login, for what the project service reads of it.       *)
(***************************************************************************)
login(s, m) ==
    /\ session[s].loginMember # m
    /\ session' = [session EXCEPT ![s].loginMember = m]
    /\ UNCHANGED <<request, forms, accepted, bucket, nextKey, tables>>

(***************************************************************************)
(* saveProjectBasicInfo: upload the header picture and the detail pictures *)
(* one by one, then put a new draft into the session.                      *)
(***************************************************************************)
saveProjectBasicInfo(t, s, n, typed, intro) ==
    /\ At(t, "idle")
    /\ forms.draft < MaxDraft
    /\ forms' = [forms EXCEPT !.draft = @ + 1]
    /\ request' = [request EXCEPT ![t] = [Idle EXCEPT
           !.pc = "upload",
           !.sid = s,
           !.projectVO = [id |-> forms'.draft, typed |-> typed, intro |-> intro,
                          pictures |-> n, returnVOList |-> << >>]]]
    /\ UNCHANGED <<session, accepted, bucket, nextKey, tables>>

upload(t) ==
    /\ At(t, "upload")
    /\ LET n == request[t].uploaded
           vo == request[t].projectVO
       IN /\ n <= vo.pictures
          /\ bucket' = bucket \cup {<<vo.id, n>>}
          /\ request' = [request EXCEPT ![t].uploaded = n + 1,
                                        ![t].pc = IF n > 0 /\ n = vo.pictures
                                                  THEN "commitDraft" ELSE "upload"]
    /\ UNCHANGED <<session, forms, accepted, nextKey, tables>>

\* OSS fails, the next file is empty, or after the header picture there is no
\* detail picture: the form is shown again.  What was uploaded stays.
uploadFails(t) ==
    /\ At(t, "upload")
    /\ "upload" \in Faults \/ request[t].uploaded > request[t].projectVO.pictures
    /\ End(t)
    /\ UNCHANGED <<session, forms, accepted, bucket, nextKey, tables>>

commitDraft(t) ==
    /\ At(t, "commitDraft")
    /\ session' = [session EXCEPT ![request[t].sid].project = request[t].projectVO]
    /\ End(t)
    /\ UNCHANGED <<forms, accepted, bucket, nextKey, tables>>

(***************************************************************************)
(* saveReturn: append to the list of the draft that was read.  Without a   *)
(* draft it answers "failed" and changes nothing.                          *)
(***************************************************************************)
saveReturn(t, s) ==
    /\ At(t, "idle")
    /\ forms.ret < MaxReturn
    /\ session[s].project # None
    /\ forms' = [forms EXCEPT !.ret = @ + 1]
    /\ request' = [request EXCEPT ![t] = [Idle EXCEPT
           !.pc = "commitReturn",
           !.sid = s,
           !.projectVO = [session[s].project EXCEPT
                             !.returnVOList = Append(@, forms'.ret)]]]
    /\ UNCHANGED <<session, accepted, bucket, nextKey, tables>>

commitReturn(t) ==
    /\ At(t, "commitReturn")
    /\ LET vo == request[t].projectVO
       IN /\ accepted' = [accepted EXCEPT ![vo.returnVOList[Len(vo.returnVOList)]] = vo.id]
          /\ session' = [session EXCEPT ![request[t].sid].project = vo]
    /\ End(t)
    /\ UNCHANGED <<forms, bucket, nextKey, tables>>

(***************************************************************************)
(* saveConfirm and saveProject.  The rows become visible together at the   *)
(* commit; the key is taken by the first insert and not given back.        *)
(***************************************************************************)

\* Without a draft or a login the handler throws and changes nothing.  The
\* bound on keys is put here, so that no running handler is stopped by it.
saveConfirm(t, s) ==
    /\ At(t, "idle")
    /\ session[s].project # None
    /\ session[s].loginMember # None
    /\ nextKey + Cardinality({u \in Thread : At(u, "insertProject")}) <= MaxKey
    /\ request' = [request EXCEPT ![t] = [Idle EXCEPT
           !.pc = "insertProject",
           !.sid = s,
           !.projectVO = session[s].project,
           !.member = session[s].loginMember]]
    /\ UNCHANGED <<session, forms, accepted, bucket, nextKey, tables>>

insertProject(t) ==
    /\ At(t, "insertProject")
    /\ nextKey' = nextKey + 1
    /\ request' = [request EXCEPT ![t].pc = "commitProject", ![t].key = nextKey]
    /\ UNCHANGED <<session, forms, accepted, bucket, tables>>

commitProject(t) ==
    /\ At(t, "commitProject")
    /\ LET vo == request[t].projectVO
           key == request[t].key
           m == request[t].member
       IN /\ Complete(vo)
          /\ t_project' = Append(t_project, [id |-> key, memberid |-> m, draft |-> vo.id])
          /\ t_project_type' = Append(t_project_type, [projectid |-> key])
          /\ t_project_item_pic' = t_project_item_pic \o Pictures(vo, key)
          /\ t_member_launch_info' =
                Append(t_member_launch_info, [memberid |-> m, intro |-> vo.intro])
          /\ t_return' = t_return \o Returns(vo, key)
          /\ t_member_confirm_info' = Append(t_member_confirm_info, [memberid |-> m])
    /\ Goto(t, "removeDraft")
    /\ UNCHANGED <<session, forms, accepted, bucket, nextKey>>

rollbackProject(t) ==
    /\ At(t, "commitProject")
    /\ "database" \in Faults \/ ~ Complete(request[t].projectVO)
    /\ End(t)
    /\ UNCHANGED <<session, forms, accepted, bucket, nextKey, tables>>

\* Whatever draft the session holds now is removed.
removeDraft(t) ==
    /\ At(t, "removeDraft")
    /\ session' = [session EXCEPT ![request[t].sid].project = None]
    /\ End(t)
    /\ UNCHANGED <<forms, accepted, bucket, nextKey, tables>>

(***************************************************************************)
(* Faults.                                                                 *)
(***************************************************************************)
crash(t) ==
    /\ "crash" \in Faults
    /\ ~ At(t, "idle")
    /\ End(t)
    /\ UNCHANGED <<session, forms, accepted, bucket, nextKey, tables>>

\* Expiry or logout, with no request of the session running.
expire(s) ==
    /\ "expire" \in Faults
    /\ \A t \in Thread : request[t].sid # s
    /\ session' = [session EXCEPT ![s] = [project |-> None, loginMember |-> None]]
    /\ UNCHANGED <<request, forms, accepted, bucket, nextKey, tables>>

-----------------------------------------------------------------------------
Receive(t) ==
    \E s \in Session :
       /\ Overlapping \/ \A u \in Thread : request[u].sid # s
       /\ \/ \E n \in 0..MaxPicture, typed \in BOOLEAN, intro \in Description :
                saveProjectBasicInfo(t, s, n, typed, intro)
          \/ saveReturn(t, s)
          \/ saveConfirm(t, s)

Handle(t) ==
    \/ upload(t)
    \/ uploadFails(t)
    \/ commitDraft(t)
    \/ commitReturn(t)
    \/ insertProject(t)
    \/ commitProject(t)
    \/ rollbackProject(t)
    \/ removeDraft(t)

Next ==
    \/ \E s \in Session, m \in Member : login(s, m)
    \/ \E s \in Session : expire(s)
    \/ \E t \in Thread : Receive(t) \/ Handle(t) \/ crash(t)

\* A thread goes on with its handler.
Fairness == \A t \in Thread : WF_vars(Handle(t))

Spec == Init /\ [][Next]_vars
FairSpec == Spec /\ Fairness

-----------------------------------------------------------------------------
(***************************************************************************)
(* Properties.                                                              *)
(***************************************************************************)

\* Every variable has its type.
TypeOK ==
    /\ session \in [Session -> SessionRecord]
    /\ request \in [Thread -> RequestRecord]
    /\ forms \in [draft : 0..MaxDraft, ret : 0..MaxReturn]
    /\ accepted \in [ReturnVO -> 0..MaxDraft]
    /\ bucket \subseteq Picture
    /\ nextKey \in 1..(MaxKey + 1)
    /\ t_project \in Seq([id : Key, memberid : Member, draft : Draft])
    /\ t_project_type \in Seq([projectid : Key])
    /\ t_project_item_pic \in Seq([projectid : Key, picture : Picture])
    /\ t_member_launch_info \in Seq([memberid : Member, intro : Description])
    /\ t_return \in Seq([projectid : Key, ret : ReturnVO])
    /\ t_member_confirm_info \in Seq([memberid : Member])

\* A published project shows only pictures that are in the bucket, although
\* any upload of its form may have failed.
PicturesUploaded ==
    \A i \in DOMAIN t_project :
        LET pictures == Of(t_project_item_pic, t_project[i].id)
        IN /\ <<t_project[i].draft, 0>> \in bucket
           /\ DOMAIN pictures # {}
           /\ \A a \in DOMAIN pictures : pictures[a].picture \in bucket

\* A return is published only with the draft that saveReturn read from the
\* session to put it into, also when another tab puts a new draft there before
\* the return is written back.  The form does not name the draft it is meant
\* for: one that is sent after that is read as a return of the new draft.
ReturnsOfDraftRead ==
    \A i \in DOMAIN t_project, j \in DOMAIN t_return :
        t_return[j].projectid = t_project[i].id =>
            accepted[t_return[j].ret] = t_project[i].draft

Published(d) == \E i \in DOMAIN t_project : t_project[i].draft = d

\* Comment 8 of saveReturn, the changed ProjectVO is stored again so that the
\* new data ends up in Redis: an accepted return is in that draft while the
\* session holds it, and in the project once it is published.  It holds while
\* a session has one request at a time.
ReturnKept ==
    \A r \in ReturnVO : accepted[r] # 0 =>
        /\ \A s \in Session :
             session[s].project # None /\ session[s].project.id = accepted[r] =>
                 \E i \in DOMAIN session[s].project.returnVOList :
                     session[s].project.returnVOList[i] = r
        /\ Published(accepted[r]) =>
                 \E j \in DOMAIN t_return : t_return[j].ret = r

\* One draft makes one project.  It holds while a session has one request at a
\* time, without a crash between the commit and the end of the request.
PublishedOnce ==
    \A i, j \in DOMAIN t_project : t_project[i].draft = t_project[j].draft => i = j

\* The order pages of the projects of m can be shown: selectOrderProjectVO is
\* mapped to one object, so the join must find one row.
Orderable(m) ==
    (\E i \in DOMAIN t_project : t_project[i].memberid = m) =>
        Cardinality(selectOrderProjectVO(m)) = 1

\* The order pages of a member's projects break in one way only: the member
\* publishes a project with another introduction than one published before.
\* Neither a second project by itself, nor a failing one, nor what other
\* members publish at the same time breaks them.
OrderableUntilIntroducedAnew ==
    [][\A m \in Member : Orderable(m) /\ ~Orderable(m)' =>
         \E t \in Thread :
            /\ commitProject(t)
            /\ request[t].member = m
            /\ \E intro \in Introductions(m) : intro # request[t].projectVO.intro]_vars

\* Without faults a confirmed draft with a type and a return is published,
\* whatever the requests of other sessions do meanwhile, also for the same member.
ConfirmedIsSaved ==
    \A t \in Thread, d \in Draft :
        (/\ At(t, "insertProject")
         /\ request[t].projectVO.id = d
         /\ Complete(request[t].projectVO)) ~> Published(d)

\* ProjectLaunch implements Catalogue: see the comment there.
Projects ==
    {[id |-> t_project[i].id, member |-> t_project[i].memberid,
      types |-> Of(t_project_type, t_project[i].id),
      pictures |-> Of(t_project_item_pic, t_project[i].id),
      returns |-> Of(t_return, t_project[i].id)] : i \in DOMAIN t_project}
C == INSTANCE Catalogue WITH projects <- Projects

\* The six inserts appear as one step that adds one whole project.
PublishesWhole == C!Spec
=============================================================================
