------------------------- MODULE ProjectLaunchProofs ------------------------
(***************************************************************************)
(* Proofs about ProjectLaunch, for every set of sessions, members and      *)
(* introductions, any finite number of request threads, and any number of  *)
(* forms, pictures and keys: what always holds (LaunchInv), the refinement *)
(* of Catalogue, what holds while no session has two requests at once      *)
(* (SerialInv), and when the returns of a member can be ordered.           *)
(***************************************************************************)
EXTENDS ProjectLaunch, FiniteSetTheorems, SequenceTheorems, Functions, TLAPS

(***************************************************************************)
(* A draft is whole when every picture of its form is in the bucket and    *)
(* every return in its list was put into it when it was the draft read.    *)
(***************************************************************************)
PicturesIn(vo, objects) ==
    vo.pictures > 0 /\ \A k \in 0..vo.pictures : <<vo.id, k>> \in objects
AcceptedUpTo(vo, n, acc) == \A k \in 1..n : acc[vo.returnVOList[k]] = vo.id
Whole(vo, objects, acc) ==
    PicturesIn(vo, objects) /\ AcceptedUpTo(vo, Len(vo.returnVOList), acc)
LastReturn(vo) == vo.returnVOList[Len(vo.returnVOList)]

SessionsWhole ==
    \A s \in Session :
        session[s].project # None => Whole(session[s].project, bucket, accepted)

(***************************************************************************)
(* What a handler holds.  The return it adds is a form of its own and not  *)
(* accepted yet, the key it was given is nobody else's.                    *)
(***************************************************************************)
Holds(t) ==
    LET vo == request[t].projectVO
    IN  /\ ~At(t, "idle") => request[t].sid \in Session /\ vo \in ProjectVO
        /\ At(t, "upload") =>
             /\ request[t].uploaded <= vo.pictures + 1
             /\ \A k \in 0..request[t].uploaded - 1 : <<vo.id, k>> \in bucket
             /\ vo.returnVOList = << >>
        /\ At(t, "commitDraft") => Whole(vo, bucket, accepted)
        /\ At(t, "commitReturn") =>
             /\ PicturesIn(vo, bucket)
             /\ vo.returnVOList # << >>
             /\ AcceptedUpTo(vo, Len(vo.returnVOList) - 1, accepted)
             /\ accepted[LastReturn(vo)] = 0
             /\ LastReturn(vo) <= forms.ret
        /\ request[t].pc \in {"insertProject", "commitProject"} =>
             Whole(vo, bucket, accepted) /\ request[t].member \in Member
        /\ At(t, "commitProject") =>
             /\ request[t].key \in 1..nextKey - 1
             /\ \A i \in DOMAIN t_project : t_project[i].id # request[t].key
HandlersHold == \A t \in Thread : Holds(t)

FormsApart ==
    \A t, u \in Thread :
        At(t, "commitReturn") /\ At(u, "commitReturn") /\ t # u =>
            LastReturn(request[t].projectVO) # LastReturn(request[u].projectVO)
KeysApart ==
    \A t, u \in Thread :
        At(t, "commitProject") /\ At(u, "commitProject") /\ t # u =>
            request[t].key # request[u].key

AcceptedForms == \A r \in ReturnVO : accepted[r] # 0 => r <= forms.ret

\* Every handler that is going to insert a project finds a key left.
Inserting == {t \in Thread : At(t, "insertProject")}
KeysLeft == nextKey + Cardinality(Inserting) <= MaxKey + 1

ProjectKeys == {t_project[i].id : i \in DOMAIN t_project}
KeysOfProjects ==
    /\ \A i \in DOMAIN t_project : t_project[i].id < nextKey
    /\ \A i, j \in DOMAIN t_project : t_project[i].id = t_project[j].id => i = j
    /\ \A i \in DOMAIN t_project_type : t_project_type[i].projectid \in ProjectKeys
    /\ \A i \in DOMAIN t_project_item_pic : t_project_item_pic[i].projectid \in ProjectKeys
    /\ \A i \in DOMAIN t_return : t_return[i].projectid \in ProjectKeys

LaunchInv ==
    /\ TypeOK
    /\ SessionsWhole
    /\ HandlersHold
    /\ FormsApart /\ KeysApart
    /\ AcceptedForms
    /\ KeysLeft
    /\ KeysOfProjects
    /\ PicturesUploaded
    /\ ReturnsOfDraftRead

-----------------------------------------------------------------------------
(***************************************************************************)
(* Tables that rows are appended to.                                       *)
(***************************************************************************)
LEMMA Appended ==
    ASSUME NEW S, NEW s \in Seq(S), NEW e \in S
    PROVE  /\ Append(s, e) \in Seq(S)
           /\ DOMAIN Append(s, e) = DOMAIN s \cup {Len(s) + 1}
           /\ Len(s) + 1 \notin DOMAIN s
           /\ \A i \in DOMAIN s : Append(s, e)[i] = s[i]
           /\ Append(s, e)[Len(s) + 1] = e
<1>1. /\ Append(s, e) \in Seq(S) /\ Len(Append(s, e)) = Len(s) + 1
      /\ \A i \in 1..Len(s) : Append(s, e)[i] = s[i]
      /\ Append(s, e)[Len(s) + 1] = e
  BY AppendProperties
<1>2. /\ DOMAIN s = 1..Len(s) /\ Len(s) \in Nat
      /\ DOMAIN Append(s, e) = 1..Len(s) + 1
  BY <1>1, LenProperties
<1> QED BY <1>1, <1>2

\* new is old with rows of one project added, at least one.
Adds(old, new, key) ==
    /\ DOMAIN old \subseteq DOMAIN new
    /\ \A i \in DOMAIN old : new[i] = old[i]
    /\ \A i \in DOMAIN new \ DOMAIN old : new[i].projectid = key
    /\ DOMAIN new \ DOMAIN old # {}

LEMMA AppendAdds ==
    ASSUME NEW S, NEW s \in Seq(S), NEW e \in S, NEW key, e.projectid = key
    PROVE  Append(s, e) \in Seq(S) /\ Adds(s, Append(s, e), key)
BY Appended DEF Adds

LEMMA ConcatAdds ==
    ASSUME NEW S, NEW s \in Seq(S), NEW r \in Seq(S), NEW key,
           r # << >>, \A i \in DOMAIN r : r[i].projectid = key
    PROVE  /\ s \o r \in Seq(S) /\ Adds(s, s \o r, key)
           /\ \A i \in DOMAIN (s \o r) \ DOMAIN s : \E j \in DOMAIN r : (s \o r)[i] = r[j]
<1>1. /\ s \o r \in Seq(S) /\ Len(s \o r) = Len(s) + Len(r)
      /\ \A i \in 1..Len(s) + Len(r) :
           (s \o r)[i] = IF i <= Len(s) THEN s[i] ELSE r[i - Len(s)]
  BY ConcatProperties
<1>2. /\ DOMAIN s = 1..Len(s) /\ Len(s) \in Nat
      /\ DOMAIN r = 1..Len(r) /\ Len(r) \in Nat
      /\ DOMAIN (s \o r) = 1..Len(s) + Len(r)
  BY <1>1, LenProperties
<1>3. Len(r) > 0
  BY <1>2, EmptySeq
<1> DEFINE sr == s \o r
<1>4. /\ DOMAIN sr = 1..Len(s) + Len(r)
      /\ \A i \in DOMAIN sr : sr[i] = IF i <= Len(s) THEN s[i] ELSE r[i - Len(s)]
  BY <1>1, <1>2
<1> HIDE DEF sr
<1>5. ASSUME NEW i \in DOMAIN sr \ DOMAIN s PROVE i - Len(s) \in DOMAIN r /\ sr[i] = r[i - Len(s)]
  BY <1>2, <1>4
<1>6. DOMAIN s \subseteq DOMAIN sr /\ \A i \in DOMAIN s : sr[i] = s[i]
  BY <1>2, <1>4
<1>7. Len(s) + 1 \in DOMAIN sr \ DOMAIN s
  BY <1>2, <1>3, <1>4
<1>8. Adds(s, sr, key)
  BY <1>5, <1>6, <1>7 DEF Adds
<1> QED BY <1>1, <1>5, <1>8 DEF sr

\* The rows of one project after those of another were added, and after its own.
LEMMA OfOthers ==
    ASSUME NEW old, NEW new, NEW key, NEW k, Adds(old, new, key), k # key
    PROVE  Of(new, k) = Of(old, k)
<1>1. {j \in DOMAIN new : new[j].projectid = k} = {j \in DOMAIN old : old[j].projectid = k}
  BY DEF Adds
<1>2. \A i \in {j \in DOMAIN old : old[j].projectid = k} : new[i] = old[i]
  BY DEF Adds
<1> QED BY <1>1, <1>2 DEF Of

Unknown(table, key) == \A i \in DOMAIN table : table[i].projectid # key

LEMMA OfNew ==
    ASSUME NEW old, NEW new, NEW key, Adds(old, new, key), Unknown(old, key)
    PROVE  /\ DOMAIN Of(new, key) = DOMAIN new \ DOMAIN old
           /\ DOMAIN Of(new, key) # {}
<1>1. {j \in DOMAIN new : new[j].projectid = key} = DOMAIN new \ DOMAIN old
  BY DEF Adds, Unknown
<1> QED BY <1>1 DEF Of, Adds

\* The rows of a batch insert.
LEMMA RowsOf ==
    ASSUME NEW S, NEW n \in Nat, NEW f \in [1..n -> S]
    PROVE  f \in Seq(S) /\ DOMAIN f = 1..n /\ (n > 0 => f # << >>)
<1>1. f \in [1..n -> S]
  OBVIOUS
<1>2. f \in Seq(S)
  BY <1>1, SeqDef
<1>3. n > 0 => f # << >>
  <2>1. SUFFICES ASSUME n > 0, f = << >> PROVE FALSE
    OBVIOUS
  <2>2. Len(f) = 0
    BY <2>1
  <2>3. DOMAIN f = 1..0
    BY <1>2, <2>2, LenProperties
  <2> QED BY <1>1, <2>1, <2>3
<1> QED BY <1>1, <1>2, <1>3

LEMMA PicturesTyped ==
    ASSUME NEW vo \in ProjectVO, NEW key \in Key, vo.pictures > 0
    PROVE  /\ Pictures(vo, key) \in Seq([projectid : Key, picture : Picture])
           /\ Pictures(vo, key) # << >>
           /\ DOMAIN Pictures(vo, key) = 1..vo.pictures
           /\ \A i \in 1..vo.pictures :
                /\ Pictures(vo, key)[i].projectid = key
                /\ Pictures(vo, key)[i].picture = <<vo.id, i>>
<1>1. vo.id \in Draft /\ vo.pictures \in Nat /\ vo.pictures <= MaxPicture
  BY BoundAssumption DEF ProjectVO
<1> DEFINE f == Pictures(vo, key)
           n == vo.pictures
<1>2. /\ f = [i \in 1..n |-> f[i]]
      /\ \A i \in 1..n : f[i] = [projectid |-> key, picture |-> <<vo.id, i>>]
  BY DEF Pictures
<1> HIDE DEF f, n
<1>3. ASSUME NEW i \in 1..n PROVE f[i] \in [projectid : Key, picture : Picture]
  <2>1. i \in 0..MaxPicture
    BY <1>1, <1>3, BoundAssumption DEF n
  <2>2. <<vo.id, i>> \in Picture
    BY <1>1, <2>1 DEF Picture
  <2> HIDE DEF Picture
  <2> QED BY <1>2, <2>2
<1>4. n \in Nat
  BY <1>1 DEF n
<1>5. f \in [1..n -> [projectid : Key, picture : Picture]]
  BY ONLY <1>2, <1>3
<1>6. f \in Seq([projectid : Key, picture : Picture]) /\ DOMAIN f = 1..n /\ (n > 0 => f # << >>)
  BY ONLY <1>4, <1>5, RowsOf
<1>7. \A i \in 1..n : f[i].projectid = key /\ f[i].picture = <<vo.id, i>>
  BY <1>2
<1> QED BY <1>6, <1>7 DEF f, n

LEMMA ReturnsTyped ==
    ASSUME NEW vo \in ProjectVO, NEW key \in Key, vo.returnVOList # << >>
    PROVE  /\ Returns(vo, key) \in Seq([projectid : Key, ret : ReturnVO])
           /\ Returns(vo, key) # << >>
           /\ DOMAIN Returns(vo, key) = DOMAIN vo.returnVOList
           /\ \A i \in DOMAIN vo.returnVOList :
                /\ Returns(vo, key)[i].projectid = key
                /\ Returns(vo, key)[i].ret = vo.returnVOList[i]
<1> DEFINE list == vo.returnVOList
           f == Returns(vo, key)
           n == Len(list)
<1>1. list \in Seq(ReturnVO) /\ DOMAIN list = 1..n /\ n \in Nat
  BY LenProperties DEF ProjectVO
<1>2. n > 0
  BY <1>1, EmptySeq
<1>3. /\ f = [i \in 1..n |-> f[i]]
      /\ \A i \in 1..n : f[i] = [projectid |-> key, ret |-> list[i]]
  BY <1>1 DEF Returns
<1>4. \A i \in 1..n : list[i] \in ReturnVO
  BY <1>1, ElementOfSeq
<1> HIDE DEF list, f, n
<1>5. \A i \in 1..n : f[i] \in [projectid : Key, ret : ReturnVO]
  BY <1>3, <1>4
<1>6. f \in [1..n -> [projectid : Key, ret : ReturnVO]]
  BY ONLY <1>3, <1>5
<1>7. f \in Seq([projectid : Key, ret : ReturnVO]) /\ DOMAIN f = 1..n /\ (n > 0 => f # << >>)
  BY ONLY <1>1, <1>6, RowsOf
<1>8. \A i \in 1..n : f[i].projectid = key /\ f[i].ret = list[i]
  BY <1>3
<1> QED BY <1>1, <1>2, <1>7, <1>8 DEF f, list, n

-----------------------------------------------------------------------------
(***************************************************************************)
(* Drafts and requests.                                                    *)
(***************************************************************************)
LEMMA DraftTyped ==
    ASSUME NEW vo \in ProjectVO
    PROVE  /\ vo.id \in Draft /\ vo.id # 0
           /\ vo.pictures \in Nat /\ vo.pictures <= MaxPicture
           /\ vo.returnVOList \in Seq(ReturnVO)
           /\ Len(vo.returnVOList) \in Nat
           /\ DOMAIN vo.returnVOList = 1..Len(vo.returnVOList)
           /\ \A k \in 1..Len(vo.returnVOList) : vo.returnVOList[k] \in ReturnVO
<1>1. vo.id \in Draft /\ vo.pictures \in 0..MaxPicture /\ vo.returnVOList \in Seq(ReturnVO)
  BY DEF ProjectVO
<1>2. vo.id # 0 /\ vo.pictures \in Nat /\ vo.pictures <= MaxPicture
  BY <1>1, BoundAssumption DEF Draft
<1> DEFINE list == vo.returnVOList
<1>3. list \in Seq(ReturnVO)
  BY <1>1
<1> HIDE DEF list
<1>4. /\ Len(list) \in Nat /\ DOMAIN list = 1..Len(list)
      /\ \A k \in 1..Len(list) : list[k] \in ReturnVO
  BY <1>3, LenProperties, ElementOfSeq
<1> QED BY <1>1, <1>2, <1>4 DEF list

\* What holds of a draft goes on to hold.
LEMMA WholeStays ==
    ASSUME NEW vo \in ProjectVO, NEW objects, NEW more, objects \subseteq more,
           NEW acc, NEW acc2, \A r \in ReturnVO : acc[r] # 0 => acc2[r] = acc[r]
    PROVE  /\ PicturesIn(vo, objects) => PicturesIn(vo, more)
           /\ \A n \in 0..Len(vo.returnVOList) :
                AcceptedUpTo(vo, n, acc) => AcceptedUpTo(vo, n, acc2)
           /\ Whole(vo, objects, acc) => Whole(vo, more, acc2)
<1>1. PicturesIn(vo, objects) => PicturesIn(vo, more)
  BY DEF PicturesIn
<1>2. ASSUME NEW n \in 0..Len(vo.returnVOList), AcceptedUpTo(vo, n, acc)
      PROVE  AcceptedUpTo(vo, n, acc2)
  <2>1. ASSUME NEW k \in 1..n PROVE acc2[vo.returnVOList[k]] = vo.id
    <3>1. vo.returnVOList[k] \in ReturnVO /\ vo.id # 0
      BY DraftTyped
    <3>2. acc[vo.returnVOList[k]] = vo.id
      BY <1>2 DEF AcceptedUpTo
    <3> QED BY <3>1, <3>2
  <2> QED BY <2>1 DEF AcceptedUpTo
<1>3. Len(vo.returnVOList) \in 0..Len(vo.returnVOList)
  BY DraftTyped
<1> QED BY <1>1, <1>2, <1>3 DEF Whole

LEMMA IdleTyped == Idle \in RequestRecord /\ Idle.pc = "idle" /\ Idle.sid = None
BY BoundAssumption DEF Idle, RequestRecord, PC

LEMMA RequestTyped ==
    ASSUME TypeOK, NEW t \in Thread
    PROVE  /\ request[t] \in RequestRecord
           /\ request[t].pc \in PC
           /\ request[t].sid \in Session \cup {None}
           /\ request[t].projectVO \in ProjectVO \cup {None}
           /\ request[t].uploaded \in 0..MaxPicture + 1
           /\ request[t].member \in Member \cup {None}
           /\ request[t].key \in 0..MaxKey
BY DEF TypeOK, RequestRecord

LEMMA RowTyped == ASSUME NEW S, NEW s \in Seq(S) PROVE \A i \in DOMAIN s : s[i] \in S
BY ElementOfSeq, LenProperties

LEMMA RowsTyped ==
    ASSUME TypeOK
    PROVE  /\ \A i \in DOMAIN t_project :
                t_project[i].id \in Key /\ t_project[i].memberid \in Member
                                       /\ t_project[i].draft \in Draft
           /\ \A j \in DOMAIN t_return : t_return[j].ret \in ReturnVO
<1>1. ASSUME NEW i \in DOMAIN t_project
      PROVE  t_project[i] \in [id : Key, memberid : Member, draft : Draft]
  <2>1. t_project \in Seq([id : Key, memberid : Member, draft : Draft])
    BY DEF TypeOK
  <2> QED BY <2>1, RowTyped
<1>2. ASSUME NEW j \in DOMAIN t_return PROVE t_return[j] \in [projectid : Key, ret : ReturnVO]
  <2>1. t_return \in Seq([projectid : Key, ret : ReturnVO])
    BY DEF TypeOK
  <2> QED BY <2>1, RowTyped
<1> QED BY <1>1, <1>2

\* A step of one thread, and what only grows.
OthersKept(t) == \A u \in Thread \ {t} : request'[u] = request[u]
Grows ==
    /\ bucket \subseteq bucket'
    /\ \A r \in ReturnVO : accepted[r] # 0 => accepted'[r] = accepted[r]
    /\ forms.ret <= forms'.ret
    /\ nextKey <= nextKey'

-----------------------------------------------------------------------------
(***************************************************************************)
(* What the parts of the invariant need to be kept.                        *)
(***************************************************************************)
LEMMA SessionsKept ==
    ASSUME LaunchInv, Grows, TypeOK',
           \A s \in Session : \/ session'[s].project = session[s].project
                              \/ session'[s].project = None
                              \/ Whole(session'[s].project, bucket', accepted')
    PROVE  SessionsWhole'
<1> SUFFICES ASSUME NEW s \in Session, session'[s].project # None
             PROVE  Whole(session'[s].project, bucket', accepted')
  BY DEF SessionsWhole
<1>1. CASE session'[s].project = session[s].project
  <2>1. session[s].project \in ProjectVO
    BY <1>1 DEF LaunchInv, TypeOK, SessionRecord
  <2>2. Whole(session[s].project, bucket, accepted)
    BY <1>1 DEF LaunchInv, SessionsWhole
  <2> QED BY <1>1, <2>1, <2>2, WholeStays DEF Grows
<1> QED BY <1>1

LEMMA HandlersKept ==
    ASSUME LaunchInv, Grows, NEW t \in Thread, OthersKept(t), Holds(t)',
           forms'.ret \in Nat, nextKey' \in Nat,
           \A u \in Thread \ {t} : At(u, "commitReturn") =>
               accepted'[LastReturn(request[u].projectVO)] = 0,
           \A u \in Thread \ {t} : At(u, "commitProject") =>
               \A i \in DOMAIN t_project' : t_project'[i].id # request[u].key
    PROVE  HandlersHold'
<1> SUFFICES ASSUME NEW u \in Thread \ {t} PROVE Holds(u)'
  BY DEF HandlersHold
<1> DEFINE vo == request[u].projectVO
<1>1. request'[u] = request[u] /\ Holds(u)
  BY DEF OthersKept, LaunchInv, HandlersHold
<1>2. CASE At(u, "idle")
  BY <1>1, <1>2 DEF Holds, At
<1>3. CASE ~At(u, "idle")
  <2>1. request[u].sid \in Session /\ vo \in ProjectVO
    BY <1>1, <1>3 DEF Holds
  <2>2. /\ PicturesIn(vo, bucket) => PicturesIn(vo, bucket')
        /\ \A n \in 0..Len(vo.returnVOList) :
             AcceptedUpTo(vo, n, accepted) => AcceptedUpTo(vo, n, accepted')
        /\ Whole(vo, bucket, accepted) => Whole(vo, bucket', accepted')
    BY <2>1, WholeStays DEF Grows
  <2>3. At(u, "upload") => \A k \in 0..request[u].uploaded - 1 : <<vo.id, k>> \in bucket'
    BY <1>1 DEF Holds, Grows
  <2>4. vo.returnVOList # << >> => Len(vo.returnVOList) - 1 \in 0..Len(vo.returnVOList)
    <3>1. vo.returnVOList \in Seq(ReturnVO) /\ Len(vo.returnVOList) \in Nat
      BY <2>1, DraftTyped
    <3>2. vo.returnVOList # << >> => Len(vo.returnVOList) # 0
      BY <3>1, EmptySeq
    <3>3. \A n \in Nat : n # 0 => n - 1 \in 0..n
      OBVIOUS
    <3> QED BY ONLY <3>1, <3>2, <3>3
  <2>5. At(u, "commitReturn") =>
          /\ PicturesIn(vo, bucket')
          /\ vo.returnVOList # << >>
          /\ AcceptedUpTo(vo, Len(vo.returnVOList) - 1, accepted')
          /\ accepted'[LastReturn(vo)] = 0
    BY <1>1, <2>2, <2>4 DEF Holds
  <2>6. At(u, "commitReturn") => LastReturn(vo) <= forms'.ret
    <3>1. SUFFICES ASSUME At(u, "commitReturn") PROVE LastReturn(vo) <= forms'.ret
      OBVIOUS
    <3>2. Len(vo.returnVOList) \in 1..Len(vo.returnVOList)
      BY <1>1, <2>1, <3>1, DraftTyped, EmptySeq DEF Holds
    <3>3. LastReturn(vo) \in Nat
      BY <2>1, <3>2, DraftTyped DEF LastReturn, ReturnVO
    <3>4. LastReturn(vo) <= forms.ret /\ forms.ret \in Nat
      BY <1>1, <3>1 DEF Holds, LaunchInv, TypeOK
    <3> QED BY <3>3, <3>4 DEF Grows
  <2>7. At(u, "commitProject") =>
          /\ request[u].key \in 1..nextKey' - 1
          /\ \A i \in DOMAIN t_project' : t_project'[i].id # request[u].key
    <3>1. nextKey \in Nat
      BY DEF LaunchInv, TypeOK
    <3> QED BY <1>1, <3>1 DEF Holds, Grows
  <2> QED BY <1>1, <2>1, <2>2, <2>3, <2>5, <2>6, <2>7 DEF Holds, At
<1> QED BY <1>2, <1>3

LEMMA ApartKept ==
    ASSUME LaunchInv, NEW t \in Thread, OthersKept(t)
    PROVE  /\ request'[t].pc # "commitReturn" => FormsApart'
           /\ request'[t].pc # "commitProject" => KeysApart'
BY DEF LaunchInv, FormsApart, KeysApart, OthersKept, At

LEMMA KeysLeftKept ==
    ASSUME LaunchInv, NEW t \in Thread, OthersKept(t), nextKey' = nextKey,
           request'[t].pc # "insertProject"
    PROVE  KeysLeft'
<1>1. Inserting' \subseteq Inserting
  BY DEF Inserting, OthersKept, At
<1>2. IsFiniteSet(Inserting)
  BY ThreadAssumption, FS_Subset DEF Inserting
<1>3. /\ Cardinality(Inserting') <= Cardinality(Inserting)
      /\ Cardinality(Inserting) \in Nat /\ Cardinality(Inserting') \in Nat
  BY <1>1, <1>2, FS_Subset, FS_CardinalityType
<1>4. nextKey \in Nat /\ MaxKey \in Nat
  BY BoundAssumption DEF LaunchInv, TypeOK
<1> QED BY <1>3, <1>4 DEF LaunchInv, KeysLeft

LEMMA TablesKept ==
    ASSUME LaunchInv, Grows, nextKey' \in Nat, UNCHANGED tables
    PROVE  KeysOfProjects' /\ PicturesUploaded' /\ ReturnsOfDraftRead'
<1>1. KeysOfProjects'
  <2>1. \A i \in DOMAIN t_project : t_project[i].id \in Nat
    BY RowsTyped, BoundAssumption DEF LaunchInv, Key
  <2>2. nextKey \in Nat
    BY DEF LaunchInv, TypeOK
  <2> QED BY <2>1, <2>2 DEF LaunchInv, KeysOfProjects, ProjectKeys, Grows, tables
<1>2. PicturesUploaded'
  BY DEF LaunchInv, PicturesUploaded, Of, Grows, tables
<1>3. ReturnsOfDraftRead'
  <2> SUFFICES ASSUME NEW i \in DOMAIN t_project, NEW j \in DOMAIN t_return,
                      t_return[j].projectid = t_project[i].id
               PROVE  accepted'[t_return[j].ret] = t_project[i].draft
    BY DEF ReturnsOfDraftRead, tables
  <2>1. accepted[t_return[j].ret] = t_project[i].draft
    BY DEF LaunchInv, ReturnsOfDraftRead
  <2>2. t_project[i].draft # 0 /\ t_return[j].ret \in ReturnVO
    BY RowsTyped, BoundAssumption DEF LaunchInv, Draft
  <2> QED BY <2>1, <2>2 DEF Grows
<1> QED BY <1>1, <1>2, <1>3

-----------------------------------------------------------------------------
(***************************************************************************)
(* The steps, by what they change: the session only, the session at the    *)
(* end of a request, and the request at its beginning.                     *)
(***************************************************************************)
LEMMA SessionStep ==
    ASSUME LaunchInv, UNCHANGED <<request, forms, accepted, bucket, nextKey, tables>>,
           session' \in [Session -> SessionRecord],
           \A s \in Session : session'[s].project \in {session[s].project, None}
    PROVE  LaunchInv'
<1>1. Grows
  BY DEF Grows, LaunchInv, TypeOK
<1>2. TypeOK'
  BY DEF LaunchInv, TypeOK, tables
<1>3. SessionsWhole'
  BY <1>1, <1>2, SessionsKept
<1>4. HandlersHold' /\ FormsApart' /\ KeysApart' /\ AcceptedForms' /\ KeysLeft'
  <2>1. HandlersHold'
    BY DEF LaunchInv, HandlersHold, Holds, At, tables
  <2>2. FormsApart' /\ KeysApart' /\ AcceptedForms'
    BY DEF LaunchInv, FormsApart, KeysApart, AcceptedForms, At
  <2>3. Inserting' = Inserting
    BY DEF Inserting, At
  <2> QED BY <2>1, <2>2, <2>3 DEF LaunchInv, KeysLeft
<1>5. nextKey' \in Nat
  BY <1>2 DEF TypeOK
<1>6. KeysOfProjects' /\ PicturesUploaded' /\ ReturnsOfDraftRead'
  BY <1>1, <1>5, TablesKept
<1> QED BY <1>2, <1>3, <1>4, <1>6 DEF LaunchInv

LEMMA EndStep ==
    ASSUME LaunchInv, NEW t \in Thread, End(t), UNCHANGED <<forms, bucket, nextKey, tables>>,
           session' \in [Session -> SessionRecord],
           accepted' \in [ReturnVO -> 0..MaxDraft],
           \A r \in ReturnVO : accepted[r] # 0 => accepted'[r] = accepted[r],
           \A r \in ReturnVO : accepted'[r] # accepted[r] => r <= forms.ret,
           \A u \in Thread \ {t} : At(u, "commitReturn") =>
               accepted'[LastReturn(request[u].projectVO)] = 0,
           \A s \in Session : \/ session'[s].project = session[s].project
                              \/ session'[s].project = None
                              \/ Whole(session'[s].project, bucket', accepted')
    PROVE  LaunchInv'
<1>1. Grows
  BY DEF Grows, LaunchInv, TypeOK
<1>2. /\ OthersKept(t) /\ request'[t] = Idle
      /\ request' \in [Thread -> RequestRecord]
  BY IdleTyped DEF End, OthersKept, LaunchInv, TypeOK
<1>3. TypeOK'
  BY <1>2 DEF LaunchInv, TypeOK, tables
<1>4. SessionsWhole'
  BY <1>1, <1>3, SessionsKept
<1>5. Holds(t)'
  BY <1>2, IdleTyped DEF Holds, At
<1>6. forms'.ret \in Nat /\ nextKey' \in Nat
  BY <1>3 DEF TypeOK
<1>7. HandlersHold'
  <2>1. \A u \in Thread \ {t} : At(u, "commitProject") =>
            \A i \in DOMAIN t_project' : t_project'[i].id # request[u].key
    BY DEF LaunchInv, HandlersHold, Holds, tables, At
  <2> QED BY <1>1, <1>2, <1>5, <1>6, <2>1, HandlersKept
<1>8. FormsApart' /\ KeysApart'
  BY <1>2, IdleTyped, ApartKept
<1>9. AcceptedForms'
  BY DEF LaunchInv, AcceptedForms
<1>10. KeysLeft'
  BY <1>2, IdleTyped, KeysLeftKept
<1>11. KeysOfProjects' /\ PicturesUploaded' /\ ReturnsOfDraftRead'
  BY <1>1, <1>6, TablesKept
<1> QED BY <1>3, <1>4, <1>7, <1>8, <1>9, <1>10, <1>11 DEF LaunchInv

LEMMA BeginStep ==
    ASSUME LaunchInv, NEW t \in Thread, NEW q \in RequestRecord,
           request' = [request EXCEPT ![t] = q], q.pc # "commitProject",
           UNCHANGED <<session, accepted, bucket, nextKey, tables>>,
           forms' \in [draft : 0..MaxDraft, ret : 0..MaxReturn], forms.ret <= forms'.ret,
           Holds(t)', FormsApart', KeysLeft'
    PROVE  LaunchInv'
<1>1. Grows
  BY DEF Grows, LaunchInv, TypeOK
<1>2. /\ OthersKept(t) /\ request'[t] = q
      /\ request' \in [Thread -> RequestRecord]
  BY DEF OthersKept, LaunchInv, TypeOK
<1>3. TypeOK'
  BY <1>2 DEF LaunchInv, TypeOK, tables
<1>4. SessionsWhole'
  BY <1>1, <1>3, SessionsKept
<1>5. forms'.ret \in Nat /\ nextKey' \in Nat /\ forms.ret \in Nat
  BY <1>3 DEF TypeOK, LaunchInv
<1>6. HandlersHold'
  <2>1. /\ \A u \in Thread \ {t} : At(u, "commitReturn") =>
               accepted'[LastReturn(request[u].projectVO)] = 0
        /\ \A u \in Thread \ {t} : At(u, "commitProject") =>
               \A i \in DOMAIN t_project' : t_project'[i].id # request[u].key
    BY DEF LaunchInv, HandlersHold, Holds, tables, At
  <2> QED BY <1>1, <1>2, <1>5, <2>1, HandlersKept
<1>7. KeysApart'
  BY <1>2, ApartKept
<1>8. AcceptedForms'
  <2>1. ReturnVO \subseteq Int
    BY DEF ReturnVO
  <2> QED BY <1>5, <2>1 DEF LaunchInv, AcceptedForms
<1>9. KeysOfProjects' /\ PicturesUploaded' /\ ReturnsOfDraftRead'
  BY <1>1, <1>5, TablesKept
<1> QED BY <1>3, <1>4, <1>6, <1>7, <1>8, <1>9 DEF LaunchInv

-----------------------------------------------------------------------------
(***************************************************************************)
(* The invariant holds at first, and each action keeps it.                 *)
(***************************************************************************)
LEMMA InitInv == ASSUME Init PROVE LaunchInv
<1>1. TypeOK
  <2>1. session \in [Session -> SessionRecord] /\ request \in [Thread -> RequestRecord]
    BY IdleTyped DEF Init, SessionRecord
  <2>2. /\ forms \in [draft : 0..MaxDraft, ret : 0..MaxReturn]
        /\ accepted \in [ReturnVO -> 0..MaxDraft]
        /\ nextKey \in 1..MaxKey + 1
    BY BoundAssumption DEF Init
  <2>3. \A S : << >> \in Seq(S)
    BY EmptySeq
  <2> QED BY <2>1, <2>2, <2>3 DEF Init, TypeOK
<1>2. SessionsWhole /\ HandlersHold /\ FormsApart /\ KeysApart /\ AcceptedForms
  BY IdleTyped DEF Init, SessionsWhole, HandlersHold, Holds, FormsApart, KeysApart,
                   AcceptedForms, At
<1>3. KeysLeft
  <2>1. Inserting = {}
    BY IdleTyped DEF Init, Inserting, At
  <2> QED BY <2>1, FS_EmptySet, BoundAssumption DEF Init, KeysLeft
<1>4. KeysOfProjects /\ PicturesUploaded /\ ReturnsOfDraftRead
  BY DEF Init, KeysOfProjects, PicturesUploaded, ReturnsOfDraftRead
<1> QED BY <1>1, <1>2, <1>3, <1>4 DEF LaunchInv

LEMMA LoginKeeps ==
    ASSUME LaunchInv, NEW s \in Session, NEW m \in Member, login(s, m) PROVE LaunchInv'
<1>1. session' \in [Session -> SessionRecord]
  BY DEF login, LaunchInv, TypeOK, SessionRecord
<1>2. \A x \in Session : session'[x].project \in {session[x].project, None}
  BY DEF login, LaunchInv, TypeOK, SessionRecord
<1> QED BY <1>1, <1>2, SessionStep DEF login

LEMMA ExpireKeeps == ASSUME LaunchInv, NEW s \in Session, expire(s) PROVE LaunchInv'
<1>1. session' \in [Session -> SessionRecord]
  BY DEF expire, LaunchInv, TypeOK, SessionRecord
<1>2. \A x \in Session : session'[x].project \in {session[x].project, None}
  BY DEF expire, LaunchInv, TypeOK, SessionRecord
<1> QED BY <1>1, <1>2, SessionStep DEF expire

\* A request that ends and leaves everything else alone.
LEMMA StopKeeps ==
    ASSUME LaunchInv, NEW t \in Thread, End(t),
           UNCHANGED <<session, forms, accepted, bucket, nextKey, tables>>
    PROVE  LaunchInv'
<1>1. session' \in [Session -> SessionRecord] /\ accepted' \in [ReturnVO -> 0..MaxDraft]
  BY DEF LaunchInv, TypeOK
<1>2. \A u \in Thread \ {t} : At(u, "commitReturn") =>
          accepted'[LastReturn(request[u].projectVO)] = 0
  BY DEF LaunchInv, HandlersHold, Holds
<1> QED BY <1>1, <1>2, EndStep

LEMMA CommitDraftKeeps ==
    ASSUME LaunchInv, NEW t \in Thread, commitDraft(t) PROVE LaunchInv'
<1> DEFINE vo == request[t].projectVO
<1>1. request[t].sid \in Session /\ vo \in ProjectVO /\ Whole(vo, bucket, accepted)
  BY DEF commitDraft, LaunchInv, HandlersHold, Holds, At
<1>2. /\ session' \in [Session -> SessionRecord]
      /\ \A s \in Session : \/ session'[s].project = session[s].project
                            \/ session'[s].project = vo
  BY <1>1 DEF commitDraft, LaunchInv, TypeOK, SessionRecord
<1>3. /\ UNCHANGED <<forms, accepted, bucket, nextKey, tables>> /\ End(t)
      /\ accepted' \in [ReturnVO -> 0..MaxDraft]
  BY DEF commitDraft, LaunchInv, TypeOK
<1>4. \A u \in Thread \ {t} : At(u, "commitReturn") =>
          accepted'[LastReturn(request[u].projectVO)] = 0
  BY <1>3 DEF LaunchInv, HandlersHold, Holds
<1> QED BY <1>1, <1>2, <1>3, <1>4, EndStep

LEMMA RemoveDraftKeeps ==
    ASSUME LaunchInv, NEW t \in Thread, removeDraft(t) PROVE LaunchInv'
<1>1. request[t].sid \in Session
  BY DEF removeDraft, LaunchInv, HandlersHold, Holds, At
<1>2. /\ session' \in [Session -> SessionRecord]
      /\ \A s \in Session : \/ session'[s].project = session[s].project
                            \/ session'[s].project = None
  BY <1>1 DEF removeDraft, LaunchInv, TypeOK, SessionRecord
<1>3. /\ UNCHANGED <<forms, accepted, bucket, nextKey, tables>> /\ End(t)
      /\ accepted' \in [ReturnVO -> 0..MaxDraft]
  BY DEF removeDraft, LaunchInv, TypeOK
<1>4. \A u \in Thread \ {t} : At(u, "commitReturn") =>
          accepted'[LastReturn(request[u].projectVO)] = 0
  BY <1>3 DEF LaunchInv, HandlersHold, Holds
<1> QED BY <1>2, <1>3, <1>4, EndStep

LEMMA LastTyped ==
    ASSUME NEW vo \in ProjectVO, vo.returnVOList # << >>
    PROVE  /\ Len(vo.returnVOList) \in 1..Len(vo.returnVOList)
           /\ Len(vo.returnVOList) - 1 \in 0..Len(vo.returnVOList)
           /\ LastReturn(vo) \in ReturnVO
<1>1. vo.returnVOList \in Seq(ReturnVO) /\ Len(vo.returnVOList) \in Nat
  BY DraftTyped
<1>2. Len(vo.returnVOList) # 0
  BY <1>1, EmptySeq
<1> QED BY <1>1, <1>2, DraftTyped DEF LastReturn

LEMMA CommitReturnKeeps ==
    ASSUME LaunchInv, NEW t \in Thread, commitReturn(t) PROVE LaunchInv'
<1> DEFINE vo == request[t].projectVO
           last == LastReturn(vo)
<1>1. /\ At(t, "commitReturn") /\ request[t].sid \in Session
      /\ vo \in ProjectVO /\ PicturesIn(vo, bucket) /\ vo.returnVOList # << >>
      /\ AcceptedUpTo(vo, Len(vo.returnVOList) - 1, accepted)
      /\ accepted[last] = 0 /\ last <= forms.ret
  BY DEF commitReturn, LaunchInv, HandlersHold, Holds, At
<1>2. last \in ReturnVO /\ vo.id \in 0..MaxDraft
  BY <1>1, LastTyped, DraftTyped, BoundAssumption DEF Draft
<1>3. /\ accepted' = [accepted EXCEPT ![last] = vo.id]
      /\ session' = [session EXCEPT ![request[t].sid].project = vo]
      /\ End(t) /\ UNCHANGED <<forms, bucket, nextKey, tables>>
  BY DEF commitReturn, LastReturn
<1>4. /\ accepted \in [ReturnVO -> 0..MaxDraft]
      /\ session \in [Session -> SessionRecord]
  BY DEF LaunchInv, TypeOK
<1>5. /\ accepted' \in [ReturnVO -> 0..MaxDraft]
      /\ accepted'[last] = vo.id
      /\ \A r \in ReturnVO \ {last} : accepted'[r] = accepted[r]
  BY <1>2, <1>3, <1>4
<1>6. /\ session' \in [Session -> SessionRecord]
      /\ \A s \in Session : \/ session'[s].project = session[s].project
                            \/ session'[s].project = vo
  BY <1>1, <1>3, <1>4 DEF SessionRecord
<1>7. \A r \in ReturnVO : accepted[r] # 0 => accepted'[r] = accepted[r]
  BY <1>1, <1>5
<1>8. Whole(vo, bucket', accepted')
  <2>1. AcceptedUpTo(vo, Len(vo.returnVOList) - 1, accepted')
    <3>1. Len(vo.returnVOList) - 1 \in 0..Len(vo.returnVOList)
      BY <1>1, LastTyped
    <3>2. \A n \in 0..Len(vo.returnVOList) :
              AcceptedUpTo(vo, n, accepted) => AcceptedUpTo(vo, n, accepted')
      BY <1>1, <1>7, WholeStays
    <3> QED BY <1>1, <3>1, <3>2
  <2>2. ASSUME NEW k \in 1..Len(vo.returnVOList) PROVE accepted'[vo.returnVOList[k]] = vo.id
    <3>1. CASE k = Len(vo.returnVOList)
      BY <1>5, <3>1 DEF LastReturn
    <3>2. CASE k # Len(vo.returnVOList)
      <4>1. k \in 1..Len(vo.returnVOList) - 1
        BY <1>1, <3>2, LastTyped
      <4> QED BY <2>1, <4>1 DEF AcceptedUpTo
    <3> QED BY <3>1, <3>2
  <2> QED BY <1>1, <1>3, <2>2 DEF Whole, AcceptedUpTo
<1>9. ASSUME NEW u \in Thread \ {t}, At(u, "commitReturn")
      PROVE  accepted'[LastReturn(request[u].projectVO)] = 0
  <2>1. /\ accepted[LastReturn(request[u].projectVO)] = 0
        /\ request[u].projectVO \in ProjectVO
        /\ request[u].projectVO.returnVOList # << >>
    BY <1>9 DEF LaunchInv, HandlersHold, Holds, At
  <2>2. LastReturn(request[u].projectVO) \in ReturnVO
    BY <2>1, LastTyped
  <2>3. LastReturn(request[u].projectVO) # last
    BY <1>1, <1>9 DEF LaunchInv, FormsApart
  <2> QED BY <1>5, <2>1, <2>2, <2>3
<1>10. \A r \in ReturnVO : accepted'[r] # accepted[r] => r <= forms.ret
  BY <1>1, <1>5
<1> HIDE DEF vo, last
<1> QED BY <1>3, <1>5, <1>6, <1>7, <1>8, <1>9, <1>10, EndStep

LEMMA SaveProjectKeeps ==
    ASSUME LaunchInv, NEW t \in Thread, NEW s \in Session, NEW n \in 0..MaxPicture,
           NEW typed \in BOOLEAN, NEW intro \in Description,
           saveProjectBasicInfo(t, s, n, typed, intro)
    PROVE  LaunchInv'
<1> DEFINE vo == [id |-> forms'.draft, typed |-> typed, intro |-> intro,
                  pictures |-> n, returnVOList |-> << >>]
           q == [Idle EXCEPT !.pc = "upload", !.sid = s, !.projectVO = vo]
<1>1. /\ forms \in [draft : 0..MaxDraft, ret : 0..MaxReturn]
      /\ forms' = [forms EXCEPT !.draft = @ + 1]
      /\ forms.draft < MaxDraft
  BY DEF saveProjectBasicInfo, LaunchInv, TypeOK
<1>2. /\ forms' \in [draft : 0..MaxDraft, ret : 0..MaxReturn]
      /\ forms'.draft \in Draft /\ forms.ret <= forms'.ret
  BY <1>1, BoundAssumption DEF Draft
<1>3. << >> \in Seq(ReturnVO)
  BY EmptySeq
<1>4. vo \in ProjectVO
  BY <1>2, <1>3 DEF ProjectVO
<1>5. vo.returnVOList = << >> /\ vo.pictures \in Nat
  BY <1>4, DraftTyped
<1>6. /\ request' = [request EXCEPT ![t] = q]
      /\ UNCHANGED <<session, accepted, bucket, nextKey, tables>>
  BY DEF saveProjectBasicInfo
<1> HIDE DEF vo
<1>7. /\ q \in RequestRecord /\ q.pc = "upload" /\ q.sid = s
      /\ q.projectVO = vo /\ q.uploaded = 0
  BY <1>4, IdleTyped, BoundAssumption DEF RequestRecord, PC, Idle
<1> HIDE DEF q
<1>8. request'[t] = q /\ OthersKept(t)
  BY <1>6 DEF OthersKept, LaunchInv, TypeOK
<1>9. Holds(t)'
  BY <1>4, <1>5, <1>7, <1>8 DEF Holds, At
<1>10. FormsApart' /\ KeysLeft'
  BY <1>6, <1>7, <1>8, ApartKept, KeysLeftKept
<1> QED BY <1>2, <1>6, <1>7, <1>9, <1>10, BeginStep

LEMMA ReturnAdded ==
    ASSUME NEW vo \in ProjectVO, NEW r \in ReturnVO, NEW w,
           w = [vo EXCEPT !.returnVOList = Append(@, r)]
    PROVE  /\ w \in ProjectVO /\ w.id = vo.id /\ w.pictures = vo.pictures
           /\ w.returnVOList # << >> /\ LastReturn(w) = r
           /\ Len(w.returnVOList) = Len(vo.returnVOList) + 1
           /\ \A k \in 1..Len(vo.returnVOList) : w.returnVOList[k] = vo.returnVOList[k]
<1> DEFINE list == vo.returnVOList
           more == Append(list, r)
<1>1. list \in Seq(ReturnVO) /\ Len(list) \in Nat
  BY DraftTyped
<1>2. w.returnVOList = more /\ w.id = vo.id /\ w.pictures = vo.pictures
  BY DEF ProjectVO
<1>3. w = [vo EXCEPT !.returnVOList = more]
  OBVIOUS
<1> HIDE DEF list
<1>4. /\ more \in Seq(ReturnVO) /\ more # << >> /\ Len(more) = Len(list) + 1
      /\ \A k \in 1..Len(list) : more[k] = list[k]
      /\ more[Len(list) + 1] = r
  BY <1>1, AppendProperties
<1> HIDE DEF more
<1>5. w \in ProjectVO
  BY <1>3, <1>4 DEF ProjectVO
<1>6. LastReturn(w) = r
  BY <1>2, <1>4 DEF LastReturn
<1> QED BY <1>2, <1>4, <1>5, <1>6 DEF list

LEMMA SaveReturnKeeps ==
    ASSUME LaunchInv, NEW t \in Thread, NEW s \in Session, saveReturn(t, s)
    PROVE  LaunchInv'
<1> DEFINE vo == session[s].project
           r == forms'.ret
           w == [vo EXCEPT !.returnVOList = Append(@, r)]
           q == [Idle EXCEPT !.pc = "commitReturn", !.sid = s, !.projectVO = w]
<1>1. /\ forms \in [draft : 0..MaxDraft, ret : 0..MaxReturn]
      /\ forms' = [forms EXCEPT !.ret = @ + 1]
      /\ forms.ret < MaxReturn
  BY DEF saveReturn, LaunchInv, TypeOK
<1>2. /\ forms' \in [draft : 0..MaxDraft, ret : 0..MaxReturn]
      /\ r \in ReturnVO /\ forms.ret \in Nat /\ r = forms.ret + 1
  BY <1>1, BoundAssumption DEF ReturnVO
<1>3. vo \in ProjectVO /\ Whole(vo, bucket, accepted)
  BY DEF saveReturn, LaunchInv, TypeOK, SessionRecord, SessionsWhole
<1>4. /\ request' = [request EXCEPT ![t] = q]
      /\ UNCHANGED <<session, accepted, bucket, nextKey, tables>>
  BY DEF saveReturn
<1>5. /\ w \in ProjectVO /\ w.id = vo.id /\ w.pictures = vo.pictures
      /\ w.returnVOList # << >> /\ LastReturn(w) = r
      /\ Len(w.returnVOList) = Len(vo.returnVOList) + 1
      /\ \A k \in 1..Len(vo.returnVOList) : w.returnVOList[k] = vo.returnVOList[k]
  BY <1>2, <1>3, ReturnAdded, ZenonT(60)
<1>6. /\ PicturesIn(w, bucket)
      /\ AcceptedUpTo(w, Len(w.returnVOList) - 1, accepted)
  <2>1. Len(vo.returnVOList) \in Nat
    BY <1>3, DraftTyped
  <2> HIDE DEF w, vo
  <2>2. Len(w.returnVOList) - 1 = Len(vo.returnVOList)
    BY <1>5, <2>1
  <2> QED BY <1>3, <1>5, <2>2 DEF Whole, PicturesIn, AcceptedUpTo
<1>7. accepted[r] = 0
  BY <1>2 DEF LaunchInv, AcceptedForms
<1> HIDE DEF w, vo
<1>8. /\ q \in RequestRecord /\ q.pc = "commitReturn" /\ q.sid = s /\ q.projectVO = w
  BY <1>5, IdleTyped, BoundAssumption DEF RequestRecord, PC, Idle
<1> HIDE DEF q
<1>9. request'[t] = q /\ OthersKept(t)
  BY <1>4 DEF OthersKept, LaunchInv, TypeOK
<1>10. Holds(t)'
  <2>1. LastReturn(w) <= forms'.ret /\ accepted[LastReturn(w)] = 0
    BY <1>2, <1>5, <1>7
  <2>2. bucket' = bucket /\ accepted' = accepted
    BY <1>4
  <2> HIDE DEF r
  <2> QED BY <1>5, <1>6, <1>8, <1>9, <2>1, <2>2 DEF Holds, At
<1>11. FormsApart'
  <2>1. \A u \in Thread \ {t} : At(u, "commitReturn") =>
            LastReturn(request[u].projectVO) # r
    <3> SUFFICES ASSUME NEW u \in Thread \ {t}, At(u, "commitReturn")
                 PROVE  LastReturn(request[u].projectVO) # r
      OBVIOUS
    <3>1. LastReturn(request[u].projectVO) <= forms.ret
      BY DEF LaunchInv, HandlersHold, Holds
    <3> QED BY <1>2, <3>1
  <2> QED BY <1>5, <1>8, <1>9, <2>1 DEF LaunchInv, FormsApart, OthersKept, At
<1>12. KeysLeft'
  BY <1>4, <1>8, <1>9, KeysLeftKept
<1>13. forms.ret <= forms'.ret
  BY <1>2
<1> HIDE DEF r
<1> QED BY <1>2, <1>4, <1>8, <1>10, <1>11, <1>12, <1>13, BeginStep

LEMMA SaveConfirmKeeps ==
    ASSUME LaunchInv, NEW t \in Thread, NEW s \in Session, saveConfirm(t, s)
    PROVE  LaunchInv'
<1> DEFINE vo == session[s].project
           m == session[s].loginMember
           p == [Idle EXCEPT !.pc = "insertProject", !.sid = s, !.projectVO = vo]
           q == [p EXCEPT !.member = m]
<1>1. /\ At(t, "idle")
      /\ nextKey + Cardinality(Inserting) <= MaxKey
      /\ request' = [request EXCEPT ![t] = q]
      /\ UNCHANGED <<session, forms, accepted, bucket, nextKey, tables>>
  BY DEF saveConfirm, Inserting
<1>2. /\ vo \in ProjectVO /\ m \in Member /\ Whole(vo, bucket, accepted)
  BY DEF saveConfirm, LaunchInv, TypeOK, SessionRecord, SessionsWhole
<1> HIDE DEF vo, m
<1>3. p \in RequestRecord /\ p.pc = "insertProject" /\ p.sid = s /\ p.projectVO = vo
  BY <1>2, IdleTyped, BoundAssumption DEF RequestRecord, PC, Idle
<1> HIDE DEF p
<1>4. /\ q \in RequestRecord /\ q.pc = "insertProject" /\ q.sid = s /\ q.projectVO = vo
      /\ q.member = m
  BY <1>2, <1>3 DEF RequestRecord
<1> HIDE DEF q
<1>5. request'[t] = q /\ OthersKept(t)
  BY <1>1 DEF OthersKept, LaunchInv, TypeOK
<1>6. Holds(t)'
  BY <1>1, <1>2, <1>4, <1>5 DEF Holds, At
<1>7. FormsApart'
  BY <1>4, <1>5, ApartKept
<1>8. KeysLeft'
  <2>1. Inserting' = Inserting \cup {t}
    BY <1>4, <1>5 DEF Inserting, OthersKept, At
  <2>2. IsFiniteSet(Inserting)
    BY ThreadAssumption, FS_Subset DEF Inserting
  <2>3. /\ Cardinality(Inserting') <= Cardinality(Inserting) + 1
        /\ Cardinality(Inserting) \in Nat /\ Cardinality(Inserting') \in Nat
    <3>1. /\ IsFiniteSet(Inserting \cup {t})
          /\ Cardinality(Inserting \cup {t}) \in
               {Cardinality(Inserting), Cardinality(Inserting) + 1}
      BY <2>2, FS_AddElement
    <3>2. Cardinality(Inserting) \in Nat
      BY <2>2, FS_CardinalityType
    <3> QED BY <2>1, <3>1, <3>2
  <2>4. nextKey \in Nat /\ MaxKey \in Nat
    BY BoundAssumption DEF LaunchInv, TypeOK
  <2> QED BY <1>1, <2>3, <2>4 DEF KeysLeft
<1>9. /\ forms' \in [draft : 0..MaxDraft, ret : 0..MaxReturn]
      /\ forms.ret <= forms'.ret
  BY <1>1 DEF LaunchInv, TypeOK
<1> QED BY <1>1, <1>4, <1>6, <1>7, <1>8, <1>9, BeginStep

LEMMA UploadKeeps ==
    ASSUME LaunchInv, NEW t \in Thread, upload(t) PROVE LaunchInv'
<1> DEFINE n == request[t].uploaded
           vo == request[t].projectVO
<1>1. /\ At(t, "upload") /\ n <= vo.pictures
      /\ request[t].sid \in Session /\ vo \in ProjectVO
      /\ \A k \in 0..n - 1 : <<vo.id, k>> \in bucket
      /\ vo.returnVOList = << >>
  BY DEF upload, LaunchInv, HandlersHold, Holds, At
<1>2. /\ bucket' = bucket \cup {<<vo.id, n>>}
      /\ UNCHANGED <<session, forms, accepted, nextKey, tables>>
      /\ request' = [request EXCEPT ![t].uploaded = n + 1,
                                    ![t].pc = IF n > 0 /\ n = vo.pictures
                                              THEN "commitDraft" ELSE "upload"]
  BY DEF upload
<1>3. n \in Nat /\ n <= MaxPicture /\ vo.id \in Draft /\ vo.pictures \in Nat
  <2>1. vo.id \in Draft /\ vo.pictures \in Nat /\ vo.pictures <= MaxPicture
    BY <1>1, DraftTyped
  <2>2. n \in Nat
    BY RequestTyped DEF LaunchInv
  <2> QED BY <1>1, <2>1, <2>2, BoundAssumption
<1>4. request \in [Thread -> RequestRecord]
  BY DEF LaunchInv, TypeOK
<1>5. /\ request' \in [Thread -> RequestRecord] /\ OthersKept(t)
      /\ request'[t].sid = request[t].sid /\ request'[t].projectVO = vo
      /\ request'[t].uploaded = n + 1
      /\ request'[t].pc = IF n > 0 /\ n = vo.pictures THEN "commitDraft" ELSE "upload"
  <2>1. n + 1 \in 0..MaxPicture + 1
    BY <1>3, BoundAssumption
  <2> DEFINE pc == IF n > 0 /\ n = vo.pictures THEN "commitDraft" ELSE "upload"
             q == [request[t] EXCEPT !.uploaded = n + 1, !.pc = pc]
  <2>2. pc \in PC
    BY DEF PC
  <2>3. request' = [request EXCEPT ![t] = q]
    BY <1>2, <1>4
  <2>4. request[t] \in RequestRecord
    BY <1>4
  <2> HIDE DEF n, pc
  <2>5. /\ q \in RequestRecord /\ q.sid = request[t].sid /\ q.projectVO = vo
        /\ q.uploaded = n + 1 /\ q.pc = pc
    BY <2>1, <2>2, <2>4 DEF RequestRecord
  <2> HIDE DEF q
  <2>6. request' \in [Thread -> RequestRecord] /\ request'[t] = q /\ OthersKept(t)
    BY <1>4, <2>3, <2>5 DEF OthersKept
  <2> QED BY <2>5, <2>6 DEF pc
<1>6. Grows
  BY <1>2 DEF Grows, LaunchInv, TypeOK
<1>7. bucket' \subseteq Picture
  BY <1>2, <1>3 DEF LaunchInv, TypeOK, Picture
<1>8. TypeOK'
  BY <1>2, <1>5, <1>7 DEF LaunchInv, TypeOK, tables
<1>9. SessionsWhole'
  BY <1>2, <1>6, <1>8, SessionsKept
<1>10. Holds(t)'
  <2>1. \A k \in 0..n : <<vo.id, k>> \in bucket'
    BY <1>1, <1>2, <1>3
  <2>2. CASE n > 0 /\ n = vo.pictures
    <3>1. PicturesIn(vo, bucket')
      BY <2>1, <2>2 DEF PicturesIn
    <3>2. Len(vo.returnVOList) = 0
      BY <1>1, EmptySeq
    <3>3. Whole(vo, bucket', accepted')
      BY <3>1, <3>2 DEF Whole, AcceptedUpTo
    <3> QED BY <1>1, <1>5, <2>2, <3>3 DEF Holds, At
  <2>3. CASE ~(n > 0 /\ n = vo.pictures)
    <3>1. n + 1 <= vo.pictures + 1 /\ (n + 1) - 1 = n
      BY <1>1, <1>3
    <3> QED BY <1>1, <1>5, <2>1, <2>3, <3>1 DEF Holds, At
  <2> QED BY <2>2, <2>3
<1>11. forms'.ret \in Nat /\ nextKey' \in Nat
  BY <1>8 DEF TypeOK
<1>12. HandlersHold'
  <2>1. /\ \A u \in Thread \ {t} : At(u, "commitReturn") =>
               accepted'[LastReturn(request[u].projectVO)] = 0
        /\ \A u \in Thread \ {t} : At(u, "commitProject") =>
               \A i \in DOMAIN t_project' : t_project'[i].id # request[u].key
    BY <1>2 DEF LaunchInv, HandlersHold, Holds, tables, At
  <2> QED BY <1>5, <1>6, <1>10, <1>11, <2>1, HandlersKept
<1>13. FormsApart' /\ KeysApart' /\ KeysLeft'
  BY <1>2, <1>5, ApartKept, KeysLeftKept
<1>14. AcceptedForms'
  BY <1>2 DEF LaunchInv, AcceptedForms
<1>15. KeysOfProjects' /\ PicturesUploaded' /\ ReturnsOfDraftRead'
  BY <1>2, <1>6, <1>11, TablesKept
<1> QED BY <1>8, <1>9, <1>12, <1>13, <1>14, <1>15 DEF LaunchInv

LEMMA InsertProjectKeeps ==
    ASSUME LaunchInv, NEW t \in Thread, insertProject(t) PROVE LaunchInv'
<1> DEFINE vo == request[t].projectVO
<1>1. /\ At(t, "insertProject") /\ nextKey' = nextKey + 1
      /\ request' = [request EXCEPT ![t].pc = "commitProject", ![t].key = nextKey]
      /\ UNCHANGED <<session, forms, accepted, bucket, tables>>
  BY DEF insertProject
<1>2. /\ request[t].sid \in Session /\ vo \in ProjectVO
      /\ Whole(vo, bucket, accepted) /\ request[t].member \in Member
  BY <1>1 DEF LaunchInv, HandlersHold, Holds, At
<1>3. request \in [Thread -> RequestRecord] /\ nextKey \in Nat \ {0} /\ MaxKey \in Nat
  BY BoundAssumption DEF LaunchInv, TypeOK
<1>4. /\ IsFiniteSet(Inserting) /\ t \in Inserting
      /\ Cardinality(Inserting) \in Nat
      /\ Cardinality(Inserting \ {t}) = Cardinality(Inserting) - 1
      /\ Cardinality(Inserting \ {t}) \in Nat
  <2>1. IsFiniteSet(Inserting) /\ t \in Inserting
    BY <1>1, ThreadAssumption, FS_Subset DEF Inserting
  <2> QED BY <2>1, FS_RemoveElement, FS_CardinalityType
<1>5. nextKey \in 1..MaxKey
  BY <1>3, <1>4 DEF LaunchInv, KeysLeft
<1>6. /\ request' \in [Thread -> RequestRecord] /\ OthersKept(t)
      /\ request'[t].sid = request[t].sid /\ request'[t].projectVO = vo
      /\ request'[t].member = request[t].member
      /\ request'[t].key = nextKey /\ request'[t].pc = "commitProject"
  <2> DEFINE q == [request[t] EXCEPT !.pc = "commitProject", !.key = nextKey]
  <2>1. request' = [request EXCEPT ![t] = q]
    BY <1>1, <1>3
  <2>2. nextKey \in 0..MaxKey /\ request[t] \in RequestRecord /\ "commitProject" \in PC
    BY <1>3, <1>5 DEF PC
  <2>3. /\ q \in RequestRecord /\ q.sid = request[t].sid /\ q.projectVO = vo
        /\ q.member = request[t].member /\ q.key = nextKey /\ q.pc = "commitProject"
    BY <2>2 DEF RequestRecord
  <2> HIDE DEF q
  <2>4. request' \in [Thread -> RequestRecord] /\ request'[t] = q /\ OthersKept(t)
    BY <1>3, <2>1, <2>3 DEF OthersKept
  <2> QED BY <2>3, <2>4
<1>7. Grows /\ nextKey' \in 1..MaxKey + 1
  BY <1>1, <1>3, <1>5 DEF Grows, LaunchInv, TypeOK
<1>8. TypeOK'
  BY <1>1, <1>6, <1>7 DEF LaunchInv, TypeOK, tables
<1>9. SessionsWhole'
  BY <1>1, <1>7, <1>8, SessionsKept
<1>10. \A i \in DOMAIN t_project : t_project[i].id < nextKey /\ t_project[i].id \in Nat
  BY RowsTyped, BoundAssumption DEF LaunchInv, KeysOfProjects, Key
<1>11. Holds(t)'
  <2>1. nextKey \in 1..nextKey' - 1
    BY <1>1, <1>3
  <2>2. \A i \in DOMAIN t_project' : t_project'[i].id # nextKey
    BY <1>1, <1>3, <1>10 DEF tables
  <2> QED BY <1>1, <1>2, <1>6, <2>1, <2>2 DEF Holds, At
<1>12. forms'.ret \in Nat /\ nextKey' \in Nat
  BY <1>8 DEF TypeOK
<1>13. HandlersHold'
  <2>1. /\ \A u \in Thread \ {t} : At(u, "commitReturn") =>
               accepted'[LastReturn(request[u].projectVO)] = 0
        /\ \A u \in Thread \ {t} : At(u, "commitProject") =>
               \A i \in DOMAIN t_project' : t_project'[i].id # request[u].key
    BY <1>1 DEF LaunchInv, HandlersHold, Holds, tables, At
  <2> QED BY <1>6, <1>7, <1>11, <1>12, <2>1, HandlersKept
<1>14. FormsApart'
  BY <1>6, ApartKept
<1>15. KeysApart'
  <2>1. \A u \in Thread \ {t} : At(u, "commitProject") => request[u].key # nextKey
    <3> SUFFICES ASSUME NEW u \in Thread \ {t}, At(u, "commitProject")
                 PROVE  request[u].key # nextKey
      OBVIOUS
    <3>1. request[u].key \in 1..nextKey - 1
      BY DEF LaunchInv, HandlersHold, Holds
    <3> QED BY <1>3, <3>1
  <2> QED BY <1>6, <2>1 DEF LaunchInv, KeysApart, OthersKept, At
<1>16. AcceptedForms'
  BY <1>1 DEF LaunchInv, AcceptedForms
<1>17. KeysLeft'
  <2>1. Inserting' = Inserting \ {t}
    BY <1>6 DEF Inserting, OthersKept, At
  <2> QED BY <1>1, <1>3, <1>4, <2>1 DEF LaunchInv, KeysLeft
<1>18. KeysOfProjects' /\ PicturesUploaded' /\ ReturnsOfDraftRead'
  BY <1>1, <1>7, <1>12, TablesKept
<1> QED BY <1>8, <1>9, <1>13, <1>14, <1>15, <1>16, <1>17, <1>18 DEF LaunchInv

-----------------------------------------------------------------------------
(***************************************************************************)
(* The commit of saveProject: one row of t_project under a key that no     *)
(* table knows, and rows of this key in the tables that belong to it.      *)
(***************************************************************************)
PicturesAdded(vo, old, new) ==
    \A i \in DOMAIN new \ DOMAIN old : \E k \in 1..vo.pictures : new[i].picture = <<vo.id, k>>
ReturnsAdded(vo, old, new) ==
    \A i \in DOMAIN new \ DOMAIN old :
        \E k \in 1..Len(vo.returnVOList) : new[i].ret = vo.returnVOList[k]
IsNewRow(n, key, member, draft) ==
    /\ DOMAIN t_project' = DOMAIN t_project \cup {n}
    /\ n \notin DOMAIN t_project
    /\ t_project'[n].id = key
    /\ t_project'[n].memberid = member
    /\ t_project'[n].draft = draft

LEMMA CommitEffect ==
    ASSUME LaunchInv, NEW t \in Thread, commitProject(t),
           NEW vo, vo = request[t].projectVO, NEW key, key = request[t].key
    PROVE  /\ vo \in ProjectVO /\ key \in Key /\ key \in 1..nextKey - 1
           /\ request[t].sid \in Session /\ request[t].member \in Member
           /\ Whole(vo, bucket, accepted)
           /\ t_project' = Append(t_project, [id |-> key, memberid |-> request[t].member,
                                              draft |-> vo.id])
           /\ \A i \in DOMAIN t_project : t_project[i].id # key
           /\ Unknown(t_project_type, key)
           /\ Unknown(t_project_item_pic, key)
           /\ Unknown(t_return, key)
           /\ t_project_type' \in Seq([projectid : Key])
           /\ Adds(t_project_type, t_project_type', key)
           /\ t_project_item_pic' \in Seq([projectid : Key, picture : Picture])
           /\ Adds(t_project_item_pic, t_project_item_pic', key)
           /\ PicturesAdded(vo, t_project_item_pic, t_project_item_pic')
           /\ t_return' \in Seq([projectid : Key, ret : ReturnVO])
           /\ Adds(t_return, t_return', key)
           /\ ReturnsAdded(vo, t_return, t_return')
<1>1. /\ At(t, "commitProject") /\ request[t].sid \in Session /\ vo \in ProjectVO
      /\ Whole(vo, bucket, accepted) /\ request[t].member \in Member
      /\ key \in 1..nextKey - 1
      /\ \A i \in DOMAIN t_project : t_project[i].id # key
  BY DEF commitProject, LaunchInv, HandlersHold, Holds, At
<1>2. key \in Key
  BY <1>1, BoundAssumption DEF LaunchInv, TypeOK, Key
<1>3. /\ vo.returnVOList # << >>
      /\ t_project' = Append(t_project, [id |-> key, memberid |-> request[t].member,
                                         draft |-> vo.id])
      /\ t_project_type' = Append(t_project_type, [projectid |-> key])
      /\ t_project_item_pic' = t_project_item_pic \o Pictures(vo, key)
      /\ t_return' = t_return \o Returns(vo, key)
  BY DEF commitProject, Complete
<1>4. /\ Unknown(t_project_type, key)
      /\ Unknown(t_project_item_pic, key)
      /\ Unknown(t_return, key)
  BY <1>1 DEF LaunchInv, KeysOfProjects, ProjectKeys, Unknown
<1>5. /\ t_project_type \in Seq([projectid : Key])
      /\ t_project_item_pic \in Seq([projectid : Key, picture : Picture])
      /\ t_return \in Seq([projectid : Key, ret : ReturnVO])
  BY DEF LaunchInv, TypeOK
<1>6. /\ t_project_type' \in Seq([projectid : Key])
      /\ Adds(t_project_type, t_project_type', key)
  <2> DEFINE row == [projectid |-> key]
  <2>1. row \in [projectid : Key] /\ row.projectid = key
    BY <1>2
  <2>2. t_project_type' = Append(t_project_type, row)
    BY <1>3
  <2> HIDE DEF row
  <2> QED BY <1>5, <2>1, <2>2, AppendAdds
<1>7. /\ t_project_item_pic' \in Seq([projectid : Key, picture : Picture])
      /\ Adds(t_project_item_pic, t_project_item_pic', key)
      /\ \A i \in DOMAIN t_project_item_pic' \ DOMAIN t_project_item_pic :
           \E k \in 1..vo.pictures : t_project_item_pic'[i].picture = <<vo.id, k>>
  <2> DEFINE rows == Pictures(vo, key)
  <2>1. vo.pictures > 0
    BY <1>1 DEF Whole, PicturesIn
  <2>2. /\ rows \in Seq([projectid : Key, picture : Picture]) /\ rows # << >>
        /\ DOMAIN rows = 1..vo.pictures
        /\ \A i \in 1..vo.pictures : rows[i].projectid = key /\ rows[i].picture = <<vo.id, i>>
    BY ONLY <1>1, <1>2, <2>1, PicturesTyped
  <2> HIDE DEF rows
  <2>3. \A i \in DOMAIN rows : rows[i].projectid = key
    BY <2>2
  <2>4. t_project_item_pic' = t_project_item_pic \o rows
    BY <1>3 DEF rows
  <2>5. /\ t_project_item_pic \o rows \in Seq([projectid : Key, picture : Picture])
        /\ Adds(t_project_item_pic, t_project_item_pic \o rows, key)
        /\ \A i \in DOMAIN (t_project_item_pic \o rows) \ DOMAIN t_project_item_pic :
             \E j \in DOMAIN rows : (t_project_item_pic \o rows)[i] = rows[j]
    <3> DEFINE S == [projectid : Key, picture : Picture]
    <3>1. t_project_item_pic \in Seq(S) /\ rows \in Seq(S)
      BY <1>5, <2>2
    <3>2. rows # << >>
      BY <2>2
    <3> HIDE DEF S
    <3>3. /\ t_project_item_pic \o rows \in Seq(S) /\ Adds(t_project_item_pic, t_project_item_pic \o rows, key)
          /\ \A i \in DOMAIN (t_project_item_pic \o rows) \ DOMAIN t_project_item_pic :
               \E j \in DOMAIN rows : (t_project_item_pic \o rows)[i] = rows[j]
      BY ONLY <2>3, <3>1, <3>2, ConcatAdds
    <3> QED BY <3>3 DEF S
  <2> QED BY <2>2, <2>4, <2>5
<1>8. /\ t_return' \in Seq([projectid : Key, ret : ReturnVO])
      /\ Adds(t_return, t_return', key)
      /\ \A i \in DOMAIN t_return' \ DOMAIN t_return :
           \E k \in 1..Len(vo.returnVOList) : t_return'[i].ret = vo.returnVOList[k]
  <2> DEFINE rows == Returns(vo, key)
  <2>1. DOMAIN vo.returnVOList = 1..Len(vo.returnVOList)
    BY <1>1, DraftTyped
  <2>2. /\ rows \in Seq([projectid : Key, ret : ReturnVO]) /\ rows # << >>
        /\ DOMAIN rows = DOMAIN vo.returnVOList
        /\ \A i \in DOMAIN vo.returnVOList :
             rows[i].projectid = key /\ rows[i].ret = vo.returnVOList[i]
    BY ONLY <1>1, <1>2, <1>3, ReturnsTyped
  <2> HIDE DEF rows
  <2>3. \A i \in DOMAIN rows : rows[i].projectid = key
    BY <2>2
  <2>4. t_return' = t_return \o rows
    BY <1>3 DEF rows
  <2>5. /\ t_return \o rows \in Seq([projectid : Key, ret : ReturnVO])
        /\ Adds(t_return, t_return \o rows, key)
        /\ \A i \in DOMAIN (t_return \o rows) \ DOMAIN t_return :
             \E j \in DOMAIN rows : (t_return \o rows)[i] = rows[j]
    <3> DEFINE S == [projectid : Key, ret : ReturnVO]
    <3>1. t_return \in Seq(S) /\ rows \in Seq(S)
      BY <1>5, <2>2
    <3>2. rows # << >>
      BY <2>2
    <3> HIDE DEF S
    <3>3. /\ t_return \o rows \in Seq(S) /\ Adds(t_return, t_return \o rows, key)
          /\ \A i \in DOMAIN (t_return \o rows) \ DOMAIN t_return :
               \E j \in DOMAIN rows : (t_return \o rows)[i] = rows[j]
      BY ONLY <2>3, <3>1, <3>2, ConcatAdds
    <3> QED BY <3>3 DEF S
  <2>6. ASSUME NEW i \in DOMAIN t_return' \ DOMAIN t_return
        PROVE  \E k \in 1..Len(vo.returnVOList) : t_return'[i].ret = vo.returnVOList[k]
    <3>1. PICK j \in DOMAIN rows : t_return'[i] = rows[j]
      BY <2>4, <2>5
    <3>2. j \in 1..Len(vo.returnVOList) /\ rows[j].ret = vo.returnVOList[j]
      BY <2>1, <2>2
    <3> QED BY <3>1, <3>2
  <2> QED BY <2>4, <2>5, <2>6
<1> QED BY <1>1, <1>2, <1>3, <1>4, <1>6, <1>7, <1>8 DEF PicturesAdded, ReturnsAdded

\* The row of t_project: the old ones and a new one.
LEMMA CommitRow ==
    ASSUME LaunchInv, NEW t \in Thread, commitProject(t),
           NEW vo, vo = request[t].projectVO, NEW key, key = request[t].key
    PROVE  /\ t_project' \in Seq([id : Key, memberid : Member, draft : Draft])
           /\ \E n : IsNewRow(n, key, request[t].member, vo.id)
           /\ \A i \in DOMAIN t_project : t_project'[i] = t_project[i]
<1> DEFINE row == [id |-> key, memberid |-> request[t].member, draft |-> vo.id]
           S == [id : Key, memberid : Member, draft : Draft]
<1>1. /\ vo \in ProjectVO /\ key \in Key /\ request[t].member \in Member
      /\ t_project' = Append(t_project, row)
  BY CommitEffect
<1>2. row \in S /\ row.id = key /\ row.memberid = request[t].member /\ row.draft = vo.id
  BY <1>1, DraftTyped
<1>3. t_project \in Seq(S)
  BY DEF LaunchInv, TypeOK
<1> HIDE DEF row, S
<1>4. /\ Append(t_project, row) \in Seq(S)
      /\ DOMAIN Append(t_project, row) = DOMAIN t_project \cup {Len(t_project) + 1}
      /\ Len(t_project) + 1 \notin DOMAIN t_project
      /\ \A i \in DOMAIN t_project : Append(t_project, row)[i] = t_project[i]
      /\ Append(t_project, row)[Len(t_project) + 1] = row
  BY <1>2, <1>3, Appended
<1> QED BY <1>1, <1>2, <1>4 DEF S, IsNewRow

LEMMA CommitProjectKeeps ==
    ASSUME LaunchInv, NEW t \in Thread, commitProject(t) PROVE LaunchInv'
<1> DEFINE vo == request[t].projectVO
           key == request[t].key
           member == request[t].member
<1> vo = request[t].projectVO /\ key = request[t].key /\ member = request[t].member
  OBVIOUS
<1> HIDE DEF vo, key, member
<1>1. /\ vo \in ProjectVO /\ key \in Key /\ key \in 1..nextKey - 1
      /\ request[t].sid \in Session /\ member \in Member
      /\ Whole(vo, bucket, accepted)
      /\ \A i \in DOMAIN t_project : t_project[i].id # key
      /\ Unknown(t_project_type, key)
      /\ Unknown(t_project_item_pic, key)
      /\ Unknown(t_return, key)
  BY CommitEffect
<1>2. /\ t_project_type' \in Seq([projectid : Key])
      /\ t_project_item_pic' \in Seq([projectid : Key, picture : Picture])
      /\ t_return' \in Seq([projectid : Key, ret : ReturnVO])
      /\ t_project' \in Seq([id : Key, memberid : Member, draft : Draft])
  BY CommitEffect, CommitRow
<1>3. /\ Adds(t_project_type, t_project_type', key)
      /\ Adds(t_project_item_pic, t_project_item_pic', key)
      /\ Adds(t_return, t_return', key)
  BY CommitEffect
<1>4. /\ PicturesAdded(vo, t_project_item_pic, t_project_item_pic')
      /\ ReturnsAdded(vo, t_return, t_return')
  BY CommitEffect
<1>5. \E n : IsNewRow(n, key, member, vo.id)
  BY CommitRow
<1> PICK new : IsNewRow(new, key, member, vo.id)
  BY <1>5
<1>5a. /\ DOMAIN t_project' = DOMAIN t_project \cup {new}
       /\ new \notin DOMAIN t_project
       /\ t_project'[new].id = key
       /\ t_project'[new].memberid = member
       /\ t_project'[new].draft = vo.id
  BY DEF IsNewRow
<1>6. \A i \in DOMAIN t_project : t_project'[i] = t_project[i]
  BY CommitRow
<1>7. /\ At(t, "commitProject") /\ request' = [request EXCEPT ![t].pc = "removeDraft"]
      /\ UNCHANGED <<session, forms, accepted, bucket, nextKey>>
  BY DEF commitProject, Goto
<1>8. /\ t_member_launch_info' \in Seq([memberid : Member, intro : Description])
      /\ t_member_confirm_info' \in Seq([memberid : Member])
  <2>1. vo.intro \in Description
    BY <1>1 DEF ProjectVO
  <2>2. /\ t_member_launch_info \in Seq([memberid : Member, intro : Description])
        /\ t_member_confirm_info \in Seq([memberid : Member])
    BY DEF LaunchInv, TypeOK
  <2>3. /\ t_member_launch_info' =
             Append(t_member_launch_info, [memberid |-> member, intro |-> vo.intro])
        /\ t_member_confirm_info' = Append(t_member_confirm_info, [memberid |-> member])
    BY DEF commitProject
  <2> QED BY <1>1, <2>1, <2>2, <2>3, AppendProperties
<1>9. /\ request' \in [Thread -> RequestRecord] /\ OthersKept(t)
      /\ request'[t] = [request[t] EXCEPT !.pc = "removeDraft"]
      /\ request'[t].pc = "removeDraft"
      /\ request'[t].sid = request[t].sid /\ request'[t].projectVO = vo
  <2>1. request \in [Thread -> RequestRecord] /\ request[t] \in RequestRecord
    BY DEF LaunchInv, TypeOK
  <2>2. /\ request'[t] = [request[t] EXCEPT !.pc = "removeDraft"]
        /\ request' = [request EXCEPT ![t] = request'[t]]
        /\ OthersKept(t)
    BY <1>7, <2>1 DEF OthersKept
  <2>3. request'[t] \in RequestRecord
    BY <2>1, <2>2 DEF RequestRecord, PC
  <2> QED BY <2>1, <2>2, <2>3 DEF RequestRecord
<1>10. TypeOK'
  BY <1>2, <1>7, <1>8, <1>9 DEF LaunchInv, TypeOK
<1>11. Grows
  BY <1>7 DEF Grows, LaunchInv, TypeOK
<1>12. SessionsWhole'
  BY <1>7, <1>10, <1>11, SessionsKept
<1>13. Holds(t)'
  BY <1>1, <1>9 DEF Holds, At
<1>14. forms'.ret \in Nat /\ nextKey' \in Nat
  BY <1>10 DEF TypeOK
<1>15. HandlersHold'
  <2>1. \A u \in Thread \ {t} : At(u, "commitReturn") =>
            accepted'[LastReturn(request[u].projectVO)] = 0
    BY <1>7 DEF LaunchInv, HandlersHold, Holds, At
  <2>2. ASSUME NEW u \in Thread \ {t}, At(u, "commitProject"), NEW i \in DOMAIN t_project'
        PROVE  t_project'[i].id # request[u].key
    <3>1. request[u].key # key
      BY <1>7, <2>2 DEF LaunchInv, KeysApart
    <3>2. \A j \in DOMAIN t_project : t_project[j].id # request[u].key
      BY <2>2 DEF LaunchInv, HandlersHold, Holds
    <3> QED BY <1>5a, <1>6, <2>2, <3>1, <3>2
  <2> QED BY <1>9, <1>11, <1>13, <1>14, <2>1, <2>2, HandlersKept
<1>16. FormsApart' /\ KeysApart' /\ KeysLeft'
  BY <1>7, <1>9, ApartKept, KeysLeftKept
<1>17. AcceptedForms'
  BY <1>7 DEF LaunchInv, AcceptedForms
<1>18. KeysOfProjects'
  <2>1. /\ \A i \in DOMAIN t_project' : t_project'[i].id < nextKey'
        /\ \A i, j \in DOMAIN t_project' : t_project'[i].id = t_project'[j].id => i = j
    <3>1. key < nextKey
      BY <1>1 DEF LaunchInv, TypeOK
    <3> QED BY <1>1, <1>5a, <1>6, <1>7, <3>1 DEF LaunchInv, KeysOfProjects
  <2>2. ProjectKeys' = ProjectKeys \cup {key}
    BY <1>5a, <1>6 DEF ProjectKeys
  <2>3. /\ \A i \in DOMAIN t_project_type' : t_project_type'[i].projectid \in ProjectKeys'
        /\ \A i \in DOMAIN t_project_item_pic' :
             t_project_item_pic'[i].projectid \in ProjectKeys'
        /\ \A i \in DOMAIN t_return' : t_return'[i].projectid \in ProjectKeys'
    BY <1>3, <2>2 DEF Adds, LaunchInv, KeysOfProjects
  <2> QED BY <2>1, <2>3 DEF KeysOfProjects
<1>19. PicturesUploaded'
  <2> SUFFICES ASSUME NEW i \in DOMAIN t_project'
               PROVE  LET pictures == Of(t_project_item_pic', t_project'[i].id)
                      IN /\ <<t_project'[i].draft, 0>> \in bucket'
                         /\ DOMAIN pictures # {}
                         /\ \A a \in DOMAIN pictures : pictures[a].picture \in bucket'
    BY DEF PicturesUploaded
  <2>1. CASE i \in DOMAIN t_project
    <3>1. Of(t_project_item_pic', t_project[i].id) = Of(t_project_item_pic, t_project[i].id)
      BY <1>1, <1>3, <2>1, OfOthers
    <3> QED BY <1>6, <1>7, <2>1, <3>1 DEF LaunchInv, PicturesUploaded
  <2>2. CASE i = new
    <3> DEFINE pictures == Of(t_project_item_pic', key)
    <3>1. /\ DOMAIN pictures = DOMAIN t_project_item_pic' \ DOMAIN t_project_item_pic
          /\ DOMAIN pictures # {}
          /\ \A a \in DOMAIN pictures : pictures[a] = t_project_item_pic'[a]
      <4> DEFINE more == t_project_item_pic'
      <4>1. Adds(t_project_item_pic, more, key) /\ Unknown(t_project_item_pic, key)
        BY <1>1, <1>3
      <4> HIDE DEF more
      <4>2. DOMAIN Of(more, key) = DOMAIN more \ DOMAIN t_project_item_pic
        BY ONLY <4>1, OfNew
      <4>3. DOMAIN Of(more, key) # {}
        BY ONLY <4>1, OfNew
      <4>4. \A a \in DOMAIN Of(more, key) : Of(more, key)[a] = more[a]
        BY DEF Of
      <4> QED BY <4>2, <4>3, <4>4 DEF more
    <3>2. \A k \in 0..vo.pictures : <<vo.id, k>> \in bucket
      BY <1>1 DEF Whole, PicturesIn
    <3>3. 0 \in 0..vo.pictures /\ 1..vo.pictures \subseteq 0..vo.pictures
      BY <1>1, DraftTyped
    <3> HIDE DEF pictures
    <3>4. <<vo.id, 0>> \in bucket /\ \A a \in DOMAIN pictures : pictures[a].picture \in bucket
      BY <1>4, <3>1, <3>2, <3>3 DEF PicturesAdded
    <3> QED BY <1>5a, <1>7, <2>2, <3>1, <3>4 DEF pictures
  <2> QED BY <1>5a, <2>1, <2>2
<1>20. ReturnsOfDraftRead'
  <2> SUFFICES ASSUME NEW i \in DOMAIN t_project', NEW j \in DOMAIN t_return',
                      t_return'[j].projectid = t_project'[i].id
               PROVE  accepted'[t_return'[j].ret] = t_project'[i].draft
    BY DEF ReturnsOfDraftRead
  <2>1. CASE i \in DOMAIN t_project
    <3>1. t_return'[j].projectid # key
      BY <1>1, <1>6, <2>1
    <3>2. j \in DOMAIN t_return /\ t_return'[j] = t_return[j]
      BY <1>3, <3>1 DEF Adds
    <3> QED BY <1>6, <1>7, <2>1, <3>2 DEF LaunchInv, ReturnsOfDraftRead
  <2>2. CASE i = new
    <3>1. t_return'[j].projectid = key
      BY <1>5a, <2>2
    <3>2. j \in DOMAIN t_return' \ DOMAIN t_return
      BY <1>1, <1>3, <3>1 DEF Adds, Unknown
    <3>3. PICK k \in 1..Len(vo.returnVOList) : t_return'[j].ret = vo.returnVOList[k]
      BY <1>4, <3>2 DEF ReturnsAdded
    <3>4. accepted[vo.returnVOList[k]] = vo.id
      BY <1>1 DEF Whole, AcceptedUpTo
    <3> QED BY <1>5a, <1>7, <2>2, <3>3, <3>4
  <2> QED BY <1>5a, <2>1, <2>2
<1> QED BY <1>10, <1>12, <1>15, <1>16, <1>17, <1>18, <1>19, <1>20 DEF LaunchInv

-----------------------------------------------------------------------------
(***************************************************************************)
(* The invariant of the specification.                                     *)
(***************************************************************************)
LEMMA StepKeeps == ASSUME LaunchInv, [Next]_vars PROVE LaunchInv'
<1>1. CASE UNCHANGED vars
  <2>1. session' \in [Session -> SessionRecord]
    BY <1>1 DEF LaunchInv, TypeOK, vars
  <2> QED BY <1>1, <2>1, SessionStep DEF vars
<1>2. ASSUME NEW s \in Session, NEW m \in Member, login(s, m) PROVE LaunchInv'
  BY <1>2, LoginKeeps
<1>3. ASSUME NEW s \in Session, expire(s) PROVE LaunchInv'
  BY <1>3, ExpireKeeps
<1>4. ASSUME NEW t \in Thread, Receive(t) PROVE LaunchInv'
  BY <1>4, SaveProjectKeeps, SaveReturnKeeps, SaveConfirmKeeps DEF Receive
<1>5. ASSUME NEW t \in Thread, Handle(t) PROVE LaunchInv'
  <2>1. CASE upload(t)         BY <2>1, UploadKeeps
  <2>2. CASE uploadFails(t)    BY <2>2, StopKeeps DEF uploadFails
  <2>3. CASE commitDraft(t)    BY <2>3, CommitDraftKeeps
  <2>4. CASE commitReturn(t)   BY <2>4, CommitReturnKeeps
  <2>5. CASE insertProject(t)  BY <2>5, InsertProjectKeeps
  <2>6. CASE commitProject(t)  BY <2>6, CommitProjectKeeps
  <2>7. CASE rollbackProject(t) BY <2>7, StopKeeps DEF rollbackProject
  <2>8. CASE removeDraft(t)    BY <2>8, RemoveDraftKeeps
  <2> QED BY <1>5, <2>1, <2>2, <2>3, <2>4, <2>5, <2>6, <2>7, <2>8 DEF Handle
<1>6. ASSUME NEW t \in Thread, crash(t) PROVE LaunchInv'
  BY <1>6, StopKeeps DEF crash
<1> QED BY <1>1, <1>2, <1>3, <1>4, <1>5, <1>6 DEF Next

\* Whatever the requests, the tabs and the faults do, a draft in a session is
\* whole and what a handler holds is what it needs to publish.
THEOREM LaunchInvariant == Spec => []LaunchInv
BY InitInv, StepKeeps, PTL DEF Spec

\* Every variable keeps its type: no table gets a row without its key, and the
\* key of t_project stays within its bound.
THEOREM TypeCorrect == Spec => []TypeOK
<1>1. LaunchInv => TypeOK
  BY DEF LaunchInv
<1> QED BY LaunchInvariant, <1>1, PTL

\* The detail page never shows a picture that is not in the bucket, although
\* each upload of saveProjectBasicInfo may have failed.
THEOREM PicturesAlwaysUploaded == Spec => []PicturesUploaded
<1>1. LaunchInv => PicturesUploaded
  BY DEF LaunchInv
<1> QED BY LaunchInvariant, <1>1, PTL

\* However the requests of a session overlap, a return is published with the
\* draft that saveReturn read from the session to put it into, and with no
\* other.  Which draft the member had in mind the form does not say.
THEOREM ReturnsStayWithDraftRead == Spec => []ReturnsOfDraftRead
<1>1. LaunchInv => ReturnsOfDraftRead
  BY DEF LaunchInv
<1> QED BY LaunchInvariant, <1>1, PTL

-----------------------------------------------------------------------------
(***************************************************************************)
(* The refinement of Catalogue.  Only the commit of saveProject changes    *)
(* what readers see, and it adds one project with all its rows.            *)
(***************************************************************************)
ProjectAt(i) ==
    [id |-> t_project[i].id, member |-> t_project[i].memberid,
     types |-> Of(t_project_type, t_project[i].id),
     pictures |-> Of(t_project_item_pic, t_project[i].id),
     returns |-> Of(t_return, t_project[i].id)]

LEMMA InitPublishes == Init => C!Init
BY DEF Init, C!Init, Projects

LEMMA TablesUnchanged == ASSUME UNCHANGED tables PROVE Projects' = Projects
BY DEF tables, Projects

LEMMA CommitPublishes ==
    ASSUME LaunchInv, NEW t \in Thread, commitProject(t) PROVE C!Publish
<1> DEFINE vo == request[t].projectVO
           key == request[t].key
           member == request[t].member
<1> vo = request[t].projectVO /\ key = request[t].key /\ member = request[t].member
  OBVIOUS
<1> HIDE DEF vo, key, member
<1>1. /\ key \in Key /\ member \in Member
      /\ \A i \in DOMAIN t_project : t_project[i].id # key
      /\ Unknown(t_project_type, key)
      /\ Unknown(t_project_item_pic, key)
      /\ Unknown(t_return, key)
      /\ Adds(t_project_type, t_project_type', key)
      /\ Adds(t_project_item_pic, t_project_item_pic', key)
      /\ Adds(t_return, t_return', key)
  BY CommitEffect
<1>2. \E n : IsNewRow(n, key, member, vo.id)
  BY CommitRow
<1> PICK new : IsNewRow(new, key, member, vo.id)
  BY <1>2
<1>3. /\ DOMAIN t_project' = DOMAIN t_project \cup {new}
      /\ t_project'[new].id = key /\ t_project'[new].memberid = member
      /\ \A i \in DOMAIN t_project : t_project'[i] = t_project[i]
  BY CommitRow DEF IsNewRow
<1> DEFINE p == [id |-> key, member |-> member,
                 types |-> Of(t_project_type', key),
                 pictures |-> Of(t_project_item_pic', key),
                 returns |-> Of(t_return', key)]
           q(i) == [id |-> t_project'[i].id, member |-> t_project'[i].memberid,
                    types |-> Of(t_project_type', t_project'[i].id),
                    pictures |-> Of(t_project_item_pic', t_project'[i].id),
                    returns |-> Of(t_return', t_project'[i].id)]
<1>4. /\ Projects = {ProjectAt(i) : i \in DOMAIN t_project}
      /\ Projects' = {q(i) : i \in DOMAIN t_project'}
  BY DEF Projects, ProjectAt
<1>5. q(new) = p
  BY <1>3
<1>6. ASSUME NEW i \in DOMAIN t_project PROVE q(i) = ProjectAt(i)
  <2>1. t_project'[i] = t_project[i] /\ t_project[i].id # key
    BY <1>1, <1>3
  <2>2. /\ Of(t_project_type', t_project[i].id) = Of(t_project_type, t_project[i].id)
        /\ Of(t_project_item_pic', t_project[i].id) = Of(t_project_item_pic, t_project[i].id)
        /\ Of(t_return', t_project[i].id) = Of(t_return, t_project[i].id)
    BY <1>1, <2>1, OfOthers
  <2> QED BY <2>1, <2>2 DEF ProjectAt
<1>7. /\ p.id = key /\ p.member = member
      /\ DOMAIN p.types # {} /\ DOMAIN p.pictures # {} /\ DOMAIN p.returns # {}
  BY <1>1, OfNew, ZenonT(60)
<1>8. \A x \in Projects : x.id # key
  BY <1>1, <1>4 DEF ProjectAt
<1> HIDE DEF p, q
<1>9. Projects' = Projects \cup {p}
  BY <1>3, <1>4, <1>5, <1>6
<1>10. p \in Projects' \ Projects
  BY <1>7, <1>8, <1>9
<1> QED BY <1>1, <1>7, <1>8, <1>9, <1>10 DEF C!Publish

LEMMA StepPublishes == ASSUME LaunchInv, [Next]_vars PROVE [C!Publish]_Projects
<1>1. CASE \E t \in Thread : commitProject(t)
  BY <1>1, CommitPublishes
<1>2. CASE UNCHANGED tables
  BY <1>2, TablesUnchanged
<1>3. UNCHANGED tables \/ \E t \in Thread : commitProject(t)
  BY DEF Next, vars, login, expire, Receive, saveProjectBasicInfo, saveReturn, saveConfirm,
         Handle, upload, uploadFails, commitDraft, commitReturn, insertProject,
         rollbackProject, removeDraft, crash
<1> QED BY <1>1, <1>2, <1>3

\* saveProject implements Catalogue: the inserts into the tables appear as one
\* step that adds one project with a type, a picture and a return, and no
\* later step changes or removes a project.
THEOREM ImplementsCatalogue == Spec => PublishesWhole
BY InitPublishes, StepPublishes, LaunchInvariant, PTL
   DEF Spec, PublishesWhole, C!Spec

-----------------------------------------------------------------------------
(***************************************************************************)
(* Sessions whose requests do not overlap.  saveReturn and saveProject     *)
(* read the draft when they start and write it when they end, so what they *)
(* promise of a draft holds only while a session sends one request at a    *)
(* time; other sessions may do what they like meanwhile.                   *)
(***************************************************************************)
SerialSessions ==
    \A t, u \in Thread :
        ~At(t, "idle") /\ ~At(u, "idle") /\ request[t].sid = request[u].sid => t = u

\* Where a draft is: with the form that is still uploading, or in a session.
InForm(t) == request[t].pc \in {"upload", "commitDraft"}
Running(t) == request[t].pc \in {"commitReturn", "insertProject", "commitProject", "removeDraft"}
Holder(s, d) == session[s].project # None /\ session[s].project.id = d
Elements(list) == {list[i] : i \in DOMAIN list}

\* Drafts are numbered in the order of their forms.
DraftsNumbered ==
    /\ \A s \in Session : session[s].project # None => session[s].project.id <= forms.draft
    /\ \A r \in ReturnVO : accepted[r] <= forms.draft
    /\ \A i \in DOMAIN t_project : t_project[i].draft <= forms.draft

\* A form's draft is nobody else's yet.
Unseen(d) ==
    /\ \A c \in Session : ~Holder(c, d)
    /\ \A r \in ReturnVO : accepted[r] # d
    /\ ~Published(d)
FormAlone(t) ==
    InForm(t) =>
        /\ Unseen(request[t].projectVO.id)
        /\ \A u \in Thread \ {t} : InForm(u) =>
             request[u].projectVO.id # request[t].projectVO.id

\* A handler that read the session's draft works on the one that is still there,
\* and has all of its returns.
HasDraft(t) ==
    LET list == session[request[t].sid].project.returnVOList
    IN  /\ Running(t) => Holder(request[t].sid, request[t].projectVO.id)
        /\ request[t].pc \in {"commitReturn", "insertProject", "commitProject"} =>
             Elements(list) \subseteq Elements(request[t].projectVO.returnVOList)

Works(t) ==
    /\ ~At(t, "idle") => request[t].projectVO.id <= forms.draft
    /\ FormAlone(t)
    /\ HasDraft(t)

OneHolder == \A c, s \in Session, d \in Draft : Holder(c, d) /\ Holder(s, d) => c = s

\* A draft that was published is on its way out of its session.
PublishedIsRemoved ==
    \A s \in Session, d \in Draft :
        Holder(s, d) /\ Published(d) =>
            \E t \in Thread : At(t, "removeDraft") /\ request[t].sid = s

\* ReturnKept, with the draft as a bound variable.
InTable(r) == \E j \in DOMAIN t_return : t_return[j].ret = r
ReturnsKept ==
    \A r \in ReturnVO, d \in Draft : accepted[r] = d =>
        /\ \A s \in Session : Holder(s, d) => r \in Elements(session[s].project.returnVOList)
        /\ Published(d) => InTable(r)

SerialInv ==
    /\ DraftsNumbered
    /\ \A t \in Thread : Works(t)
    /\ OneHolder
    /\ PublishedIsRemoved
    /\ PublishedOnce
    /\ ReturnsKept

\* What the types say of the drafts.
LEMMA DraftsTyped ==
    ASSUME LaunchInv
    PROVE  /\ forms.draft \in Nat
           /\ \A s \in Session : session[s].project # None => session[s].project \in ProjectVO
           /\ \A s \in Session : \A d : Holder(s, d) => d \in Draft
           /\ \A t \in Thread : ~At(t, "idle") =>
                /\ request[t].sid \in Session
                /\ request[t].projectVO \in ProjectVO /\ request[t].projectVO.id \in Draft
           /\ \A r \in ReturnVO : accepted[r] \in 0..MaxDraft
<1>1. TypeOK /\ HandlersHold
  BY DEF LaunchInv
<1>2. \A s \in Session : session[s].project # None => session[s].project \in ProjectVO
  BY <1>1 DEF TypeOK, SessionRecord
<1>3. \A s \in Session : \A d : Holder(s, d) => d \in Draft
  BY <1>2 DEF Holder, ProjectVO
<1>4. \A t \in Thread : ~At(t, "idle") =>
          /\ request[t].sid \in Session
          /\ request[t].projectVO \in ProjectVO /\ request[t].projectVO.id \in Draft
  BY <1>1 DEF HandlersHold, Holds, ProjectVO
<1>5. forms.draft \in Nat
  BY <1>1 DEF TypeOK
<1>6. \A r \in ReturnVO : accepted[r] \in 0..MaxDraft
  BY <1>1 DEF TypeOK
<1> QED BY <1>2, <1>3, <1>4, <1>5, <1>6

\* A step of one request that leaves the drafts and the tables alone.
LEMMA QuietStep ==
    ASSUME LaunchInv, SerialInv, NEW t \in Thread, OthersKept(t),
           UNCHANGED <<session, accepted, t_project, t_return>>,
           forms'.draft \in Nat, forms.draft <= forms'.draft,
           ~At(t, "removeDraft"), Works(t)',
           \A u \in Thread \ {t} : InForm(t)' /\ InForm(u) =>
               request[u].projectVO.id # request'[t].projectVO.id
    PROVE  SerialInv'
<1>1. /\ \A u \in Thread \ {t} : request'[u] = request[u]
      /\ forms.draft \in Nat
  BY DraftsTyped DEF OthersKept
<1>2. DraftsNumbered'
  <2>1. DraftsNumbered /\ UNCHANGED <<session, accepted, t_project>>
    BY DEF SerialInv
  <2>2. ASSUME NEW n \in 0..MaxDraft, n <= forms.draft PROVE n <= forms'.draft
    BY <1>1, <2>2
  <2>3. \A i \in DOMAIN t_project : t_project[i].draft \in 0..MaxDraft
    BY RowsTyped DEF LaunchInv, Draft
  <2>4. \A s \in Session : session[s].project # None => session[s].project.id \in 0..MaxDraft
    BY DraftsTyped DEF Draft, ProjectVO
  <2> QED BY <2>1, <2>2, <2>3, <2>4, DraftsTyped DEF DraftsNumbered
<1>3. ASSUME NEW u \in Thread PROVE Works(u)'
  <2>1. CASE u = t
    BY <2>1
  <2>2. CASE u # t
    <3>1. Works(u) /\ request'[u] = request[u]
      BY <1>1, <2>2 DEF SerialInv
    <3>2. ~At(u, "idle") => request[u].projectVO.id <= forms'.draft
      BY <1>1, <3>1, DraftsTyped DEF Works, Draft
    <3>3. ASSUME NEW v \in Thread \ {u}, InForm(u), InForm(v)'
          PROVE  request'[v].projectVO.id # request[u].projectVO.id
      <4>1. CASE v = t
        BY <2>2, <3>3, <4>1
      <4>2. CASE v # t
        BY <1>1, <3>1, <3>3, <4>2 DEF Works, FormAlone, InForm
      <4> QED BY <4>1, <4>2
    <3>4. FormAlone(u)'
      <4>1. FormAlone(u) /\ UNCHANGED <<session, accepted, t_project>>
        BY <3>1 DEF Works
      <4>2. InForm(u)' => InForm(u)
        BY <3>1 DEF InForm
      <4>3. ASSUME NEW d, Unseen(d) PROVE Unseen(d)'
        BY <4>1, <4>3 DEF Unseen, Holder, Published
      <4> QED BY <3>1, <3>3, <4>1, <4>2, <4>3 DEF FormAlone, Unseen, Holder, Published
    <3>5. HasDraft(u)'
      <4>1. HasDraft(u) /\ session' = session
        BY <3>1 DEF Works
      <4> QED BY <3>1, <4>1 DEF HasDraft, Running, Holder, Elements
    <3> QED BY <3>1, <3>2, <3>4, <3>5 DEF Works, At
  <2> QED BY <2>1, <2>2
<1>4. OneHolder' /\ PublishedOnce' /\ ReturnsKept'
  BY DEF SerialInv, OneHolder, Holder, PublishedOnce, ReturnsKept, Published, InTable, Elements
<1>5. PublishedIsRemoved'
  BY <1>1 DEF SerialInv, PublishedIsRemoved, Holder, Published, At
<1> QED BY <1>2, <1>3, <1>4, <1>5 DEF SerialInv

LEMMA HasDraftStays ==
    ASSUME NEW u \in Thread, HasDraft(u), request'[u] = request[u],
           session'[request[u].sid].project = session[request[u].sid].project
    PROVE  HasDraft(u)'
<1> DEFINE p == session[request[u].sid].project
<1>1. session'[request'[u].sid].project = p
  OBVIOUS
<1>2. /\ Running(u)' <=> Running(u)
      /\ Holder(request[u].sid, request[u].projectVO.id)' <=> p # None /\ p.id = request[u].projectVO.id
      /\ Holder(request[u].sid, request[u].projectVO.id) <=> p # None /\ p.id = request[u].projectVO.id
  BY DEF Running, Holder
<1>3. /\ HasDraft(u) <=>
          /\ Running(u) => Holder(request[u].sid, request[u].projectVO.id)
          /\ request[u].pc \in {"commitReturn", "insertProject", "commitProject"} =>
               Elements(p.returnVOList) \subseteq Elements(request[u].projectVO.returnVOList)
      /\ HasDraft(u)' <=>
          /\ Running(u)' => Holder(request[u].sid, request[u].projectVO.id)'
          /\ request[u].pc \in {"commitReturn", "insertProject", "commitProject"} =>
               Elements(p.returnVOList) \subseteq Elements(request[u].projectVO.returnVOList)
  BY <1>1 DEF HasDraft, Holder, Running, Elements
<1> QED BY <1>2, <1>3

\* The drafts of the forms that are uploading are not the draft t works on.
LEMMA FormsElsewhere ==
    ASSUME LaunchInv, SerialInv, NEW t \in Thread, ~At(t, "idle"),
           NEW u \in Thread \ {t}, InForm(u)
    PROVE  request[u].projectVO.id # request[t].projectVO.id
<1>1. FormAlone(u) /\ FormAlone(t) /\ HasDraft(t)
  BY DEF SerialInv, Works
<1>2. request[t].sid \in Session /\ request[t].pc \in PC
  BY DraftsTyped, RequestTyped DEF LaunchInv
<1>3. CASE InForm(t)
  BY <1>1, <1>3 DEF FormAlone
<1>4. CASE Running(t)
  BY <1>1, <1>2, <1>4 DEF FormAlone, Unseen, HasDraft
<1> QED BY <1>2, <1>3, <1>4 DEF PC, InForm, Running, At

\* The draft a request works on is not published before its commit.
LEMMA NotPublishedYet ==
    ASSUME LaunchInv, SerialInv, SerialSessions, NEW t \in Thread,
           ~At(t, "idle"), ~At(t, "removeDraft")
    PROVE  ~Published(request[t].projectVO.id)
<1>1. FormAlone(t) /\ HasDraft(t)
  BY DEF SerialInv, Works
<1>2. request[t].sid \in Session /\ request[t].pc \in PC /\ request[t].projectVO.id \in Draft
  BY DraftsTyped, RequestTyped DEF LaunchInv
<1>3. CASE InForm(t)
  BY <1>1, <1>3 DEF FormAlone, Unseen
<1>4. CASE Running(t)
  <2>1. Holder(request[t].sid, request[t].projectVO.id)
    BY <1>1, <1>4 DEF HasDraft
  <2>2. ASSUME NEW u \in Thread, At(u, "removeDraft"), request[u].sid = request[t].sid
        PROVE  FALSE
    BY <2>2 DEF SerialSessions, At
  <2> QED BY <1>2, <2>1, <2>2 DEF SerialInv, PublishedIsRemoved
<1> QED BY <1>2, <1>3, <1>4 DEF PC, InForm, Running, At

\* A request ends and writes its draft into its session, or removes it.
LEMMA EndWorks ==
    ASSUME LaunchInv, SerialInv, SerialSessions, NEW t \in Thread, ~At(t, "idle"), End(t),
           UNCHANGED <<forms, t_project, t_return>>,
           NEW vo, vo = request[t].projectVO, NEW sid, sid = request[t].sid,
           \A c \in Session \ {sid} : session'[c] = session[c],
           \/ session'[sid].project = None
           \/ session'[sid].project = vo /\ ~At(t, "removeDraft"),
           \A r \in ReturnVO :
               \/ accepted'[r] = accepted[r]
               \/ accepted'[r] = vo.id /\ At(t, "commitReturn") /\ r \in Elements(vo.returnVOList)
    PROVE  SerialInv'
<1>1. /\ sid \in Session /\ vo \in ProjectVO /\ vo.id \in Draft
      /\ request[t].pc \in PC
  BY DraftsTyped, RequestTyped DEF LaunchInv
<1>2. /\ \A u \in Thread \ {t} : request'[u] = request[u]
      /\ request'[t] = Idle
  BY DEF End, LaunchInv, TypeOK
<1>3. /\ vo.id <= forms.draft /\ FormAlone(t) /\ HasDraft(t)
      /\ DraftsNumbered /\ OneHolder /\ PublishedIsRemoved /\ PublishedOnce /\ ReturnsKept
  BY DEF SerialInv, Works
<1>4. InForm(t) \/ Running(t)
  BY <1>1 DEF PC, InForm, Running, At
<1>5. /\ \A c \in Session \ {sid} : \A d : Holder(c, d)' <=> Holder(c, d)
      /\ \A d : Holder(sid, d)' => d = vo.id /\ session'[sid].project = vo /\ ~At(t, "removeDraft")
  BY <1>1 DEF Holder
<1>6. \A d : Published(d)' <=> Published(d)
  BY DEF Published
<1>7. \A u \in Thread \ {t} : ~At(u, "idle") => request[u].sid # sid
  BY DEF SerialSessions
<1>8. DraftsNumbered'
  <2>1. \A s \in Session : session'[s].project # None =>
            session'[s].project.id <= forms.draft
    BY <1>1, <1>3 DEF DraftsNumbered
  <2>2. \A r \in ReturnVO : accepted'[r] <= forms.draft
    BY <1>3 DEF DraftsNumbered
  <2> QED BY <1>3, <2>1, <2>2 DEF DraftsNumbered
<1>9. ASSUME NEW c \in Session \ {sid}, Holder(c, vo.id) PROVE FALSE
  <2>1. CASE InForm(t)
    BY <1>3, <1>9, <2>1 DEF FormAlone, Unseen
  <2>2. CASE Running(t)
    BY <1>1, <1>3, <1>9, <2>2 DEF HasDraft, OneHolder
  <2> QED BY <1>4, <2>1, <2>2
<1>10. ASSUME NEW u \in Thread PROVE Works(u)'
  <2>1. CASE u = t
    BY <1>2, <2>1, IdleTyped DEF Works, FormAlone, HasDraft, InForm, Running, At
  <2>2. CASE u # t
    <3>1. Works(u) /\ request'[u] = request[u] /\ forms' = forms
      BY <1>2, <2>2 DEF SerialInv
    <3>2. FormAlone(u)'
      <4>1. SUFFICES ASSUME InForm(u), NEW d, d = request[u].projectVO.id
                     PROVE  /\ Unseen(d)'
                            /\ \A v \in Thread \ {u} : InForm(v)' => request'[v].projectVO.id # d
        BY <3>1 DEF FormAlone, InForm
      <4>2. d # vo.id
        BY <2>2, <4>1, FormsElsewhere
      <4>3. Unseen(d)
        BY <3>1, <4>1 DEF Works, FormAlone
      <4>4. Unseen(d)'
        <5>1. \A c \in Session : ~Holder(c, d)'
          BY <1>5, <4>2, <4>3 DEF Unseen
        <5>2. \A r \in ReturnVO : accepted'[r] # d
          BY <4>2, <4>3 DEF Unseen
        <5> QED BY <1>6, <4>3, <5>1, <5>2 DEF Unseen
      <4>5. ASSUME NEW v \in Thread \ {u}, InForm(v)' PROVE request'[v].projectVO.id # d
        <5>1. v # t
          BY <1>2, <4>5, IdleTyped DEF InForm
        <5>2. request'[v] = request[v] /\ InForm(v)
          BY <1>2, <4>5, <5>1 DEF InForm
        <5> QED BY <3>1, <4>1, <4>5, <5>2 DEF Works, FormAlone
      <4> QED BY <4>4, <4>5
    <3>3. HasDraft(u)'
      <4>1. CASE Running(u)
        <5>1. ~At(u, "idle")
          BY <4>1 DEF Running, At
        <5>2. request[u].sid \in Session /\ request[u].sid # sid
          BY <1>7, <2>2, <5>1, DraftsTyped
        <5>3. session'[request[u].sid] = session[request[u].sid]
          BY <5>2
        <5> QED BY <3>1, <5>3, HasDraftStays DEF Works
      <4>2. CASE ~Running(u)
        BY <3>1, <4>2 DEF HasDraft, Running
      <4> QED BY <4>1, <4>2
    <3> QED BY <3>1, <3>2, <3>3 DEF Works, At
  <2> QED BY <2>1, <2>2
<1>11. OneHolder'
  BY <1>3, <1>5, <1>9 DEF OneHolder
<1>12. PublishedIsRemoved'
  <2> SUFFICES ASSUME NEW s \in Session, NEW d \in Draft, Holder(s, d)', Published(d)
               PROVE  \E u \in Thread : At(u, "removeDraft")' /\ request'[u].sid = s
    BY <1>6 DEF PublishedIsRemoved
  <2>1. s # sid
    BY <1>5, NotPublishedYet
  <2>2. PICK u \in Thread : At(u, "removeDraft") /\ request[u].sid = s
    BY <1>3, <1>5, <2>1 DEF PublishedIsRemoved
  <2>3. u # t
    BY <2>1, <2>2
  <2> QED BY <1>2, <2>2, <2>3 DEF At
<1>13. PublishedOnce'
  BY <1>3 DEF PublishedOnce
<1>14. ReturnsKept'
  <2> SUFFICES ASSUME NEW r \in ReturnVO, NEW d \in Draft, accepted'[r] = d
               PROVE  /\ \A s \in Session : Holder(s, d)' =>
                            r \in Elements(session'[s].project.returnVOList)
                      /\ Published(d) => InTable(r)
    BY <1>6 DEF ReturnsKept, InTable, Elements
  <2>1. CASE accepted'[r] = accepted[r]
    <3>1. Published(d) => InTable(r)
      BY <1>3, <2>1 DEF ReturnsKept
    <3>2. ASSUME NEW s \in Session, Holder(s, d)'
          PROVE  r \in Elements(session'[s].project.returnVOList)
      <4>1. CASE s # sid
        BY <1>3, <1>5, <2>1, <3>2, <4>1 DEF ReturnsKept
      <4>2. CASE s = sid
        <5>1. d = vo.id /\ session'[sid].project = vo /\ ~At(t, "removeDraft")
          BY <1>5, <3>2, <4>2
        <5>2. ~InForm(t)
          BY <1>3, <2>1, <5>1 DEF FormAlone, Unseen
        <5>3. request[t].pc \in {"commitReturn", "insertProject", "commitProject"}
          BY <1>4, <5>1, <5>2 DEF Running, At
        <5>4. /\ Holder(sid, d)
              /\ Elements(session[sid].project.returnVOList) \subseteq Elements(vo.returnVOList)
          BY <1>3, <5>1, <5>3 DEF HasDraft, Running
        <5>5. r \in Elements(session[sid].project.returnVOList)
          BY <1>1, <1>3, <2>1, <5>4 DEF ReturnsKept
        <5> QED BY <4>2, <5>1, <5>4, <5>5
      <4> QED BY <4>1, <4>2
    <3> QED BY <3>1, <3>2
  <2>2. CASE accepted'[r] # accepted[r]
    <3>1. d = vo.id /\ At(t, "commitReturn") /\ r \in Elements(vo.returnVOList)
      BY <2>2
    <3>2. ~Published(d)
      BY <3>1, NotPublishedYet DEF At
    <3>3. ASSUME NEW s \in Session, Holder(s, d)'
          PROVE  r \in Elements(session'[s].project.returnVOList)
      <4>1. s = sid
        BY <1>5, <1>9, <3>1, <3>3
      <4>2. session'[sid].project = vo
        BY <1>5, <3>3, <4>1
      <4> QED BY <3>1, <4>1, <4>2
    <3> QED BY <3>2, <3>3
  <2> QED BY <2>1, <2>2
<1> QED BY <1>8, <1>10, <1>11, <1>12, <1>13, <1>14 DEF SerialInv

\* Only the drafts of sessions without a request go.
LEMMA DraftsGone ==
    ASSUME LaunchInv, SerialInv,
           UNCHANGED <<request, forms, accepted, t_project, t_return>>,
           \A c \in Session :
               \/ session'[c].project = session[c].project
               \/ session'[c].project = None /\ \A t \in Thread : request[t].sid # c
    PROVE  SerialInv'
<1>1. /\ \A c \in Session : \A d : Holder(c, d)' => session'[c].project = session[c].project
      /\ \A c \in Session : \A d : Holder(c, d)' => Holder(c, d)
  BY DEF Holder
<1>2. \A d : Published(d)' <=> Published(d)
  BY DEF Published
<1>3. DraftsNumbered'
  BY DEF SerialInv, DraftsNumbered
<1>4. ASSUME NEW u \in Thread PROVE Works(u)'
  <2>1. Works(u)
    BY DEF SerialInv
  <2>2. FormAlone(u)'
    <3>1. ASSUME NEW d, Unseen(d) PROVE Unseen(d)'
      BY <1>1, <1>2, <3>1 DEF Unseen
    <3> QED BY <2>1, <3>1 DEF Works, FormAlone, InForm
  <2>3. HasDraft(u)'
    <3>1. CASE Running(u)
      <4>1. request[u].sid \in Session
        BY <3>1, DraftsTyped DEF Running, At
      <4>2. session'[request[u].sid].project = session[request[u].sid].project
        BY <4>1
      <4> QED BY <2>1, <4>2, HasDraftStays DEF Works
    <3>2. CASE ~Running(u)
      BY <3>2 DEF HasDraft, Running
    <3> QED BY <3>1, <3>2
  <2> QED BY <2>1, <2>2, <2>3 DEF Works, At
<1>5. OneHolder' /\ PublishedOnce'
  BY <1>1 DEF SerialInv, OneHolder, PublishedOnce
<1>6. PublishedIsRemoved'
  BY <1>1, <1>2 DEF SerialInv, PublishedIsRemoved, At
<1>7. ReturnsKept'
  <2> SUFFICES ASSUME NEW r \in ReturnVO, NEW d \in Draft, accepted[r] = d
               PROVE  /\ \A s \in Session : Holder(s, d)' =>
                            r \in Elements(session'[s].project.returnVOList)
                      /\ Published(d) => InTable(r)
    BY <1>2 DEF ReturnsKept, InTable, Elements
  <2> QED BY <1>1 DEF SerialInv, ReturnsKept
<1> QED BY <1>3, <1>4, <1>5, <1>6, <1>7 DEF SerialInv

LEMMA LoginSerial ==
    ASSUME LaunchInv, SerialInv, NEW s \in Session, NEW m \in Member, login(s, m)
    PROVE  SerialInv'
<1>1. \A c \in Session : session'[c].project = session[c].project
  BY DEF login, LaunchInv, TypeOK, SessionRecord
<1> QED BY <1>1, DraftsGone DEF login, tables

LEMMA ExpireSerial ==
    ASSUME LaunchInv, SerialInv, NEW s \in Session, expire(s) PROVE SerialInv'
<1>1. \A c \in Session \ {s} : session'[c] = session[c]
  BY DEF expire, LaunchInv, TypeOK
<1>2. session'[s].project = None /\ \A t \in Thread : request[t].sid # s
  BY DEF expire, LaunchInv, TypeOK
<1>3. \A c \in Session :
          \/ session'[c].project = session[c].project
          \/ session'[c].project = None /\ \A t \in Thread : request[t].sid # c
  BY <1>1, <1>2
<1> QED BY <1>3, DraftsGone DEF expire, tables

\* A request that fails leaves the draft where it is.
LEMMA StopSerial ==
    ASSUME LaunchInv, SerialInv, NEW t \in Thread, End(t), ~At(t, "removeDraft"),
           UNCHANGED <<session, forms, accepted, bucket, nextKey, tables>>
    PROVE  SerialInv'
<1>1. OthersKept(t) /\ request'[t] = Idle
  BY DEF End, OthersKept, LaunchInv, TypeOK
<1>2. Works(t)' /\ ~InForm(t)'
  BY <1>1, IdleTyped DEF Works, FormAlone, HasDraft, InForm, Running, At
<1> QED BY <1>1, <1>2, QuietStep, DraftsTyped DEF tables

LEMMA SaveProjectSerial ==
    ASSUME LaunchInv, SerialInv, NEW t \in Thread, NEW s \in Session, NEW n \in 0..MaxPicture,
           NEW typed \in BOOLEAN, NEW intro \in Description,
           saveProjectBasicInfo(t, s, n, typed, intro)
    PROVE  SerialInv'
<1>1. forms.draft \in Nat /\ forms'.draft = forms.draft + 1
  BY DraftsTyped DEF saveProjectBasicInfo, LaunchInv, TypeOK
<1>2. /\ OthersKept(t)
      /\ request'[t].pc = "upload" /\ request'[t].projectVO.id = forms'.draft
  BY DEF saveProjectBasicInfo, OthersKept, LaunchInv, TypeOK, Idle
<1> PICK d : d = forms'.draft
  OBVIOUS
<1>3. ASSUME NEW e \in 0..MaxDraft, e <= forms.draft PROVE e # d
  BY <1>1, <1>3
<1>4. Unseen(d)
  <2>1. \A c \in Session : ~Holder(c, d)
    BY <1>3, DraftsTyped DEF SerialInv, DraftsNumbered, Holder, ProjectVO, Draft
  <2>2. \A r \in ReturnVO : accepted[r] # d
    BY <1>3, DraftsTyped DEF SerialInv, DraftsNumbered
  <2>3. ~Published(d)
    BY <1>3, RowsTyped DEF SerialInv, DraftsNumbered, Published, LaunchInv, Draft
  <2> QED BY <2>1, <2>2, <2>3 DEF Unseen
<1>5. UNCHANGED <<session, accepted, t_project, t_return>> /\ ~At(t, "removeDraft")
  BY DEF saveProjectBasicInfo, tables, At
<1>6. Unseen(d)'
  BY <1>4, <1>5 DEF Unseen, Holder, Published
<1>7. ASSUME NEW u \in Thread \ {t}, InForm(u) PROVE request[u].projectVO.id # d
  <2>1. ~At(u, "idle")
    BY <1>7 DEF InForm, At
  <2> QED BY <1>3, <2>1, DraftsTyped DEF SerialInv, Works, Draft
<1>8. Works(t)'
  <2>1. d <= forms'.draft
    BY <1>1
  <2>2. FormAlone(t)'
    BY <1>2, <1>6, <1>7 DEF FormAlone, InForm, OthersKept
  <2>3. HasDraft(t)'
    BY <1>2 DEF HasDraft, Running
  <2> QED BY <1>2, <2>1, <2>2, <2>3 DEF Works
<1>9. forms'.draft \in Nat /\ forms.draft <= forms'.draft
  BY <1>1
<1> QED BY <1>2, <1>5, <1>7, <1>8, <1>9, QuietStep

LEMMA UploadSerial ==
    ASSUME LaunchInv, SerialInv, NEW t \in Thread, upload(t) PROVE SerialInv'
<1>1. /\ OthersKept(t)
      /\ request'[t].pc \in {"upload", "commitDraft"}
      /\ request'[t].projectVO = request[t].projectVO
      /\ InForm(t)
  BY DEF upload, OthersKept, LaunchInv, TypeOK, RequestRecord, InForm, At
<1>2. /\ UNCHANGED <<session, forms, accepted, t_project, t_return>>
      /\ ~At(t, "removeDraft") /\ ~At(t, "idle")
  BY DEF upload, tables, At
<1>3. Works(t)
  BY DEF SerialInv
<1>4. Works(t)'
  <2>1. FormAlone(t)'
    <3>1. Unseen(request[t].projectVO.id)
      BY <1>1, <1>3 DEF Works, FormAlone
    <3>2. Unseen(request[t].projectVO.id)'
      BY <1>1, <1>2, <3>1 DEF Unseen, Holder, Published
    <3> QED BY <1>1, <1>3, <3>2 DEF Works, FormAlone, OthersKept, InForm
  <2> QED BY <1>1, <1>2, <1>3, <2>1 DEF Works, HasDraft, Running
<1>5. forms.draft <= forms'.draft
  BY <1>2, DraftsTyped
<1> QED BY <1>1, <1>2, <1>4, <1>5, QuietStep, FormsElsewhere, DraftsTyped

\* A request that reads the draft of its session.
LEMMA ReadSerial ==
    ASSUME LaunchInv, SerialInv, NEW t \in Thread, At(t, "idle"), OthersKept(t),
           NEW s \in Session, session[s].project # None,
           request'[t].pc \in {"commitReturn", "insertProject"}, request'[t].sid = s,
           request'[t].projectVO.id = session[s].project.id,
           Elements(session[s].project.returnVOList)
               \subseteq Elements(request'[t].projectVO.returnVOList),
           UNCHANGED <<session, accepted, tables>>, forms'.draft = forms.draft
    PROVE  SerialInv'
<1>1. session' = session
  OBVIOUS
<1>2. session[s].project.id <= forms'.draft
  BY DEF SerialInv, DraftsNumbered
<1>3. ~InForm(t)'
  BY DEF InForm
<1>4. HasDraft(t)'
  BY <1>1 DEF HasDraft, Holder, Elements
<1>5. Works(t)'
  BY <1>2, <1>3, <1>4 DEF Works, FormAlone
<1>6. forms'.draft \in Nat /\ forms.draft <= forms'.draft /\ ~At(t, "removeDraft")
  BY DraftsTyped DEF At
<1> QED BY <1>3, <1>5, <1>6, QuietStep DEF tables

LEMMA SaveReturnSerial ==
    ASSUME LaunchInv, SerialInv, NEW t \in Thread, NEW s \in Session, saveReturn(t, s)
    PROVE  SerialInv'
<1> DEFINE vo == session[s].project
<1>1. /\ At(t, "idle") /\ vo # None /\ vo \in ProjectVO
      /\ forms'.draft = forms.draft
  BY DraftsTyped DEF saveReturn, LaunchInv, TypeOK
<1>1a. forms'.ret \in ReturnVO
  <2>1. /\ forms.ret \in 0..MaxReturn /\ forms.ret < MaxReturn
        /\ forms'.ret = forms.ret + 1
    BY DEF saveReturn, LaunchInv, TypeOK
  <2> QED BY <2>1, BoundAssumption DEF ReturnVO
<1>2. /\ OthersKept(t)
      /\ request'[t].pc = "commitReturn" /\ request'[t].sid = s
      /\ request'[t].projectVO = [vo EXCEPT !.returnVOList = Append(@, forms'.ret)]
      /\ UNCHANGED <<session, accepted, tables>>
  BY DEF saveReturn, OthersKept, LaunchInv, TypeOK, Idle
<1> DEFINE w == request'[t].projectVO
<1> HIDE DEF vo, w
<1>3. /\ w \in ProjectVO /\ w.id = vo.id
      /\ Len(w.returnVOList) = Len(vo.returnVOList) + 1
      /\ \A k \in 1..Len(vo.returnVOList) : w.returnVOList[k] = vo.returnVOList[k]
  BY <1>1, <1>1a, <1>2, ReturnAdded DEF w
<1>4. /\ DOMAIN vo.returnVOList = 1..Len(vo.returnVOList) /\ Len(vo.returnVOList) \in Nat
      /\ DOMAIN w.returnVOList = 1..Len(w.returnVOList)
  BY <1>1, <1>3, DraftTyped
<1>5. 1..Len(vo.returnVOList) \subseteq 1..Len(w.returnVOList)
  BY <1>3, <1>4
<1>6. Elements(vo.returnVOList) \subseteq Elements(w.returnVOList)
  BY <1>3, <1>4, <1>5 DEF Elements
<1> QED BY <1>1, <1>2, <1>3, <1>6, ReadSerial DEF vo, w

LEMMA SaveConfirmSerial ==
    ASSUME LaunchInv, SerialInv, NEW t \in Thread, NEW s \in Session, saveConfirm(t, s)
    PROVE  SerialInv'
<1>1. /\ At(t, "idle") /\ session[s].project # None
      /\ OthersKept(t)
      /\ request'[t].pc = "insertProject" /\ request'[t].sid = s
      /\ request'[t].projectVO = session[s].project
      /\ UNCHANGED <<session, accepted, tables>> /\ forms'.draft = forms.draft
  BY DEF saveConfirm, OthersKept, LaunchInv, TypeOK, Idle
<1>2. Elements(session[s].project.returnVOList)
          \subseteq Elements(request'[t].projectVO.returnVOList)
  BY <1>1
<1> QED BY <1>1, <1>2, ReadSerial

LEMMA InsertProjectSerial ==
    ASSUME LaunchInv, SerialInv, NEW t \in Thread, insertProject(t) PROVE SerialInv'
<1>1. /\ OthersKept(t) /\ At(t, "insertProject")
      /\ request'[t].pc = "commitProject"
      /\ request'[t].projectVO = request[t].projectVO
      /\ request'[t].sid = request[t].sid
  BY DEF insertProject, OthersKept, LaunchInv, TypeOK, RequestRecord
<1>2. UNCHANGED <<session, forms, accepted, t_project, t_return>>
  BY DEF insertProject, tables
<1>3. Works(t)
  BY DEF SerialInv
<1>4. HasDraft(t)'
  BY <1>1, <1>2, <1>3 DEF Works, HasDraft, Running, Holder, Elements, At
<1>5. ~InForm(t)' /\ ~At(t, "removeDraft") /\ ~At(t, "idle")
  BY <1>1 DEF InForm, At
<1>6. Works(t)'
  BY <1>1, <1>2, <1>3, <1>4, <1>5 DEF Works, FormAlone
<1> QED BY <1>1, <1>2, <1>5, <1>6, QuietStep, DraftsTyped

LEMMA CommitDraftSerial ==
    ASSUME LaunchInv, SerialInv, SerialSessions, NEW t \in Thread, commitDraft(t)
    PROVE  SerialInv'
<1> DEFINE sid == request[t].sid
<1>1. /\ sid \in Session /\ ~At(t, "idle") /\ ~At(t, "removeDraft")
  BY DraftsTyped DEF commitDraft, At
<1>2. /\ \A c \in Session \ {sid} : session'[c] = session[c]
      /\ session'[sid].project = request[t].projectVO
  BY <1>1 DEF commitDraft, LaunchInv, TypeOK, SessionRecord
<1>3. End(t) /\ UNCHANGED <<forms, t_project, t_return, accepted>>
  BY DEF commitDraft, tables
<1> QED BY <1>1, <1>2, <1>3, EndWorks

LEMMA CommitReturnSerial ==
    ASSUME LaunchInv, SerialInv, SerialSessions, NEW t \in Thread, commitReturn(t)
    PROVE  SerialInv'
<1> DEFINE sid == request[t].sid
           vo == request[t].projectVO
<1>1. /\ sid \in Session /\ vo \in ProjectVO /\ vo.returnVOList # << >>
      /\ At(t, "commitReturn") /\ ~At(t, "idle") /\ ~At(t, "removeDraft")
  BY DraftsTyped DEF commitReturn, At, LaunchInv, HandlersHold, Holds
<1>2. /\ \A c \in Session \ {sid} : session'[c] = session[c]
      /\ session'[sid].project = vo
  BY <1>1 DEF commitReturn, LaunchInv, TypeOK, SessionRecord
<1>3. End(t) /\ UNCHANGED <<forms, t_project, t_return>>
  BY DEF commitReturn, tables
<1>4. /\ accepted' = [accepted EXCEPT ![LastReturn(vo)] = vo.id]
      /\ accepted \in [ReturnVO -> 0..MaxDraft]
  BY DEF commitReturn, LastReturn, LaunchInv, TypeOK
<1>5. LastReturn(vo) \in Elements(vo.returnVOList)
  BY <1>1, LastTyped, DraftTyped DEF LastReturn, Elements
<1>6. \A r \in ReturnVO :
          \/ accepted'[r] = accepted[r]
          \/ accepted'[r] = vo.id /\ At(t, "commitReturn") /\ r \in Elements(vo.returnVOList)
  BY <1>1, <1>4, <1>5
<1> QED BY <1>1, <1>2, <1>3, <1>6, EndWorks

LEMMA RemoveDraftSerial ==
    ASSUME LaunchInv, SerialInv, SerialSessions, NEW t \in Thread, removeDraft(t)
    PROVE  SerialInv'
<1> DEFINE sid == request[t].sid
<1>1. sid \in Session /\ ~At(t, "idle")
  BY DraftsTyped DEF removeDraft, At
<1>2. /\ \A c \in Session \ {sid} : session'[c] = session[c]
      /\ session'[sid].project = None
  BY <1>1 DEF removeDraft, LaunchInv, TypeOK, SessionRecord
<1>3. End(t) /\ UNCHANGED <<forms, t_project, t_return, accepted>>
  BY DEF removeDraft, tables
<1> QED BY <1>1, <1>2, <1>3, EndWorks

\* The commit of saveProject publishes the draft with all of its returns.
LEMMA ReturnsStored ==
    ASSUME LaunchInv, NEW t \in Thread, commitProject(t)
    PROVE  /\ \A r \in ReturnVO : InTable(r) => InTable(r)'
           /\ \A r \in Elements(request[t].projectVO.returnVOList) : InTable(r)'
<1> DEFINE vo == request[t].projectVO
           key == request[t].key
           list == vo.returnVOList
           rows == Returns(vo, key)
<1>1. /\ vo \in ProjectVO /\ key \in Key
      /\ t_return \in Seq([projectid : Key, ret : ReturnVO])
      /\ Adds(t_return, t_return', key)
  BY CommitEffect DEF LaunchInv, TypeOK
<1>2. t_return' = t_return \o rows /\ list # << >>
  BY DEF commitProject, Complete
<1>3. /\ rows \in Seq([projectid : Key, ret : ReturnVO])
      /\ DOMAIN rows = DOMAIN list
      /\ \A i \in DOMAIN list : rows[i].ret = list[i]
  BY <1>1, <1>2, ReturnsTyped
<1> HIDE DEF vo, key, rows
<1>4. \A r \in ReturnVO : InTable(r) => InTable(r)'
  BY <1>1 DEF InTable, Adds
<1>5. ASSUME NEW i \in DOMAIN list, NEW r, r = list[i] PROVE InTable(r)'
  <2>1. /\ Len(t_return) \in Nat /\ Len(rows) \in Nat /\ DOMAIN rows = 1..Len(rows)
        /\ t_return' \in Seq([projectid : Key, ret : ReturnVO])
        /\ Len(t_return') = Len(t_return) + Len(rows)
        /\ \A k \in 1..Len(t_return) + Len(rows) :
             t_return'[k] = IF k <= Len(t_return) THEN t_return[k] ELSE rows[k - Len(t_return)]
    BY <1>1, <1>2, <1>3, ConcatProperties, LenProperties
  <2>2. i \in 1..Len(rows)
    BY <1>3, <1>5, <2>1
  <2> DEFINE j == Len(t_return) + i
  <2>3. /\ j \in 1..Len(t_return) + Len(rows) /\ ~(j <= Len(t_return))
        /\ j - Len(t_return) = i
    BY <2>1, <2>2
  <2>4. t_return'[j] = rows[i] /\ j \in DOMAIN t_return'
    BY <2>1, <2>3, LenProperties
  <2> QED BY <1>3, <1>5, <2>4 DEF InTable
<1> QED BY <1>4, <1>5 DEF Elements, vo

LEMMA CommitProjectSerial ==
    ASSUME LaunchInv, SerialInv, SerialSessions, NEW t \in Thread, commitProject(t)
    PROVE  SerialInv'
<1> DEFINE vo == request[t].projectVO
           sid == request[t].sid
<1>1. /\ vo \in ProjectVO /\ vo.id \in Draft /\ sid \in Session
      /\ At(t, "commitProject") /\ ~At(t, "idle") /\ ~At(t, "removeDraft")
  BY DraftsTyped DEF commitProject, At
<1>2. /\ OthersKept(t)
      /\ request'[t].pc = "removeDraft"
      /\ request'[t].projectVO = vo /\ request'[t].sid = sid
      /\ UNCHANGED <<session, forms, accepted>>
  BY DEF commitProject, Goto, OthersKept, LaunchInv, TypeOK, RequestRecord
<1>3. PICK new : /\ DOMAIN t_project' = DOMAIN t_project \cup {new}
                 /\ new \notin DOMAIN t_project
                 /\ t_project'[new].draft = vo.id
                 /\ \A i \in DOMAIN t_project : t_project'[i] = t_project[i]
  BY CommitRow DEF IsNewRow
<1>4. \A d : Published(d)' <=> Published(d) \/ d = vo.id
  BY <1>3 DEF Published
<1>5. ~Published(vo.id)
  BY <1>1, NotPublishedYet
<1>6. Works(t) /\ HasDraft(t)
  BY DEF SerialInv, Works
<1>7. Holder(sid, vo.id) /\ Elements(session[sid].project.returnVOList)
                               \subseteq Elements(vo.returnVOList)
  BY <1>1, <1>6 DEF HasDraft, Running, At
<1> HIDE DEF vo, sid
<1>8. DraftsNumbered'
  <2>1. vo.id <= forms.draft
    BY <1>1, <1>6 DEF Works, vo
  <2>2. \A i \in DOMAIN t_project' : t_project'[i].draft <= forms.draft
    BY <1>3, <2>1 DEF SerialInv, DraftsNumbered
  <2> QED BY <1>2, <2>2 DEF SerialInv, DraftsNumbered
<1>9. ASSUME NEW u \in Thread PROVE Works(u)'
  <2>1. CASE u = t
    <3>1. ~InForm(t)' /\ HasDraft(t)'
      BY <1>2, <1>7 DEF InForm, HasDraft, Running, Holder
    <3> QED BY <1>1, <1>2, <1>6, <2>1, <3>1 DEF Works, FormAlone, vo
  <2>2. CASE u # t
    <3>1. Works(u) /\ request'[u] = request[u]
      BY <1>2, <2>2 DEF SerialInv, OthersKept
    <3>2. FormAlone(u)'
      <4>1. SUFFICES ASSUME InForm(u), NEW d, d = request[u].projectVO.id
                     PROVE  /\ Unseen(d)'
                            /\ \A v \in Thread \ {u} : InForm(v)' => request'[v].projectVO.id # d
        BY <3>1 DEF FormAlone, InForm
      <4>2. d # vo.id
        BY <1>1, <2>2, <4>1, FormsElsewhere DEF vo
      <4>3. Unseen(d)
        BY <3>1, <4>1 DEF Works, FormAlone
      <4>4. Unseen(d)'
        BY <1>2, <1>4, <4>2, <4>3 DEF Unseen, Holder
      <4>5. ASSUME NEW v \in Thread \ {u}, InForm(v)' PROVE request'[v].projectVO.id # d
        <5>1. request'[v] = request[v] /\ InForm(v)
          BY <1>2, <4>5 DEF InForm, OthersKept
        <5> QED BY <3>1, <4>1, <4>5, <5>1 DEF Works, FormAlone
      <4> QED BY <4>4, <4>5
    <3>3. HasDraft(u)'
      BY <1>2, <3>1, HasDraftStays DEF Works
    <3> QED BY <1>2, <3>1, <3>2, <3>3 DEF Works, At
  <2> QED BY <2>1, <2>2
<1>10. OneHolder'
  BY <1>2 DEF SerialInv, OneHolder, Holder
<1>11. PublishedIsRemoved'
  <2> SUFFICES ASSUME NEW s \in Session, NEW d \in Draft, Holder(s, d), Published(d)'
               PROVE  \E u \in Thread : At(u, "removeDraft")' /\ request'[u].sid = s
    BY <1>2 DEF PublishedIsRemoved, Holder
  <2>1. CASE d = vo.id
    <3>1. s = sid
      BY <1>1, <1>7, <2>1 DEF SerialInv, OneHolder
    <3> QED BY <1>2, <3>1 DEF At
  <2>2. CASE d # vo.id
    <3>1. PICK u \in Thread : At(u, "removeDraft") /\ request[u].sid = s
      BY <1>4, <2>2 DEF SerialInv, PublishedIsRemoved
    <3>2. request'[u] = request[u]
      BY <1>1, <1>2, <3>1 DEF OthersKept
    <3> QED BY <3>1, <3>2 DEF At
  <2> QED BY <2>1, <2>2
<1>12. PublishedOnce'
  <2>1. \A i \in DOMAIN t_project : t_project[i].draft # vo.id
    BY <1>5 DEF Published, vo
  <2> QED BY <1>3, <2>1 DEF SerialInv, PublishedOnce
<1>13. ReturnsKept'
  <2> SUFFICES ASSUME NEW r \in ReturnVO, NEW d \in Draft, accepted[r] = d
               PROVE  /\ \A s \in Session : Holder(s, d) =>
                            r \in Elements(session[s].project.returnVOList)
                      /\ Published(d)' => InTable(r)'
    BY <1>2 DEF ReturnsKept, Holder, Elements, InTable
  <2>1. \A s \in Session : Holder(s, d) => r \in Elements(session[s].project.returnVOList)
    BY DEF SerialInv, ReturnsKept
  <2>2. CASE d = vo.id
    <3>1. r \in Elements(vo.returnVOList)
      BY <1>1, <1>7, <2>1, <2>2
    <3> QED BY <2>1, <3>1, ReturnsStored DEF vo
  <2>3. CASE d # vo.id
    <3>1. Published(d)' => InTable(r)
      BY <1>4, <2>3 DEF SerialInv, ReturnsKept
    <3> QED BY <2>1, <3>1, ReturnsStored
  <2> QED BY <2>2, <2>3
<1> QED BY <1>8, <1>9, <1>10, <1>11, <1>12, <1>13 DEF SerialInv

LEMMA InitSerial == ASSUME Init PROVE SerialInv
<1>1. /\ \A s \in Session : session[s].project = None
      /\ \A t \in Thread : At(t, "idle")
      /\ \A r \in ReturnVO : accepted[r] = 0
      /\ forms.draft = 0 /\ DOMAIN t_project = {}
  BY DEF Init, Idle, At
<1>2. DraftsNumbered /\ OneHolder /\ PublishedIsRemoved /\ PublishedOnce
  BY <1>1 DEF DraftsNumbered, OneHolder, PublishedIsRemoved, PublishedOnce, Holder
<1>3. \A t \in Thread : Works(t)
  BY <1>1 DEF Works, FormAlone, HasDraft, InForm, Running, At
<1>4. ReturnsKept
  BY <1>1, BoundAssumption DEF ReturnsKept, Draft
<1> QED BY <1>2, <1>3, <1>4 DEF SerialInv

LEMMA SerialStep ==
    ASSUME LaunchInv, SerialInv, SerialSessions, "crash" \notin Faults, [Next]_vars
    PROVE  SerialInv'
<1>1. CASE UNCHANGED vars
  BY <1>1, DraftsGone DEF vars, tables
<1>2. ASSUME NEW s \in Session, NEW m \in Member, login(s, m) PROVE SerialInv'
  BY <1>2, LoginSerial
<1>3. ASSUME NEW s \in Session, expire(s) PROVE SerialInv'
  BY <1>3, ExpireSerial
<1>4. ASSUME NEW t \in Thread, Receive(t) PROVE SerialInv'
  BY <1>4, SaveProjectSerial, SaveReturnSerial, SaveConfirmSerial DEF Receive
<1>5. ASSUME NEW t \in Thread, Handle(t) PROVE SerialInv'
  <2>1. CASE upload(t)         BY <2>1, UploadSerial
  <2>2. CASE uploadFails(t)    BY <2>2, StopSerial DEF uploadFails, At
  <2>3. CASE commitDraft(t)    BY <2>3, CommitDraftSerial
  <2>4. CASE commitReturn(t)   BY <2>4, CommitReturnSerial
  <2>5. CASE insertProject(t)  BY <2>5, InsertProjectSerial
  <2>6. CASE commitProject(t)  BY <2>6, CommitProjectSerial
  <2>7. CASE rollbackProject(t) BY <2>7, StopSerial DEF rollbackProject, At
  <2>8. CASE removeDraft(t)    BY <2>8, RemoveDraftSerial
  <2> QED BY <1>5, <2>1, <2>2, <2>3, <2>4, <2>5, <2>6, <2>7, <2>8 DEF Handle
<1>6. ASSUME NEW t \in Thread, crash(t) PROVE SerialInv'
  BY <1>6 DEF crash
<1> QED BY <1>1, <1>2, <1>3, <1>4, <1>5, <1>6 DEF Next

\* With one request at a time in each session and no crash of the service, a
\* draft is in one place until it is published.
THEOREM SerialInvariant ==
    ASSUME "crash" \notin Faults
    PROVE  Spec /\ []SerialSessions => []SerialInv
BY InitSerial, SerialStep, LaunchInvariant, PTL DEF Spec

\* saveConfirm publishes a draft once, although a failed saveProject may be
\* confirmed again, sessions expire and other sessions publish theirs.
THEOREM PublishedOnceWhenSerial ==
    ASSUME "crash" \notin Faults
    PROVE  Spec /\ []SerialSessions => []PublishedOnce
<1>1. SerialInv => PublishedOnce
  BY DEF SerialInv
<1> QED BY SerialInvariant, <1>1, PTL

\* What saveReturn has answered "success" to is in the draft and is published
\* with it.
THEOREM ReturnKeptWhenSerial ==
    ASSUME "crash" \notin Faults
    PROVE  Spec /\ []SerialSessions => []ReturnKept
<1>1. LaunchInv /\ SerialInv => ReturnKept
  <2> SUFFICES ASSUME LaunchInv, SerialInv, NEW r \in ReturnVO, accepted[r] # 0
               PROVE  /\ \A s \in Session :
                           session[s].project # None /\ session[s].project.id = accepted[r] =>
                               \E i \in DOMAIN session[s].project.returnVOList :
                                   session[s].project.returnVOList[i] = r
                      /\ Published(accepted[r]) =>
                               \E j \in DOMAIN t_return : t_return[j].ret = r
    BY DEF ReturnKept
  <2>1. accepted[r] \in Draft
    BY DraftsTyped, BoundAssumption DEF Draft
  <2>2. PICK d \in Draft : accepted[r] = d
    BY <2>1
  <2> QED BY <2>2 DEF SerialInv, ReturnsKept, Holder, Elements, InTable
<1> QED BY LaunchInvariant, SerialInvariant, <1>1, PTL

\* What a step does to the request of the thread that takes it.
LEMMA RequestMoves ==
    ASSUME LaunchInv, ~Overlapping, [Next]_vars
    PROVE  \/ UNCHANGED request
           \/ \E t \in Thread :
                /\ \A u \in Thread \ {t} : request'[u] = request[u]
                /\ \/ request'[t].pc = "idle"
                   \/ ~At(t, "idle") /\ request'[t].sid = request[t].sid
                   \/ \A u \in Thread : request[u].sid # request'[t].sid
<1>1. request \in [Thread -> RequestRecord]
  BY DEF LaunchInv, TypeOK
<1>2. ASSUME NEW t \in Thread, NEW r, request' = [request EXCEPT ![t] = r]
      PROVE  request'[t] = r /\ \A u \in Thread \ {t} : request'[u] = request[u]
  BY <1>1, <1>2
<1>3. ASSUME NEW t \in Thread, End(t)
      PROVE  request'[t].pc = "idle" /\ \A u \in Thread \ {t} : request'[u] = request[u]
  <2>1. request' = [request EXCEPT ![t] = Idle]
    BY <1>3 DEF End
  <2>2. request'[t] = Idle /\ \A u \in Thread \ {t} : request'[u] = request[u]
    BY <1>2, <2>1
  <2> QED BY <2>2, IdleTyped
<1>4. ASSUME NEW t \in Thread, Receive(t)
      PROVE  /\ \A u \in Thread \ {t} : request'[u] = request[u]
             /\ \A u \in Thread : request[u].sid # request'[t].sid
  <2>1. PICK s \in Session :
             /\ \A u \in Thread : request[u].sid # s
             /\ \/ \E n \in 0..MaxPicture, typed \in BOOLEAN, intro \in Description :
                      saveProjectBasicInfo(t, s, n, typed, intro)
                \/ saveReturn(t, s)
                \/ saveConfirm(t, s)
    BY <1>4 DEF Receive
  <2>2. \E r : request' = [request EXCEPT ![t] = r] /\ r.sid = s
    <3>1. ASSUME NEW n \in 0..MaxPicture, NEW typed \in BOOLEAN, NEW intro \in Description,
                 saveProjectBasicInfo(t, s, n, typed, intro)
          PROVE  \E r : request' = [request EXCEPT ![t] = r] /\ r.sid = s
      <4> DEFINE q == [Idle EXCEPT !.pc = "upload", !.sid = s,
                            !.projectVO = [id |-> forms'.draft, typed |-> typed,
                                intro |-> intro, pictures |-> n, returnVOList |-> << >>]]
      <4>1. request' = [request EXCEPT ![t] = q]
        BY <3>1 DEF saveProjectBasicInfo
      <4>2. q.sid = s
        BY DEF Idle
      <4> HIDE DEF q
      <4> QED BY <4>1, <4>2
    <3>2. CASE saveReturn(t, s)
      <4> DEFINE q == [Idle EXCEPT !.pc = "commitReturn", !.sid = s,
                            !.projectVO = [session[s].project EXCEPT
                                !.returnVOList = Append(@, forms'.ret)]]
      <4>1. request' = [request EXCEPT ![t] = q]
        BY <3>2 DEF saveReturn
      <4>2. q.sid = s
        BY DEF Idle
      <4> HIDE DEF q
      <4> QED BY <4>1, <4>2
    <3>3. CASE saveConfirm(t, s)
      <4> DEFINE q == [Idle EXCEPT !.pc = "insertProject", !.sid = s,
                            !.projectVO = session[s].project,
                            !.member = session[s].loginMember]
      <4>1. request' = [request EXCEPT ![t] = q]
        BY <3>3 DEF saveConfirm
      <4>2. q.sid = s
        BY DEF Idle
      <4> HIDE DEF q
      <4> QED BY <4>1, <4>2
    <3> QED BY <2>1, <3>1, <3>2, <3>3
  <2> QED BY <1>2, <2>1, <2>2
<1>5. ASSUME NEW t \in Thread, upload(t) \/ insertProject(t) \/ commitProject(t)
      PROVE  /\ \A u \in Thread \ {t} : request'[u] = request[u]
             /\ ~At(t, "idle") /\ request'[t].sid = request[t].sid
  <2>1. CASE upload(t)
    BY <1>1, <2>1 DEF upload, At, RequestRecord
  <2>2. CASE insertProject(t)
    BY <1>1, <2>2 DEF insertProject, At, RequestRecord
  <2>3. CASE commitProject(t)
    BY <1>1, <2>3 DEF commitProject, Goto, At, RequestRecord
  <2> QED BY <1>5, <2>1, <2>2, <2>3
<1>6. \/ UNCHANGED request
      \/ \E t \in Thread : \/ End(t) \/ Receive(t)
                           \/ upload(t) \/ insertProject(t) \/ commitProject(t)
  BY DEF Next, vars, login, expire, Handle, uploadFails, commitDraft, commitReturn,
         rollbackProject, removeDraft, crash
<1> QED BY <1>3, <1>4, <1>5, <1>6

\* The instances that let a session have one request at a time are serial.
THEOREM SerialIfNotOverlapping ==
    ASSUME ~Overlapping
    PROVE  Spec => []SerialSessions
<1>1. Init => SerialSessions
  BY DEF Init, SerialSessions, At, Idle
<1>2. ASSUME LaunchInv, SerialSessions, [Next]_vars PROVE SerialSessions'
  <2>1. CASE UNCHANGED request
    BY <1>2, <2>1 DEF SerialSessions, At
  <2>2. ASSUME NEW t \in Thread,
               \A u \in Thread \ {t} : request'[u] = request[u],
               \/ request'[t].pc = "idle"
               \/ ~At(t, "idle") /\ request'[t].sid = request[t].sid
               \/ \A u \in Thread : request[u].sid # request'[t].sid
        PROVE  SerialSessions'
    BY <1>2, <2>2 DEF SerialSessions, At
  <2> QED BY <1>2, <2>1, <2>2, RequestMoves
<1> QED BY <1>1, <1>2, LaunchInvariant, PTL DEF Spec

-----------------------------------------------------------------------------
(***************************************************************************)
(* What selectOrderProjectVO joins.  All projects of a member can be       *)
(* ordered while all introductions the member published are the same, and  *)
(* a different one makes the order pages of all of them fail.              *)
(***************************************************************************)
Publishers == {t_project[i].memberid : i \in DOMAIN t_project}
Introduced == {t_member_launch_info[i].memberid : i \in DOMAIN t_member_launch_info}
IntroductionsAgree ==
    \A i, j \in DOMAIN t_member_launch_info :
        t_member_launch_info[i].memberid = t_member_launch_info[j].memberid =>
            t_member_launch_info[i].intro = t_member_launch_info[j].intro
ReturnsOrderable == \A m \in Member : Orderable(m)

\* A project and an introduction are inserted in one transaction.
IsNewInfo(n, member, intro) ==
    /\ n \notin DOMAIN t_member_launch_info
    /\ DOMAIN t_member_launch_info' = DOMAIN t_member_launch_info \cup {n}
    /\ \A i \in DOMAIN t_member_launch_info :
         t_member_launch_info'[i] = t_member_launch_info[i]
    /\ t_member_launch_info'[n].memberid = member
    /\ t_member_launch_info'[n].intro = intro

LEMMA InfoAdded ==
    ASSUME LaunchInv, NEW t \in Thread, commitProject(t)
    PROVE  /\ request[t].member \in Member
           /\ \E n : IsNewInfo(n, request[t].member, request[t].projectVO.intro)
<1> DEFINE vo == request[t].projectVO
           info == [memberid |-> request[t].member, intro |-> vo.intro]
           Infos == [memberid : Member, intro : Description]
<1>1. t_member_launch_info \in Seq(Infos)
  BY DEF LaunchInv, TypeOK
<1>2. request[t].member \in Member /\ vo.intro \in Description
  <2>1. request[t].member \in Member /\ vo \in ProjectVO
    BY CommitEffect
  <2> HIDE DEF vo
  <2> QED BY <2>1 DEF ProjectVO
<1>3. /\ info \in Infos /\ info.memberid = request[t].member /\ info.intro = vo.intro
      /\ t_member_launch_info' = Append(t_member_launch_info, info)
  BY <1>2 DEF commitProject
<1> HIDE DEF info, Infos
<1> QED BY <1>1, <1>2, <1>3, Appended DEF IsNewInfo

LEMMA ProjectAdded ==
    ASSUME LaunchInv, NEW t \in Thread, commitProject(t)
    PROVE  Publishers' = Publishers \cup {request[t].member}
<1> DEFINE vo == request[t].projectVO
           key == request[t].key
<1>1. PICK new : IsNewRow(new, key, request[t].member, vo.id)
  BY CommitRow
<1>2. /\ DOMAIN t_project' = DOMAIN t_project \cup {new}
      /\ t_project'[new].memberid = request[t].member
      /\ \A i \in DOMAIN t_project : t_project'[i] = t_project[i]
  BY <1>1, CommitRow DEF IsNewRow
<1> QED BY <1>2 DEF Publishers

LEMMA OnlyCommitsPublish ==
    ASSUME [Next]_vars
    PROVE  UNCHANGED tables \/ \E t \in Thread : commitProject(t)
BY DEF Next, vars, login, expire, Receive, saveProjectBasicInfo, saveReturn, saveConfirm,
       Handle, upload, uploadFails, commitDraft, commitReturn, insertProject,
       rollbackProject, removeDraft, crash

LEMMA IntroducedInit == Init => Introduced = Publishers
BY DEF Init, Introduced, Publishers

LEMMA IntroducedStep ==
    ASSUME LaunchInv, Introduced = Publishers, [Next]_vars
    PROVE  Introduced' = Publishers'
<1>1. CASE UNCHANGED tables
  BY <1>1 DEF tables, Introduced, Publishers
<1>2. ASSUME NEW t \in Thread, commitProject(t) PROVE Introduced' = Publishers'
  <2>1. PICK n : IsNewInfo(n, request[t].member, request[t].projectVO.intro)
    BY <1>2, InfoAdded
  <2>2. Introduced' = Introduced \cup {request[t].member}
    BY <2>1 DEF IsNewInfo, Introduced
  <2> QED BY <1>2, <2>2, ProjectAdded
<1> QED BY <1>1, <1>2, OnlyCommitsPublish

LEMMA IntroductionsFinite == ASSUME TypeOK, NEW m PROVE IsFiniteSet(Introductions(m))
<1> DEFINE info == t_member_launch_info
           D == {i \in DOMAIN info : info[i].memberid = m}
           f == [i \in D |-> info[i].intro]
<1>1. DOMAIN info = 1..Len(info) /\ Len(info) \in Nat
  BY LenProperties DEF TypeOK
<1>2. IsFiniteSet(1..Len(info))
  BY <1>1, FS_Interval
<1>3. IsFiniteSet(D)
  BY <1>1, <1>2, FS_Subset
<1>4. f \in Surjection(D, Introductions(m))
  BY DEF Surjection, Introductions
<1> HIDE DEF D, f
<1> QED BY <1>3, <1>4, FS_Surjection

LEMMA OneRow ==
    ASSUME TypeOK, Introduced = Publishers
    PROVE  ReturnsOrderable <=> IntroductionsAgree
<1> DEFINE info == t_member_launch_info
<1>1. ASSUME IntroductionsAgree PROVE ReturnsOrderable
  <2> SUFFICES ASSUME NEW m
               PROVE  Cardinality(selectOrderProjectVO(m)) = 1
    BY DEF ReturnsOrderable, Orderable
  <2>1. CASE Introductions(m) = {}
    BY <2>1, FS_Singleton DEF selectOrderProjectVO
  <2>2. CASE Introductions(m) # {}
    <3>1. PICK x : x \in Introductions(m)
      BY <2>2
    <3>2. Introductions(m) = {x}
      BY <1>1, <3>1 DEF Introductions, IntroductionsAgree
    <3> QED BY <3>2, FS_Singleton DEF selectOrderProjectVO
  <2> QED BY <2>1, <2>2
<1>2. ASSUME ReturnsOrderable, NEW i \in DOMAIN info, NEW j \in DOMAIN info,
             info[i].memberid = info[j].memberid
      PROVE  info[i].intro = info[j].intro
  <2> DEFINE m == info[i].memberid
  <2>1. info[i].intro \in Introductions(m) /\ info[j].intro \in Introductions(m)
    BY <1>2 DEF Introductions
  <2>2. PICK k \in DOMAIN t_project : t_project[k].memberid = m
    BY DEF Introduced, Publishers
  <2>3. Cardinality(selectOrderProjectVO(m)) = 1
    <3>1. m \in Member
      <4>1. info[i] \in [memberid : Member, intro : Description]
        BY <1>2, RowTyped DEF TypeOK
      <4> QED BY <4>1
    <3> HIDE DEF m
    <3> QED BY <1>2, <2>2, <3>1 DEF ReturnsOrderable, Orderable
  <2>4. selectOrderProjectVO(m) = Introductions(m)
    BY <2>1 DEF selectOrderProjectVO
  <2> HIDE DEF m
  <2>5. \E x : Introductions(m) = {x}
    BY <2>3, <2>4, FS_Singleton, IntroductionsFinite
  <2> QED BY <2>1, <2>5
<1> QED BY <1>1, <1>2 DEF IntroductionsAgree

\* Whatever requests overlap or fail, nothing else can keep a published return
\* from being ordered: every member with a project has an introduction, and
\* the join finds one row exactly while a member's introductions are the same.
THEOREM OrderableWhileIntroductionsAgree ==
    Spec => [](ReturnsOrderable <=> IntroductionsAgree)
<1>1. LaunchInv /\ Introduced = Publishers /\ [Next]_vars => (Introduced = Publishers)'
  BY IntroducedStep
<1> QED BY <1>1, IntroducedInit, OneRow, LaunchInvariant, TypeCorrect, PTL DEF Spec

\* A commit adds one introduction to those of its member.
LEMMA IntroductionAdded ==
    ASSUME LaunchInv, NEW t \in Thread, commitProject(t), NEW m
    PROVE  Introductions(m)' =
               IF m = request[t].member
               THEN Introductions(m) \cup {request[t].projectVO.intro} ELSE Introductions(m)
<1>1. PICK n : IsNewInfo(n, request[t].member, request[t].projectVO.intro)
  BY InfoAdded
<1>2. CASE m = request[t].member
  BY <1>1, <1>2 DEF IsNewInfo, Introductions
<1>3. CASE m # request[t].member
  BY <1>1, <1>3 DEF IsNewInfo, Introductions
<1> QED BY <1>2, <1>3

LEMMA BreaksByIntroduction ==
    ASSUME LaunchInv, [Next]_vars, NEW m \in Member, Orderable(m), ~Orderable(m)'
    PROVE  \E t \in Thread :
              /\ commitProject(t)
              /\ request[t].member = m
              /\ \E intro \in Introductions(m) : intro # request[t].projectVO.intro
<1>1. ~UNCHANGED tables
  BY DEF tables, Orderable, selectOrderProjectVO, Introductions
<1>2. PICK t \in Thread : commitProject(t)
  BY <1>1, OnlyCommitsPublish
<1>3. m \in Publishers' /\ Cardinality(selectOrderProjectVO(m)') # 1
  BY DEF Orderable, Publishers
<1>4. request[t].member = m
  <2> SUFFICES ASSUME request[t].member # m PROVE FALSE
    OBVIOUS
  <2>1. m \in Publishers
    BY <1>2, <1>3, ProjectAdded
  <2>2. selectOrderProjectVO(m)' = selectOrderProjectVO(m)
    BY <1>2, IntroductionAdded DEF selectOrderProjectVO
  <2> QED BY <1>3, <2>1, <2>2 DEF Orderable, Publishers
<1>5. \E intro \in Introductions(m) : intro # request[t].projectVO.intro
  <2> SUFFICES ASSUME Introductions(m) \subseteq {request[t].projectVO.intro} PROVE FALSE
    OBVIOUS
  <2>1. Introductions(m)' = {request[t].projectVO.intro}
    BY <1>2, <1>4, IntroductionAdded
  <2>2. selectOrderProjectVO(m)' = {request[t].projectVO.intro}
    BY <2>1 DEF selectOrderProjectVO
  <2> QED BY <1>3, <2>2, FS_Singleton
<1> QED BY <1>2, <1>4, <1>5

\* saveProject breaks the order pages of a member only by publishing another
\* introduction than one that is there, for any number of sessions, members
\* and failures.
THEOREM OrderPagesBreakOnlyByIntroduction == Spec => OrderableUntilIntroducedAnew
<1> DEFINE Broken(m) == Orderable(m) /\ ~Orderable(m)'
           Anew(m) == \E t \in Thread :
                        /\ commitProject(t)
                        /\ request[t].member = m
                        /\ \E intro \in Introductions(m) : intro # request[t].projectVO.intro
<1>1. LaunchInv /\ [Next]_vars => [\A m \in Member : Broken(m) => Anew(m)]_vars
  BY BreaksByIntroduction
<1> QED BY <1>1, LaunchInvariant, PTL DEF Spec, OrderableUntilIntroducedAnew
=============================================================================
