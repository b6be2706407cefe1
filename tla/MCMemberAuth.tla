---------------------------- MODULE MCMemberAuth ----------------------------
(***************************************************************************)
(* Instances of MemberAuth for TLC.  Sessions, threads, phones and         *)
(* accounts are told apart by nothing but their names.                     *)
(***************************************************************************)
EXTENDS MemberAuth, TLC

MCSymmetry == Permutations(Session) \cup Permutations(Thread)
                 \cup Permutations(Phone) \cup Permutations(Account)
=============================================================================
