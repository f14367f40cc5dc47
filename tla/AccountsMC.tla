------------------------------ MODULE AccountsMC ------------------------------
(* Two requests at a time on two users, two Kakao accounts and an admin.     *)
EXTENDS Accounts, TLC

Symmetry ==
    Permutations(Procs) \cup Permutations(Emails) \cup Permutations(KakaoIds)
    \cup Permutations(Passwords)
=============================================================================
