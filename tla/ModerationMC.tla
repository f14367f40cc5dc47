---------------------------- MODULE ModerationMC ----------------------------
(* Two members; one wrote a comment, the other a message.                   *)
EXTENDS Moderation, TLC

CONSTANTS m1, m2, comment, message

MCKind == (comment :> "COMMENT") @@ (message :> "MESSAGE")
MCAuthor == (comment :> m1) @@ (message :> m2)
MCParent == (comment :> None) @@ (message :> None)

Symmetry == Permutations(Procs)
=============================================================================
