--------------------------- MODULE MCFortisMultisig ---------------------------
(* Small instances of FortisMultisig. *)
EXTENDS FortisMultisig

CONSTANTS m1, m2, m3, s1

(* All three keys are members; m1 is listed twice and m3 is not a member. *)
MCMemberLists == {<<m1, m2, m3>>, <<m1, m1, m2>>}
MCThreeMembers == {<<m1, m2, m3>>}
MCShareLists == {<<s1, s1>>, <<s1, s1, s1>>}
=============================================================================
