----------------------------- MODULE MCTableAcl -----------------------------
(***************************************************************************)
(* TableAcl for TLC.  Tables of one rule are about every pattern of up to  *)
(* three levels, and asked of every name and filter; tables of two are     *)
(* about a few of each.                                                    *)
(***************************************************************************)
EXTENDS TableAcl, TLC

MCFewPatterns == {<<"a", "#">>, <<"+">>}
MCFewSubjects == {<<"a">>, <<"b">>, <<"a", "b">>, <<"#">>, <<"a", "+">>}

MCSymmetry == Permutations(UserNames) \cup Permutations(Roles)

====
