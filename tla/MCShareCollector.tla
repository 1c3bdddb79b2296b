--------------------------- MODULE MCShareCollector ---------------------------
(* Four names of which one is not on the allowlist, for collectors with and    *)
(* without one; two submissions under the first name and an empty share under   *)
(* the second.                                                                *)
EXTENDS ShareCollector

CONSTANTS m1, m2, m3, m4

MCAllowlists == { {m1, m2, m3}, Names }

MCNameIn == [s \in Submissions |->
  CASE s \in {"a", "retry"} -> m1
    [] s \in {"b", "empty"} -> m2
    [] s = "c" -> m3
    [] s = "outsider" -> m4]
=============================================================================
