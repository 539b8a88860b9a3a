---------------------------- MODULE MCTaskOrder -----------------------------
(***************************************************************************)
(* All configurations of up to three tasks with up to two needs each.      *)
(***************************************************************************)
EXTENDS TaskOrder

MCNames == 1..3
UpToTwo == {<<>>} \cup {<<n>> : n \in MCNames} \cup (MCNames \X MCNames)
=============================================================================
