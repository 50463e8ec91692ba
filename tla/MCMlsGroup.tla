---------------------------- MODULE MCMlsGroup ----------------------------
(***************************************************************************)
(* Two members and a client that can be added: commits compete for an      *)
(* epoch, in which a member updates, another is added or one is removed.   *)
(* The churn instance has the two members only, one of which is removed    *)
(* and added again.                                                        *)
(***************************************************************************)
EXTENDS MlsGroup

MCKey == [c \in 0..2 |-> <<"k0", "k1", "k2">>[c + 1]]

MCKinds == {<<"Add", 2>>, <<"Remove", 1>>, <<"Update", 1>>}

MCChurnKinds == {<<"Add", 1>>, <<"Remove", 1>>, <<"Update", 1>>}
=============================================================================
