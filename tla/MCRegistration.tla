--------------------------- MODULE MCRegistration ---------------------------
(***************************************************************************)
(* Instances of Registration for TLC.                                      *)
(***************************************************************************)
EXTENDS Registration, TLC

CONSTANTS d1, d2, a1, a2, a3

\* Two agents on one device, one on another.
TwoAndOne == (a1 :> d1) @@ (a2 :> d1) @@ (a3 :> d2)

\* Two projects, a directory inside the second, and the home of the state.
Selectable == {<<"one">>, <<"two">>, <<"two", "inner">>, <<"home">>}
HomeState == <<"home", "state">>
AgentDatabase == {<<"two", "agent.db">>}

\* Agents look for databases of the base folder only, and for the file that is set.
RestoresOfBase == \A u \in state : u.by = "restore" => u.database.folder \in {0, Base}

Symmetry == Permutations({a1, a2})
=============================================================================
