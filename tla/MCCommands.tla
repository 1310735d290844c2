------------------------------ MODULE MCCommands -----------------------------
(* Two plugins that want the same name and the same alias, one started before *)
(* cmdmanager and one after it.                                               *)
EXTENDS Commands

MCLoadOrder == <<"poweradmin", "cmdmanager", "stats">>
MCOffers ==
    [poweradmin |-> <<[plugin |-> "poweradmin", name |-> "slap", alias |-> "s"]>>,
     cmdmanager |-> <<>>,
     stats |-> <<[plugin |-> "stats", name |-> "score", alias |-> "s"],
                 [plugin |-> "stats", name |-> "slap", alias |-> NoWord]>>]
=============================================================================
