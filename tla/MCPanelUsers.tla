---------------------------- MODULE MCPanelUsers ----------------------------
(* Three users of two admins, one of them sold or made during the run. *)
EXTENDS PanelUsers, TLC

CONSTANTS u1, u2, u3, a1, a2
Start(owner) == [u \in Users |-> CASE u = u1 -> [id |-> 1, owner |-> a1, big |-> TRUE]
                                   [] u = u2 -> [id |-> 2, owner |-> owner, big |-> TRUE]
                                   [] OTHER  -> None]
Begin == {Start(a2), Start(None)}
Chosen ==
    { {"list", "delete", "lost", "reparent", "restore"}, {"search", "delete", "remove", "restore"},
      {"search", "delete", "sync", "lost", "remove"}, {"search", "delete", "sync", "lost", "recover"},
      {"list", "delete", "sync", "shop"}, {"list", "delete", "create"}, {"sync", "create"} }

=============================================================================
