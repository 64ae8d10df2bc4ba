------------------------------ MODULE MCAccess ------------------------------
(* The instance of Access for TLC.  What is tried together is what can     *)
(* meet: roles and registrations from any beginning, grants with           *)
(* invitations and with the deletion of an app, and what an app is left.   *)
EXTENDS Access, TLC

One == {{u} : u \in Users}
MCScenarios ==
  ({{}, Users} \union One) \X {{"invite", "uninvite", "role", "remove"}}
  \union One \X {{"invite", "access"}, {"app", "save", "deploy", "drop"}}
  \union {Users} \X {{"access", "app", "drop"},
                     {"app", "token", "revoke", "drop", "remove"}}
Symmetry == Permutations(Workers) \union Permutations(Users)
=============================================================================
