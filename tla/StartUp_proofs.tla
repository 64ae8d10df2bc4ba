--------------------------- MODULE StartUp_proofs ---------------------------
(***************************************************************************)
(* Proofs about StartUp: whatever the old data, however often and wherever *)
(* the server stops, and whatever directory operations fail.               *)
(***************************************************************************)
EXTENDS StartUp, TLAPS

\* Where each step of a start finds its variables.
StepOK ==
  /\ pc = "role" => creating \in OldUsers
  /\ pc \in {"copyGrants", "rename"} => staging # NoTable
  /\ pc \in {"copy", "remove"} =>
       next <= 4 /\ root[Dir] # NoDir /\ app[Dir] # NoDir

TypeInv == TypeOK /\ StepOK

Migrating == {"user", "role", "copyGrants", "rename", "dropUsers"}
Moving == {"move", "copy", "remove", "rollback"}
Moved == {"ensure", "sidecars", "rows", "removeSidecars", "serve"}
Done == {"email", "mark", "layout"} \union Moving \union Moved

\* Every grant is in app_access, or on its way through app_access_new.
GrantsInv ==
  "grants" \notin damage =>
    /\ oldTable => granted \subseteq OldUsers
    /\ oldTable /\ pc \notin {"rename", "dropUsers"} =>
         keyed = "old" /\ access = granted
    /\ pc = "finalize" /\ oldTable => idMap = OldUsers
    /\ pc = "copyGrants" => staging \subseteq granted /\ granted \ idMap \subseteq staging
    /\ pc = "rename" => keyed = "none" /\ staging = granted
    /\ pc = "dropUsers" \/ ~oldTable => keyed = "new" /\ access = granted

\* The old table goes away before the emails are verified, and they are
\* verified before anybody registers.
UsersInv ==
  /\ pc \in Migrating => oldTable
  /\ pc \in Done \/ marker => ~oldTable
  /\ pc \in {"layout"} \union Moving \union Moved => marker
  /\ accounts \subseteq roleOf \union cut \union (IF pc = "role" THEN {creating} ELSE {})
  /\ IF marker THEN verified = accounts \ registered ELSE registered = {}
  /\ pc = "mark" => verified = accounts

Kept(d) == FilesIn(root, d) \union FilesIn(app, d) = Files

\* Nothing of the directories that were moved is left where they were, and
\* what is removed has been copied.
LayoutInv ==
  /\ \A d \in had : Kept(d)
  /\ \A d \in moved : root[d] = NoDir
  /\ pc \in {"move", "copy", "remove"} =>
       \A i \in 1..(next - 1) : root[DirsToMove[i]] = NoDir
  /\ pc = "remove" => root[Dir] \subseteq app[Dir]
  /\ pc \notin Moving \union Moved \union {"failed"} => next = 1 /\ moved = {}

\* A start that finds no schemas under data/ finds all of default/, unless a
\* stop fell between.
MovedInv ==
  "layout" \notin damage =>
    /\ pc \notin Moving \union Moved \union {"failed"} /\ root["schemas"] = NoDir =>
         \A d \in had : FilesIn(app, d) = Files
    /\ pc \in Moved => \A d \in had : FilesIn(app, d) = Files
    /\ pc \in Moved \ {"ensure"} => \A d \in had : app[d] = Files

\* Where there are uploads, there are all the documents that refer to them.
SidecarsInv ==
  /\ had \in OldLayouts
  /\ pc = "rows" => MetaFiles # {}
  /\ pc = "removeSidecars" => MetaFiles \subseteq rows
  /\ "copy" \notin damage =>
       /\ pc # "rollback"
       /\ had # {} =>
            /\ Files \ sidecars \subseteq rows
            /\ sidecars # Files \/ pc = "removeSidecars" => refs = Files
            /\ FilesIn(app, "uploads") # {} => FilesIn(app, "content") = Files

Inv == TypeInv /\ GrantsInv /\ UsersInv /\ LayoutInv /\ MovedInv /\ SidecarsInv

-----------------------------------------------------------------------------

\* The directories that are moved are those there may be, each once.
LEMMA DirsListed ==
  /\ \A i \in 1..4 : DirsToMove[i] \in Dirs
  /\ \A d \in Dirs : \E i \in 1..4 : DirsToMove[i] = d
  /\ Len(DirsToMove) = 4
BY DEF DirsToMove, Dirs

\* While there is a directory left to move, Dir is one.
LEMMA DirTyped == TypeInv /\ next <= 4 => Dir \in Dirs
BY DirsListed DEF Dir, TypeInv, TypeOK

\* Every action keeps the types.
LEMMA TypeInvStep == TypeInv /\ [Next]_vars => TypeInv'
<1> SUFFICES ASSUME TypeInv, [Next]_vars PROVE TypeInv'
  OBVIOUS
<1> USE DEF TypeInv, TypeOK, StepOK, Dir, Users, Damage, MetaFiles, FilesIn, Begin,
         vars, tables, emails, layout, uploads, local, history
<1>1. CASE UNCHANGED vars
  BY <1>1
<1>2. CASE BeginUsers
  BY <1>2 DEF BeginUsers
<1>3. CASE AssignRole
  BY <1>3 DEF AssignRole
<1>4. ASSUME NEW u \in OldUsers, SkipUser(u) PROVE TypeInv'
  BY <1>4 DEF SkipUser
<1>5. ASSUME NEW u \in OldUsers, CreateUser(u) PROVE TypeInv'
  BY <1>5 DEF CreateUser
<1>6. ASSUME NEW u \in OldUsers, CopyGrants(u) PROVE TypeInv'
  BY <1>6, StartUpAssumption DEF CopyGrants
<1>7. CASE BeginFinalize
  BY <1>7, StartUpAssumption DEF BeginFinalize
<1>8. CASE DropAccess
  BY <1>8 DEF DropAccess
<1>9. CASE RenameAccess
  BY <1>9 DEF RenameAccess
<1>10. CASE DropUsers
  BY <1>10 DEF DropUsers
<1>11. CASE VerifyEmails
  BY <1>11 DEF VerifyEmails
<1>12. CASE MarkVerified
  BY <1>12 DEF MarkVerified
<1>13. CASE BeginLayout
  BY <1>13 DEF BeginLayout
<1>14. CASE MoveDir
  <2>1. next <= 4 /\ Dir \in Dirs
    BY <1>14, DirsListed, DirTyped DEF MoveDir
  <2>2. FilesIn(app, Dir) \in SUBSET Files /\ FilesIn(app, Dir) # NoDir
    BY <2>1, StartUpAssumption
  <2> QED
    BY <1>14, <2>1, <2>2 DEF MoveDir
<1>15. CASE EndMove
  BY <1>15, DirsListed DEF EndMove
<1>16. CASE EndCopy
  BY <1>16 DEF EndCopy
<1>17. CASE EndRollback
  BY <1>17 DEF EndRollback
<1>18. CASE EndRemove
  BY <1>18, DirTyped, StartUpAssumption DEF EndRemove
<1>19. CASE EnsureAppDirs
  BY <1>19 DEF EnsureAppDirs
<1>20. ASSUME NEW f \in Files, CopyFile(f) PROVE TypeInv'
  BY <1>20, DirTyped, StartUpAssumption DEF CopyFile
<1>21. ASSUME NEW f \in Files, RemoveFile(f) PROVE TypeInv'
  BY <1>21, DirTyped, StartUpAssumption DEF RemoveFile
<1>22. ASSUME NEW f \in Files, InsertUpload(f) PROVE TypeInv'
  BY <1>22 DEF InsertUpload
<1>23. ASSUME NEW f \in Files, RemoveSidecar(f) PROVE TypeInv'
  BY <1>23 DEF RemoveSidecar
<1>24. ASSUME NEW d \in Dirs, Rollback(d) PROVE TypeInv'
  BY <1>24, StartUpAssumption DEF Rollback
<1>25. CASE BeginSidecars
  BY <1>25 DEF BeginSidecars
<1>26. CASE PopulateReferences
  BY <1>26 DEF PopulateReferences, Dirs
<1>27. CASE EndSidecars
  BY <1>27 DEF EndSidecars
<1>28. CASE StartAgain
  BY <1>28 DEF StartAgain
<1>29. CASE CopyFails
  BY <1>29, StartUpAssumption DEF CopyFails
<1>30. CASE RemoveFails
  BY <1>30, StartUpAssumption DEF RemoveFails
<1>31. CASE Crash
  BY <1>31, StartUpAssumption DEF Crash
<1>32. ASSUME NEW u \in Users, ChangeGrants(u) PROVE TypeInv'
  BY <1>32 DEF ChangeGrants
<1>33. ASSUME NEW u \in NewUsers, Register(u) PROVE TypeInv'
  BY <1>33 DEF Register
<1> QED
  BY <1>1, <1>2, <1>3, <1>4, <1>5, <1>6, <1>7, <1>8, <1>9, <1>10, <1>11,
     <1>12, <1>13, <1>14, <1>15, <1>16, <1>17, <1>18, <1>19, <1>20, <1>21,
     <1>22, <1>23, <1>24, <1>25, <1>26, <1>27, <1>28, <1>29, <1>30, <1>31,
     <1>32, <1>33 DEF Next, Start, Environment

\* UsersInv is inductive: a user is created before the old table goes, and
\* verified before anybody registers.
LEMMA UsersInvStep == TypeInv /\ UsersInv /\ [Next]_vars => UsersInv'
<1> SUFFICES ASSUME TypeInv, UsersInv, [Next]_vars PROVE UsersInv'
  OBVIOUS
<1> USE DEF UsersInv, TypeInv, TypeOK, StepOK, Begin, Users, Migrating, Moving, Moved, Done,
         vars, tables, emails, layout, uploads, local, history
<1>1. CASE UNCHANGED vars
  BY <1>1
<1>2. CASE BeginUsers
  BY <1>2 DEF BeginUsers
<1>3. CASE AssignRole
  BY <1>3 DEF AssignRole
<1>4. ASSUME NEW u \in OldUsers, SkipUser(u) PROVE UsersInv'
  BY <1>4 DEF SkipUser
<1>5. ASSUME NEW u \in OldUsers, CreateUser(u) PROVE UsersInv'
  BY <1>5 DEF CreateUser
<1>6. ASSUME NEW u \in OldUsers, CopyGrants(u) PROVE UsersInv'
  BY <1>6 DEF CopyGrants
<1>7. CASE BeginFinalize
  BY <1>7 DEF BeginFinalize
<1>8. CASE DropAccess
  BY <1>8 DEF DropAccess
<1>9. CASE RenameAccess
  BY <1>9 DEF RenameAccess
<1>10. CASE DropUsers
  BY <1>10 DEF DropUsers
<1>11. CASE VerifyEmails
  BY <1>11 DEF VerifyEmails
<1>12. CASE MarkVerified
  BY <1>12 DEF MarkVerified
<1>13. CASE BeginLayout
  BY <1>13 DEF BeginLayout
<1>14. CASE MoveDir
  BY <1>14 DEF MoveDir
<1>15. CASE EndMove
  BY <1>15 DEF EndMove
<1>16. CASE EndCopy
  BY <1>16 DEF EndCopy
<1>17. CASE EndRollback
  BY <1>17 DEF EndRollback
<1>18. CASE EndRemove
  BY <1>18 DEF EndRemove
<1>19. CASE EnsureAppDirs
  BY <1>19 DEF EnsureAppDirs
<1>20. ASSUME NEW f \in Files, CopyFile(f) PROVE UsersInv'
  BY <1>20 DEF CopyFile
<1>21. ASSUME NEW f \in Files, RemoveFile(f) PROVE UsersInv'
  BY <1>21 DEF RemoveFile
<1>22. ASSUME NEW f \in Files, InsertUpload(f) PROVE UsersInv'
  BY <1>22 DEF InsertUpload
<1>23. ASSUME NEW f \in Files, RemoveSidecar(f) PROVE UsersInv'
  BY <1>23 DEF RemoveSidecar
<1>24. ASSUME NEW d \in Dirs, Rollback(d) PROVE UsersInv'
  BY <1>24 DEF Rollback
<1>25. CASE BeginSidecars
  BY <1>25 DEF BeginSidecars
<1>26. CASE PopulateReferences
  BY <1>26 DEF PopulateReferences
<1>27. CASE EndSidecars
  BY <1>27 DEF EndSidecars
<1>28. CASE StartAgain
  BY <1>28 DEF StartAgain
<1>29. CASE CopyFails
  BY <1>29 DEF CopyFails
<1>30. CASE RemoveFails
  BY <1>30 DEF RemoveFails
<1>31. CASE Crash
  BY <1>31 DEF Crash
<1>32. ASSUME NEW u \in Users, ChangeGrants(u) PROVE UsersInv'
  BY <1>32 DEF ChangeGrants
<1>33. ASSUME NEW u \in NewUsers, Register(u) PROVE UsersInv'
  BY <1>33 DEF Register
<1> QED
  BY <1>1, <1>2, <1>3, <1>4, <1>5, <1>6, <1>7, <1>8, <1>9, <1>10, <1>11,
     <1>12, <1>13, <1>14, <1>15, <1>16, <1>17, <1>18, <1>19, <1>20, <1>21,
     <1>22, <1>23, <1>24, <1>25, <1>26, <1>27, <1>28, <1>29, <1>30, <1>31,
     <1>32, <1>33 DEF Next, Start, Environment

\* GrantsInv is inductive: the grants are copied before app_access is dropped,
\* and a stop after that is one of the stops that count as damage.
LEMMA GrantsInvStep == TypeInv /\ UsersInv /\ GrantsInv /\ [Next]_vars => GrantsInv'
<1> SUFFICES ASSUME TypeInv, UsersInv, GrantsInv, [Next]_vars PROVE GrantsInv'
  OBVIOUS
<1> USE DEF GrantsInv, TypeInv, TypeOK, StepOK, Begin, Damage, InGrants, Users,
         vars, tables, emails, layout, uploads, local, history
<1>1. CASE UNCHANGED vars
  BY <1>1
<1>2. CASE BeginUsers
  BY <1>2 DEF BeginUsers
<1>3. CASE AssignRole
  BY <1>3 DEF AssignRole
<1>4. ASSUME NEW u \in OldUsers, SkipUser(u) PROVE GrantsInv'
  BY <1>4 DEF SkipUser
<1>5. ASSUME NEW u \in OldUsers, CreateUser(u) PROVE GrantsInv'
  BY <1>5 DEF CreateUser
<1>6. ASSUME NEW u \in OldUsers, CopyGrants(u) PROVE GrantsInv'
  BY <1>6 DEF CopyGrants, UsersInv, Migrating, Moving, Moved, Done
<1>7. CASE BeginFinalize
  BY <1>7 DEF BeginFinalize
<1>8. CASE DropAccess
  BY <1>8 DEF DropAccess, UsersInv, Migrating, Moving, Moved, Done
<1>9. CASE RenameAccess
  BY <1>9 DEF RenameAccess
<1>10. CASE DropUsers
  BY <1>10 DEF DropUsers
<1>11. CASE VerifyEmails
  BY <1>11 DEF VerifyEmails
<1>12. CASE MarkVerified
  BY <1>12 DEF MarkVerified
<1>13. CASE BeginLayout
  BY <1>13 DEF BeginLayout
<1>14. CASE MoveDir
  BY <1>14 DEF MoveDir
<1>15. CASE EndMove
  BY <1>15 DEF EndMove
<1>16. CASE EndCopy
  BY <1>16 DEF EndCopy
<1>17. CASE EndRollback
  BY <1>17 DEF EndRollback
<1>18. CASE EndRemove
  BY <1>18 DEF EndRemove
<1>19. CASE EnsureAppDirs
  BY <1>19 DEF EnsureAppDirs
<1>20. ASSUME NEW f \in Files, CopyFile(f) PROVE GrantsInv'
  BY <1>20 DEF CopyFile
<1>21. ASSUME NEW f \in Files, RemoveFile(f) PROVE GrantsInv'
  BY <1>21 DEF RemoveFile
<1>22. ASSUME NEW f \in Files, InsertUpload(f) PROVE GrantsInv'
  BY <1>22 DEF InsertUpload
<1>23. ASSUME NEW f \in Files, RemoveSidecar(f) PROVE GrantsInv'
  BY <1>23 DEF RemoveSidecar
<1>24. ASSUME NEW d \in Dirs, Rollback(d) PROVE GrantsInv'
  BY <1>24 DEF Rollback
<1>25. CASE BeginSidecars
  BY <1>25 DEF BeginSidecars
<1>26. CASE PopulateReferences
  BY <1>26 DEF PopulateReferences
<1>27. CASE EndSidecars
  BY <1>27 DEF EndSidecars
<1>28. CASE StartAgain
  BY <1>28 DEF StartAgain
<1>29. CASE CopyFails
  BY <1>29 DEF CopyFails
<1>30. CASE RemoveFails
  BY <1>30 DEF RemoveFails
<1>31. CASE Crash
  BY <1>31 DEF Crash, UsersInv, Migrating, Moving, Moved, Done
<1>32. ASSUME NEW u \in Users, ChangeGrants(u) PROVE GrantsInv'
  BY <1>32 DEF ChangeGrants, UsersInv, Migrating, Moving, Moved, Done
<1>33. ASSUME NEW u \in NewUsers, Register(u) PROVE GrantsInv'
  BY <1>33 DEF Register
<1> QED
  BY <1>1, <1>2, <1>3, <1>4, <1>5, <1>6, <1>7, <1>8, <1>9, <1>10, <1>11,
     <1>12, <1>13, <1>14, <1>15, <1>16, <1>17, <1>18, <1>19, <1>20, <1>21,
     <1>22, <1>23, <1>24, <1>25, <1>26, <1>27, <1>28, <1>29, <1>30, <1>31,
     <1>32, <1>33 DEF Next, Start, Environment

\* What is kept under default/ once a directory is not under data/ any more.
LEMMA KeptInApp ==
  ASSUME TypeInv, NEW d \in Dirs, Kept(d), FilesIn(root, d) = {}
  PROVE  FilesIn(app, d) = Files
BY DEF Kept

\* LayoutInv is inductive: nothing is removed that was not copied, and nothing
\* is moved back over files.
LEMMA LayoutInvStep == TypeInv /\ LayoutInv /\ [Next]_vars => LayoutInv'
<1> SUFFICES ASSUME TypeInv, LayoutInv, [Next]_vars PROVE LayoutInv'
  OBVIOUS
<1> USE DEF LayoutInv, Kept, TypeInv, TypeOK, StepOK, Dir, FilesIn, Moving, Moved, Begin,
         vars, tables, emails, layout, uploads, local, history
<1>1. CASE UNCHANGED vars
  BY <1>1
<1>2. CASE BeginUsers
  BY <1>2 DEF BeginUsers
<1>3. CASE AssignRole
  BY <1>3 DEF AssignRole
<1>4. ASSUME NEW u \in OldUsers, SkipUser(u) PROVE LayoutInv'
  BY <1>4 DEF SkipUser
<1>5. ASSUME NEW u \in OldUsers, CreateUser(u) PROVE LayoutInv'
  BY <1>5 DEF CreateUser
<1>6. ASSUME NEW u \in OldUsers, CopyGrants(u) PROVE LayoutInv'
  BY <1>6 DEF CopyGrants
<1>7. CASE BeginFinalize
  BY <1>7 DEF BeginFinalize
<1>8. CASE DropAccess
  BY <1>8 DEF DropAccess
<1>9. CASE RenameAccess
  BY <1>9 DEF RenameAccess
<1>10. CASE DropUsers
  BY <1>10 DEF DropUsers
<1>11. CASE VerifyEmails
  BY <1>11 DEF VerifyEmails
<1>12. CASE MarkVerified
  BY <1>12 DEF MarkVerified
<1>13. CASE BeginLayout
  BY <1>13 DEF BeginLayout
<1>14. CASE MoveDir
  BY <1>14, StartUpAssumption, DirsListed DEF MoveDir
<1>15. CASE EndMove
  BY <1>15 DEF EndMove
<1>16. CASE EndCopy
  BY <1>16, StartUpAssumption, DirsListed DEF EndCopy
<1>17. CASE EndRollback
  BY <1>17 DEF EndRollback
<1>18. CASE EndRemove
  BY <1>18, StartUpAssumption, DirsListed DEF EndRemove
<1>19. CASE EnsureAppDirs
  BY <1>19 DEF EnsureAppDirs
<1>20. ASSUME NEW f \in Files, CopyFile(f) PROVE LayoutInv'
  BY <1>20, StartUpAssumption, DirsListed DEF CopyFile
<1>21. ASSUME NEW f \in Files, RemoveFile(f) PROVE LayoutInv'
  BY <1>21, StartUpAssumption, DirsListed DEF RemoveFile
<1>22. ASSUME NEW f \in Files, InsertUpload(f) PROVE LayoutInv'
  BY <1>22 DEF InsertUpload
<1>23. ASSUME NEW f \in Files, RemoveSidecar(f) PROVE LayoutInv'
  BY <1>23 DEF RemoveSidecar
<1>24. ASSUME NEW d \in Dirs, Rollback(d) PROVE LayoutInv'
  BY <1>24 DEF Rollback
<1>25. CASE BeginSidecars
  BY <1>25 DEF BeginSidecars
<1>26. CASE PopulateReferences
  BY <1>26 DEF PopulateReferences
<1>27. CASE EndSidecars
  BY <1>27 DEF EndSidecars
<1>28. CASE StartAgain
  BY <1>28 DEF StartAgain
<1>29. CASE CopyFails
  BY <1>29 DEF CopyFails
<1>30. CASE RemoveFails
  BY <1>30 DEF RemoveFails
<1>31. CASE Crash
  BY <1>31 DEF Crash
<1>32. ASSUME NEW u \in Users, ChangeGrants(u) PROVE LayoutInv'
  BY <1>32 DEF ChangeGrants
<1>33. ASSUME NEW u \in NewUsers, Register(u) PROVE LayoutInv'
  BY <1>33 DEF Register
<1> QED
  BY <1>1, <1>2, <1>3, <1>4, <1>5, <1>6, <1>7, <1>8, <1>9, <1>10, <1>11,
     <1>12, <1>13, <1>14, <1>15, <1>16, <1>17, <1>18, <1>19, <1>20, <1>21,
     <1>22, <1>23, <1>24, <1>25, <1>26, <1>27, <1>28, <1>29, <1>30, <1>31,
     <1>32, <1>33 DEF Next, Start, Environment

\* MovedInv is inductive: serving comes after the last directory.
LEMMA MovedInvStep == TypeInv /\ LayoutInv /\ MovedInv /\ [Next]_vars => MovedInv'
<1> SUFFICES ASSUME TypeInv, LayoutInv, MovedInv, [Next]_vars PROVE MovedInv'
  OBVIOUS
<1> USE DEF MovedInv, Moving, Moved, Begin, vars, tables, emails, layout, uploads, local, history
<1>1. CASE UNCHANGED vars
  BY <1>1 DEF FilesIn
<1>2. CASE BeginUsers
  BY <1>2 DEF BeginUsers
<1>3. CASE AssignRole
  BY <1>3 DEF AssignRole
<1>4. ASSUME NEW u \in OldUsers, SkipUser(u) PROVE MovedInv'
  BY <1>4 DEF SkipUser
<1>5. ASSUME NEW u \in OldUsers, CreateUser(u) PROVE MovedInv'
  BY <1>5 DEF CreateUser
<1>6. ASSUME NEW u \in OldUsers, CopyGrants(u) PROVE MovedInv'
  BY <1>6 DEF CopyGrants
<1>7. CASE BeginFinalize
  BY <1>7 DEF BeginFinalize
<1>8. CASE DropAccess
  BY <1>8 DEF DropAccess
<1>9. CASE RenameAccess
  BY <1>9 DEF RenameAccess
<1>10. CASE DropUsers
  BY <1>10 DEF DropUsers
<1>11. CASE VerifyEmails
  BY <1>11 DEF VerifyEmails
<1>12. CASE MarkVerified
  BY <1>12 DEF MarkVerified
<1>13. CASE BeginLayout
  BY <1>13 DEF BeginLayout
<1>14. CASE MoveDir
  BY <1>14 DEF MoveDir
<1>15. CASE EndMove
  <2>1. ASSUME NEW d \in had PROVE FilesIn(app, d) = Files
    <3>1. PICK i \in 1..4 : DirsToMove[i] = d
      BY DirsListed DEF TypeInv, TypeOK
    <3>2. next = 5 /\ root[d] = NoDir
      BY <1>15, <3>1, DirsListed DEF EndMove, LayoutInv, TypeInv, TypeOK
    <3> QED
      BY <3>2, KeptInApp DEF LayoutInv, FilesIn, TypeInv, TypeOK
  <2> QED
    BY <1>15, <2>1 DEF EndMove, FilesIn
<1>16. CASE EndCopy
  BY <1>16 DEF EndCopy
<1>17. CASE EndRollback
  BY <1>17 DEF EndRollback
<1>18. CASE EndRemove
  BY <1>18 DEF EndRemove
<1>19. CASE EnsureAppDirs
  BY <1>19, StartUpAssumption DEF EnsureAppDirs, FilesIn, TypeInv, TypeOK
<1>20. ASSUME NEW f \in Files, CopyFile(f) PROVE MovedInv'
  BY <1>20 DEF CopyFile
<1>21. ASSUME NEW f \in Files, RemoveFile(f) PROVE MovedInv'
  BY <1>21 DEF RemoveFile
<1>22. ASSUME NEW f \in Files, InsertUpload(f) PROVE MovedInv'
  BY <1>22 DEF InsertUpload
<1>23. ASSUME NEW f \in Files, RemoveSidecar(f) PROVE MovedInv'
  BY <1>23 DEF RemoveSidecar
<1>24. ASSUME NEW d \in Dirs, Rollback(d) PROVE MovedInv'
  BY <1>24 DEF Rollback
<1>25. CASE BeginSidecars
  BY <1>25 DEF BeginSidecars
<1>26. CASE PopulateReferences
  BY <1>26 DEF PopulateReferences
<1>27. CASE EndSidecars
  BY <1>27 DEF EndSidecars
<1>28. CASE StartAgain
  BY <1>28 DEF StartAgain, Damage, InLayout, FilesIn
<1>29. CASE CopyFails
  BY <1>29 DEF CopyFails
<1>30. CASE RemoveFails
  BY <1>30 DEF RemoveFails
<1>31. CASE Crash
  BY <1>31 DEF Crash, Damage, InLayout, FilesIn
<1>32. ASSUME NEW u \in Users, ChangeGrants(u) PROVE MovedInv'
  BY <1>32 DEF ChangeGrants
<1>33. ASSUME NEW u \in NewUsers, Register(u) PROVE MovedInv'
  BY <1>33 DEF Register
<1> QED
  BY <1>1, <1>2, <1>3, <1>4, <1>5, <1>6, <1>7, <1>8, <1>9, <1>10, <1>11,
     <1>12, <1>13, <1>14, <1>15, <1>16, <1>17, <1>18, <1>19, <1>20, <1>21,
     <1>22, <1>23, <1>24, <1>25, <1>26, <1>27, <1>28, <1>29, <1>30, <1>31,
     <1>32, <1>33 DEF Next, Start, Environment

\* Uploads are moved when all of content has been.
LEMMA ContentFirst ==
  ASSUME TypeInv, LayoutInv, had \in OldLayouts, had # {},
         pc \in {"move", "copy"}, next <= 4, Dir = "uploads"
  PROVE  FilesIn(app, "content") = Files
<1>1. next = 3 /\ DirsToMove[2] = "content"
  BY DEF Dir, DirsToMove, TypeInv, TypeOK
<1>2. "content" \in had /\ "content" \in Dirs
  BY DEF OldLayouts, Dirs
<1>3. root["content"] = NoDir
  BY <1>1 DEF LayoutInv
<1> QED
  BY <1>2, <1>3, KeptInApp DEF LayoutInv, FilesIn

\* Adding to a directory of default/ keeps SidecarsInv, if uploads come last.
LEMMA DirGrows ==
  ASSUME TypeInv, LayoutInv, SidecarsInv, pc \in {"move", "copy"}, next <= 4,
         app' \in [Dirs -> (SUBSET Files) \union {NoDir}],
         \A d \in Dirs : FilesIn(app, d) \subseteq FilesIn(app, d)',
         \A d \in Dirs \ {Dir} : app'[d] = app[d],
         pc' \in {"move", "copy"}, UNCHANGED <<damage, had, sidecars, rows, refs>>
  PROVE  SidecarsInv'
<1> SUFFICES ASSUME "copy" \notin damage, had # {}, FilesIn(app, "uploads")' # {}
             PROVE  FilesIn(app, "content")' = Files
  BY DEF SidecarsInv
<1>1. "uploads" \in Dirs /\ "content" \in Dirs
  BY DEF Dirs
<1>2. FilesIn(app, "content")' \subseteq Files
  BY <1>1 DEF FilesIn
<1>3. FilesIn(app, "content") = Files
  <2>1. CASE Dir = "uploads"
    BY <2>1, ContentFirst DEF SidecarsInv
  <2>2. CASE Dir # "uploads"
    BY <1>1, <2>2 DEF FilesIn, SidecarsInv
  <2> QED
    BY <2>1, <2>2
<1> QED
  BY <1>1, <1>2, <1>3

\* SidecarsInv is inductive: rows and references come before the removal.
LEMMA SidecarsInvStep == TypeInv /\ LayoutInv /\ SidecarsInv /\ [Next]_vars => SidecarsInv'
<1> SUFFICES ASSUME TypeInv, LayoutInv, SidecarsInv, [Next]_vars PROVE SidecarsInv'
  OBVIOUS
<1> USE DEF MetaFiles, Begin, vars, tables, emails, layout, uploads, local, history
<1>1. CASE UNCHANGED vars
  BY <1>1 DEF SidecarsInv, FilesIn
<1>2. CASE BeginUsers
  BY <1>2 DEF BeginUsers, SidecarsInv, FilesIn
<1>3. CASE AssignRole
  BY <1>3 DEF AssignRole, SidecarsInv, FilesIn
<1>4. ASSUME NEW u \in OldUsers, SkipUser(u) PROVE SidecarsInv'
  BY <1>4 DEF SkipUser, SidecarsInv, FilesIn
<1>5. ASSUME NEW u \in OldUsers, CreateUser(u) PROVE SidecarsInv'
  BY <1>5 DEF CreateUser, SidecarsInv, FilesIn
<1>6. ASSUME NEW u \in OldUsers, CopyGrants(u) PROVE SidecarsInv'
  BY <1>6 DEF CopyGrants, SidecarsInv, FilesIn
<1>7. CASE BeginFinalize
  BY <1>7 DEF BeginFinalize, SidecarsInv, FilesIn
<1>8. CASE DropAccess
  BY <1>8 DEF DropAccess, SidecarsInv, FilesIn
<1>9. CASE RenameAccess
  BY <1>9 DEF RenameAccess, SidecarsInv, FilesIn
<1>10. CASE DropUsers
  BY <1>10 DEF DropUsers, SidecarsInv, FilesIn
<1>11. CASE VerifyEmails
  BY <1>11 DEF VerifyEmails, SidecarsInv, FilesIn
<1>12. CASE MarkVerified
  BY <1>12 DEF MarkVerified, SidecarsInv, FilesIn
<1>13. CASE BeginLayout
  BY <1>13 DEF BeginLayout, SidecarsInv, FilesIn
<1>14. CASE MoveDir
  <2>1. app' \in [Dirs -> (SUBSET Files) \union {NoDir}]
    BY TypeInvStep DEF TypeInv, TypeOK
  <2>2. next <= 4 /\ Dir \in Dirs /\ pc \in {"move", "copy"} /\ pc' \in {"move", "copy"}
    BY <1>14, DirsListed, DirTyped DEF MoveDir, TypeInv, StepOK
  <2>3. \A d \in Dirs \ {Dir} : app'[d] = app[d]
    BY <1>14 DEF MoveDir, TypeInv, TypeOK
  <2>4. FilesIn(app, Dir) \subseteq FilesIn(app', Dir)
    BY <1>14, <2>2, StartUpAssumption DEF MoveDir, FilesIn, TypeInv, TypeOK, StepOK
  <2>5. \A d \in Dirs : FilesIn(app, d) \subseteq FilesIn(app, d)'
    BY <2>3, <2>4 DEF FilesIn
  <2> QED
    BY <1>14, <2>1, <2>2, <2>3, <2>5, DirGrows DEF MoveDir
<1>15. CASE EndMove
  BY <1>15 DEF EndMove, SidecarsInv, FilesIn
<1>16. CASE EndCopy
  BY <1>16 DEF EndCopy, SidecarsInv, FilesIn
<1>17. CASE EndRollback
  BY <1>17 DEF EndRollback, SidecarsInv, FilesIn
<1>18. CASE EndRemove
  BY <1>18 DEF EndRemove, SidecarsInv, FilesIn
<1>19. CASE EnsureAppDirs
  <2>1. \A d \in Dirs : FilesIn(app', d) = FilesIn(app, d)
    BY <1>19, StartUpAssumption DEF EnsureAppDirs, FilesIn, TypeInv, TypeOK
  <2> QED
    BY <1>19, <2>1 DEF EnsureAppDirs, SidecarsInv, Dirs, FilesIn
<1>20. ASSUME NEW f \in Files, CopyFile(f) PROVE SidecarsInv'
  <2>1. app' \in [Dirs -> (SUBSET Files) \union {NoDir}]
    BY TypeInvStep DEF TypeInv, TypeOK
  <2>2. next <= 4 /\ Dir \in Dirs /\ pc \in {"move", "copy"} /\ pc' \in {"move", "copy"}
    BY <1>20, DirsListed, DirTyped DEF CopyFile, TypeInv, StepOK
  <2>3. \A d \in Dirs \ {Dir} : app'[d] = app[d]
    BY <1>20 DEF CopyFile, TypeInv, TypeOK
  <2>4. FilesIn(app, Dir) \subseteq FilesIn(app', Dir)
    BY <1>20, <2>2, StartUpAssumption DEF CopyFile, FilesIn, TypeInv, TypeOK, StepOK
  <2>5. \A d \in Dirs : FilesIn(app, d) \subseteq FilesIn(app, d)'
    BY <2>3, <2>4 DEF FilesIn
  <2> QED
    BY <1>20, <2>1, <2>2, <2>3, <2>5, DirGrows DEF CopyFile
<1>21. ASSUME NEW f \in Files, RemoveFile(f) PROVE SidecarsInv'
  BY <1>21 DEF RemoveFile, SidecarsInv, FilesIn
<1>22. ASSUME NEW f \in Files, InsertUpload(f) PROVE SidecarsInv'
  BY <1>22 DEF InsertUpload, SidecarsInv, FilesIn
<1>23. ASSUME NEW f \in Files, RemoveSidecar(f) PROVE SidecarsInv'
  BY <1>23 DEF RemoveSidecar, SidecarsInv, FilesIn
<1>24. ASSUME NEW d \in Dirs, Rollback(d) PROVE SidecarsInv'
  BY <1>24 DEF Rollback, SidecarsInv, FilesIn
<1>25. CASE BeginSidecars
  BY <1>25 DEF BeginSidecars, SidecarsInv, FilesIn
<1>26. CASE PopulateReferences
  <2>1. FilesIn(app, "content") \subseteq Files
    BY DEF FilesIn, Dirs, TypeInv, TypeOK
  <2>2. "copy" \notin damage /\ had # {} => FilesIn(app, "content") = Files
    BY <1>26 DEF PopulateReferences, SidecarsInv
  <2>3. FilesIn(app', "uploads") = FilesIn(app, "uploads")
        /\ FilesIn(app', "content") = FilesIn(app, "content")
    BY <1>26 DEF PopulateReferences, FilesIn
  <2> QED
    BY <1>26, <2>1, <2>2, <2>3 DEF PopulateReferences, SidecarsInv, TypeInv, TypeOK
<1>27. CASE EndSidecars
  BY <1>27 DEF EndSidecars, SidecarsInv, FilesIn
<1>28. CASE StartAgain
  BY <1>28 DEF StartAgain, Damage, SidecarsInv, FilesIn
<1>29. CASE CopyFails
  BY <1>29 DEF CopyFails, SidecarsInv, FilesIn
<1>30. CASE RemoveFails
  BY <1>30 DEF RemoveFails, SidecarsInv, FilesIn
<1>31. CASE Crash
  BY <1>31 DEF Crash, Damage, SidecarsInv, FilesIn
<1>32. ASSUME NEW u \in Users, ChangeGrants(u) PROVE SidecarsInv'
  BY <1>32 DEF ChangeGrants, SidecarsInv, FilesIn
<1>33. ASSUME NEW u \in NewUsers, Register(u) PROVE SidecarsInv'
  BY <1>33 DEF Register, SidecarsInv, FilesIn
<1> QED
  BY <1>1, <1>2, <1>3, <1>4, <1>5, <1>6, <1>7, <1>8, <1>9, <1>10, <1>11,
     <1>12, <1>13, <1>14, <1>15, <1>16, <1>17, <1>18, <1>19, <1>20, <1>21,
     <1>22, <1>23, <1>24, <1>25, <1>26, <1>27, <1>28, <1>29, <1>30, <1>31,
     <1>32, <1>33 DEF Next, Start, Environment

\* Any data of an older version satisfies the invariant.
LEMMA InitInv == Init => Inv
<1> SUFFICES ASSUME Init PROVE Inv
  OBVIOUS
<1> USE DEF Init
<1>1. TypeInv
  <2>1. access \subseteq Users /\ granted \subseteq Users
    BY DEF Users
  <2>2. /\ root \in [Dirs -> (SUBSET Files) \union {NoDir}]
        /\ app \in [Dirs -> (SUBSET Files) \union {NoDir}]
        /\ sidecars \subseteq Files
    OBVIOUS
  <2>3. had \subseteq Dirs
    BY DEF OldLayouts
  <2>4. stops \in 0..MaxStops
    BY StartUpAssumption
  <2>5. keyed \in {"old", "new", "none"} /\ accounts \subseteq Users
    OBVIOUS
  <2>6. staging \in (SUBSET OldUsers) \union {NoTable} /\ creating = Nobody /\ next \in 1..5
    OBVIOUS
  <2>7. StepOK
    BY DEF StepOK
  <2>8. TypeOK
    BY <2>1, <2>2, <2>3, <2>4, <2>5, <2>6 DEF TypeOK
  <2> QED
    BY <2>7, <2>8 DEF TypeInv
<1>2. GrantsInv /\ UsersInv
  BY DEF GrantsInv, UsersInv, Migrating, Moving, Moved, Done
<1>3. LayoutInv
  BY StartUpAssumption DEF LayoutInv, Kept, FilesIn, Moving, Moved, OldLayouts, Dirs
<1>4. MovedInv
  BY StartUpAssumption DEF MovedInv, Moving, Moved, OldLayouts, Dirs
<1>5. SidecarsInv
  BY DEF SidecarsInv, FilesIn, Dirs
<1> QED
  BY <1>1, <1>2, <1>3, <1>4, <1>5 DEF Inv

\* The parts of the invariant hold together.
LEMMA InvHolds == Spec => []Inv
<1>1. Inv /\ [Next]_vars => Inv'
  BY TypeInvStep, UsersInvStep, GrantsInvStep, LayoutInvStep, MovedInvStep,
     SidecarsInvStep DEF Inv
<1> QED
  BY <1>1, InitInv, PTL DEF Spec

\* Every start, and whatever is left when it stops, keeps the types.
THEOREM TypeCorrect == Spec => []TypeOK
<1>1. Inv => TypeOK
  BY DEF Inv, TypeInv
<1> QED
  BY <1>1, InvHolds, PTL

\* No file of the old layout is lost, however many starts stop, wherever, and
\* whatever copy, removal or rollback fails: a directory is removed only when
\* all of it was copied, and rolled back only over a place that is empty.
THEOREM NothingLostHolds == Spec => []NothingLost
<1>1. Inv => NothingLost
  BY DEF Inv, LayoutInv, Kept, NothingLost
<1> QED
  BY <1>1, InvHolds, PTL

\* A server that serves has all the directories under default/, unless a stop
\* fell between the move of schemas and that of the last directory.
THEOREM LayoutMovedHolds == Spec => []LayoutMoved
<1>1. Inv => LayoutMoved
  BY DEF Inv, MovedInv, Moved, LayoutMoved
<1> QED
  BY <1>1, InvHolds, PTL

\* The upgrade keeps the apps, the role and the way in of every old user for
\* any number of users and stops, but for the stops the properties name.
THEOREM UsersMigratedHolds == Spec => []UsersMigrated
<1>1. Inv => UsersMigrated
  BY DEF Inv, GrantsInv, UsersInv, Done, Migrating, Moving, Moved, UsersMigrated,
     GrantsMigrated, RolesMigrated, Grandfathered
<1> QED
  BY <1>1, InvHolds, PTL

\* No sidecar is deleted before its row and the references of every document
\* are recorded, wherever earlier starts stopped, unless a copy had failed:
\* where there are uploads under default/, all of content is there too.
THEOREM SidecarsRecordedHolds == Spec => []SidecarsRecorded
<1>1. Inv => SidecarsRecorded
  BY DEF Inv, SidecarsInv, SidecarsRecorded
<1> QED
  BY <1>1, InvHolds, PTL
=============================================================================
