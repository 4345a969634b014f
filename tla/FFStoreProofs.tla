--------------------------- MODULE FFStoreProofs ---------------------------
(***************************************************************************)
(* Proofs about FFStore, for any number of workers, names and values, any  *)
(* interleaving of their steps and any number of restarts.                 *)
(***************************************************************************)
EXTENDS FFStore, TLAPS

USE DEF At, Goto, Finish, Forget, disk, call, proc, hist

LEMMA ValidKey == \A n \in Names : validate_key(n) \in Dirs
  BY NamesAssumption DEF validate_key

LEMMA AnyDirType == AnyDir \in Dirs
  BY NamesAssumption DEF AnyDir

LEMMA InitType == Init => TypeOK
  BY AnyDirType, RestartAssumption DEF Init, TypeOK, Steps, PutSteps

LEMMA NextType == TypeOK /\ [Next]_vars => TypeOK'
<1> SUFFICES ASSUME TypeOK, [Next]_vars PROVE TypeOK'
  OBVIOUS
<1> USE DEF TypeOK, Steps, PutSteps, GetSteps, RemoveSteps, Contents
<1>1. ASSUME NEW w \in Workers, NEW d \in Dirs, NEW v \in Values, CallPut(w, d, v)
      PROVE TypeOK'
  BY <1>1 DEF CallPut, Removing
<1>2. ASSUME NEW w \in Workers, NEW d \in Dirs, CallGet(w, d)
      PROVE TypeOK'
  BY <1>2 DEF CallGet
<1>3. ASSUME NEW w \in Workers, NEW d \in Dirs, CallRemove(w, d)
      PROVE TypeOK'
  BY <1>3 DEF CallRemove
<1>4. ASSUME NEW why \in {"aborted", "killed"}, GoDown(why)
      PROVE TypeOK'
  BY <1>4, AnyDirType DEF GoDown
<1>5. ASSUME NEW w \in Workers, PutRawDir(w) PROVE TypeOK'
  BY <1>4, <1>5 DEF PutRawDir, Abort
<1>6. ASSUME NEW w \in Workers, PutMkRaw(w) PROVE TypeOK'
  <2>1. CASE val[w] \in rawDirs
    BY <1>4, <1>6, <2>1 DEF PutMkRaw, Abort
  <2>2. CASE val[w] \notin rawDirs
    BY <1>4, <1>6, <2>2 DEF PutMkRaw, Abort
  <2>q. QED
    BY <2>1, <2>2
<1>7. ASSUME NEW w \in Workers, PutOpen(w) \/ PutOpenFails(w) PROVE TypeOK'
  BY <1>4, <1>7 DEF PutOpen, PutOpenFails, Abort
<1>8. ASSUME NEW w \in Workers, PutWrite(w) PROVE TypeOK'
  BY <1>4, <1>8 DEF PutWrite, Abort
<1>9. ASSUME NEW w \in Workers, PutLinkDir(w) PROVE TypeOK'
  BY <1>4, <1>9 DEF PutLinkDir, Abort
<1>10. ASSUME NEW w \in Workers, PutMkLink(w) PROVE TypeOK'
  <2>1. CASE dir[w] \in linkDirs
    BY <1>4, <1>10, <2>1 DEF PutMkLink, Abort
  <2>2. CASE dir[w] \notin linkDirs
    BY <1>4, <1>10, <2>2 DEF PutMkLink, Abort
  <2>q. QED
    BY <2>1, <2>2
<1>11. ASSUME NEW w \in Workers, PutExists(w) PROVE TypeOK'
  BY <1>4, <1>11 DEF PutExists, Abort
<1>12. ASSUME NEW w \in Workers, PutSymlink(w) PROVE TypeOK'
  <2>1. CASE dir[w] \in linkDirs /\ val[w] \notin link[dir[w]]
    <3>1. val[w] \in Values /\ dir[w] \in Dirs
      BY <1>12 DEF PutSymlink
    <3>2. link' \in [Dirs -> SUBSET Values]
      BY <1>12, <2>1, <3>1 DEF PutSymlink
    <3>3. QED
      BY <1>12, <2>1, <3>2 DEF PutSymlink
  <2>2. CASE ~(dir[w] \in linkDirs /\ val[w] \notin link[dir[w]])
    BY <1>4, <1>12, <2>2 DEF PutSymlink, Abort
  <2>3. QED
    BY <2>1, <2>2
<1>13. ASSUME NEW w \in Workers, GetIsDir(w) PROVE TypeOK'
  BY <1>4, <1>13 DEF GetIsDir, Abort
<1>14. ASSUME NEW w \in Workers, GetIter(w) PROVE TypeOK'
  <2>1. CASE UNCHANGED val /\ \E r \in BOOLEAN : Finish(w, "get_done", r)
    BY <1>14, <2>1 DEF GetIter
  <2>2. ASSUME NEW v \in link[dir[w]], val' = [val EXCEPT ![w] = v],
               Goto(w, "get_open"), UNCHANGED ok
        PROVE TypeOK'
    BY <1>14, <2>2 DEF GetIter
  <2>3. QED
    BY <1>14, <2>1, <2>2 DEF GetIter
<1>15. ASSUME NEW w \in Workers, GetOpen(w) PROVE TypeOK'
  BY <1>4, <1>15 DEF GetOpen, Abort, EntryOpens
<1>16. ASSUME NEW w \in Workers, GetSize(w) PROVE TypeOK'
  BY <1>4, <1>16 DEF GetSize, Abort, EntryOpens
<1>17. ASSUME NEW w \in Workers, GetRead(w) PROVE TypeOK'
  BY <1>4, <1>17 DEF GetRead, Abort
<1>18. ASSUME NEW w \in Workers, RemoveStat(w) PROVE TypeOK'
  BY <1>4, <1>18 DEF RemoveStat, Abort
<1>19. ASSUME NEW w \in Workers, RemoveOpenDir(w) PROVE TypeOK'
  BY <1>4, <1>19 DEF RemoveOpenDir, Abort
<1>20. ASSUME NEW w \in Workers, RemoveEntry(w) PROVE TypeOK'
  BY <1>4, <1>20 DEF RemoveEntry, Abort
<1>21. ASSUME NEW w \in Workers, RemoveDir(w) PROVE TypeOK'
  BY <1>4, <1>21 DEF RemoveDir, Abort
<1>22. ASSUME NEW w \in Workers, RemoveAgain(w) PROVE TypeOK'
  BY <1>4, <1>22 DEF RemoveAgain, Abort
<1>23. ASSUME NEW w \in Workers, RemoveHandEntry(w) PROVE TypeOK'
  <2>1. PICK v \in todo[w] :
          /\ todo' = [todo EXCEPT ![w] = @ \ {v}]
          /\ link' = [link EXCEPT ![dir[w]] = @ \ {v}]
          /\ IF v \in link[dir[w]]
               THEN UNCHANGED <<pc, ok>>
               ELSE Finish(w, "rm_done", FALSE)
    BY <1>23 DEF RemoveHandEntry
  <2>2. ok' \in [Workers -> BOOLEAN]
    BY <2>1
  <2>3. link' \in [Dirs -> SUBSET Values] /\ todo' \in [Workers -> SUBSET Values]
    BY <2>1
  <2>4. QED
    BY <1>23, <2>1, <2>2, <2>3 DEF RemoveHandEntry
<1>24. ASSUME NEW w \in Workers, RemoveHandDir(w) PROVE TypeOK'
  <2>1. CASE link[dir[w]] = {}
    <3>1. (dir[w] \in linkDirs) \in BOOLEAN
      OBVIOUS
    <3>2. ok' \in [Workers -> BOOLEAN]
      BY <1>24, <2>1, <3>1, Zenon DEF RemoveHandDir
    <3>3. QED
      BY <1>24, <2>1, <3>2 DEF RemoveHandDir
  <2>2. CASE link[dir[w]] # {}
    BY <1>4, <1>24, <2>2 DEF RemoveHandDir, Abort
  <2>3. QED
    BY <2>1, <2>2
<1>25. ASSUME NEW w \in Workers, PutReturn(w) PROVE TypeOK'
  BY <1>25, AnyDirType DEF PutReturn
<1>26. ASSUME NEW w \in Workers, Return(w) PROVE TypeOK'
  BY <1>26, AnyDirType DEF Return
<1>27. CASE Kill
  BY <1>27, <1>4 DEF Kill
<1>28. CASE Restart
  BY <1>28, RestartAssumption DEF Restart
<1>29. CASE UNCHANGED vars
  BY <1>29 DEF vars
<1>30. QED
  BY ValidKey, <1>1, <1>2, <1>3, <1>5, <1>6, <1>7, <1>8, <1>9, <1>10, <1>11, <1>12, <1>13, <1>14, <1>15, <1>16, <1>17, <1>18, <1>19, <1>20, <1>21, <1>22, <1>23, <1>24, <1>25, <1>26, <1>27, <1>28, <1>29 DEF Next, Calls, Step, Finishes

\* Type correctness of the store.
THEOREM TypeCorrect == Spec => []TypeOK
  BY InitType, NextType, PTL DEF Spec

----------------------------------------------------------------------------
Links == NoDanglingLink /\ BlockBeforeLink

LEMMA NextLinks ==
  TypeOK /\ TypeOK' /\ Links /\ [Next]_vars => Links'
<1> SUFFICES ASSUME TypeOK, TypeOK', Links, [Next]_vars
             PROVE  Links'
  OBVIOUS
<1> USE DEF Links, NoDanglingLink, BlockBeforeLink, TypeOK, PutSteps
<1>1. ASSUME NEW w \in Workers, NEW d \in Dirs, NEW v \in Values, CallPut(w, d, v)
     PROVE Links'
  BY <1>1 DEF CallPut, Removing
<1>2. ASSUME NEW w \in Workers, NEW d \in Dirs, CallGet(w, d) PROVE Links'
  BY <1>2 DEF CallGet
<1>3. ASSUME NEW w \in Workers, NEW d \in Dirs, CallRemove(w, d) PROVE Links'
  BY <1>3 DEF CallRemove
<1>4. ASSUME NEW why \in {"aborted", "killed"}, GoDown(why) PROVE Links'
  BY <1>4 DEF GoDown
<1>5. ASSUME NEW w \in Workers, PutRawDir(w) PROVE Links'
  BY <1>5 DEF PutRawDir
<1>6. ASSUME NEW w \in Workers, PutMkRaw(w) PROVE Links'
  BY <1>6 DEF PutMkRaw
<1>7. ASSUME NEW w \in Workers, PutOpen(w) \/ PutOpenFails(w) PROVE Links'
  BY <1>7 DEF PutOpen, PutOpenFails
<1>8. ASSUME NEW w \in Workers, PutWrite(w) PROVE Links'
  BY <1>8 DEF PutWrite
<1>9. ASSUME NEW w \in Workers, PutLinkDir(w) PROVE Links'
  BY <1>9 DEF PutLinkDir
<1>10. ASSUME NEW w \in Workers, PutMkLink(w) PROVE Links'
  BY <1>10 DEF PutMkLink
<1>11. ASSUME NEW w \in Workers, PutExists(w) PROVE Links'
  BY <1>11 DEF PutExists
<1>12. ASSUME NEW w \in Workers, PutSymlink(w) PROVE Links'
  BY <1>4, <1>12 DEF PutSymlink, Abort
<1>13. ASSUME NEW w \in Workers, GetIsDir(w) PROVE Links'
  BY <1>13 DEF GetIsDir
<1>14. ASSUME NEW w \in Workers, GetIter(w) PROVE Links'
  BY <1>14 DEF GetIter
<1>15. ASSUME NEW w \in Workers, GetOpen(w) PROVE Links'
  BY <1>15 DEF GetOpen, EntryOpens
<1>16. ASSUME NEW w \in Workers, GetSize(w) PROVE Links'
  BY <1>16 DEF GetSize, EntryOpens
<1>17. ASSUME NEW w \in Workers, GetRead(w) PROVE Links'
  BY <1>17 DEF GetRead
<1>18. ASSUME NEW w \in Workers, RemoveStat(w) PROVE Links'
  BY <1>18 DEF RemoveStat
<1>19. ASSUME NEW w \in Workers, RemoveOpenDir(w) PROVE Links'
  BY <1>4, <1>19 DEF RemoveOpenDir, Abort
<1>20. ASSUME NEW w \in Workers, RemoveEntry(w) PROVE Links'
  BY <1>20 DEF RemoveEntry
<1>21. ASSUME NEW w \in Workers, RemoveDir(w) PROVE Links'
  BY <1>4, <1>21 DEF RemoveDir, Abort
<1>22. ASSUME NEW w \in Workers, RemoveAgain(w) PROVE Links'
  BY <1>4, <1>22 DEF RemoveAgain, Abort
<1>23. ASSUME NEW w \in Workers, RemoveHandEntry(w) PROVE Links'
  BY <1>23 DEF RemoveHandEntry
<1>24. ASSUME NEW w \in Workers, RemoveHandDir(w) PROVE Links'
  BY <1>4, <1>24 DEF RemoveHandDir, Abort
<1>25. ASSUME NEW w \in Workers, PutReturn(w) PROVE Links'
  BY <1>25 DEF PutReturn
<1>26. ASSUME NEW w \in Workers, Return(w) PROVE Links'
  BY <1>26 DEF Return
<1>27. CASE Kill
  BY <1>27, <1>4 DEF Kill
<1>28. CASE Restart
  BY <1>28 DEF Restart
<1>29. CASE UNCHANGED vars
  BY <1>29 DEF vars
<1>30. QED
  BY ValidKey, <1>1, <1>2, <1>3, <1>5, <1>6, <1>7, <1>8, <1>9, <1>10, <1>11, <1>12, <1>13, <1>14, <1>15, <1>16, <1>17, <1>18, <1>19, <1>20, <1>21, <1>22, <1>23, <1>24, <1>25, <1>26, <1>27, <1>28, <1>29
     DEF Next, Calls, Step, Finishes

\* A link always leads to a stored block, in a directory that exists.
THEOREM LinksNeverDangle == Spec => []NoDanglingLink
<1>1. Init => Links
  BY DEF Init, Links, NoDanglingLink, BlockBeforeLink
<1>2. QED
  BY <1>1, NextLinks, TypeCorrect, PTL DEF Spec, Links
----------------------------------------------------------------------------
LEMMA NextPut ==
  TypeOK /\ TypeOK' /\ PutUndisturbed /\ [Next]_vars => PutUndisturbed'
<1> SUFFICES ASSUME TypeOK, TypeOK', PutUndisturbed, [Next]_vars
             PROVE  PutUndisturbed'
  OBVIOUS
<1> USE DEF PutUndisturbed, TypeOK, PutSteps, GetSteps, RemoveSteps
<1>1. ASSUME NEW w \in Workers, NEW d \in Dirs, NEW v \in Values, CallPut(w, d, v)
     PROVE PutUndisturbed'
  <2>1. \A x \in Workers : pc'[x] = IF x = w THEN "put_rawdir" ELSE pc[x]
    BY <1>1 DEF CallPut
  <2>2. \A x \in Workers : dir'[x] = IF x = w THEN d ELSE dir[x]
    BY <1>1 DEF CallPut
  <2>3. alone'[w] => \A x \in Workers : pc[x] \in RemoveSteps => dir[x] # d
    BY <1>1 DEF CallPut, Removing
  <2>4. \A x \in Workers \ {w} : alone'[x] = alone[x] /\ val'[x] = val[x]
    BY <1>1 DEF CallPut
  <2>5. UNCHANGED <<link, ok, acked>>
    BY <1>1 DEF CallPut
  <2>6. QED
    BY <2>1, <2>2, <2>3, <2>4, <2>5
<1>2. ASSUME NEW w \in Workers, NEW d \in Dirs, CallGet(w, d) PROVE PutUndisturbed'
  BY <1>2 DEF CallGet
<1>3. ASSUME NEW w \in Workers, NEW d \in Dirs, CallRemove(w, d) PROVE PutUndisturbed'
  BY <1>3 DEF CallRemove
<1>4. ASSUME NEW why \in {"aborted", "killed"}, GoDown(why) PROVE PutUndisturbed'
  BY <1>4 DEF GoDown
<1>5. ASSUME NEW w \in Workers, PutRawDir(w) PROVE PutUndisturbed'
  BY <1>5 DEF PutRawDir
<1>6. ASSUME NEW w \in Workers, PutMkRaw(w) PROVE PutUndisturbed'
  BY <1>6 DEF PutMkRaw
<1>7. ASSUME NEW w \in Workers, PutOpen(w) \/ PutOpenFails(w) PROVE PutUndisturbed'
  BY <1>7 DEF PutOpen, PutOpenFails
<1>8. ASSUME NEW w \in Workers, PutWrite(w) PROVE PutUndisturbed'
  BY <1>8 DEF PutWrite
<1>9. ASSUME NEW w \in Workers, PutLinkDir(w) PROVE PutUndisturbed'
  BY <1>9 DEF PutLinkDir
<1>10. ASSUME NEW w \in Workers, PutMkLink(w) PROVE PutUndisturbed'
  BY <1>10 DEF PutMkLink
<1>11. ASSUME NEW w \in Workers, PutExists(w) PROVE PutUndisturbed'
  BY <1>11 DEF PutExists
<1>12. ASSUME NEW w \in Workers, PutSymlink(w) PROVE PutUndisturbed'
  BY <1>4, <1>12 DEF PutSymlink, Abort
<1>13. ASSUME NEW w \in Workers, GetIsDir(w) PROVE PutUndisturbed'
  BY <1>13 DEF GetIsDir
<1>14. ASSUME NEW w \in Workers, GetIter(w) PROVE PutUndisturbed'
  BY <1>14 DEF GetIter
<1>15. ASSUME NEW w \in Workers, GetOpen(w) PROVE PutUndisturbed'
  BY <1>15 DEF GetOpen, EntryOpens
<1>16. ASSUME NEW w \in Workers, GetSize(w) PROVE PutUndisturbed'
  BY <1>16 DEF GetSize, EntryOpens
<1>17. ASSUME NEW w \in Workers, GetRead(w) PROVE PutUndisturbed'
  BY <1>17 DEF GetRead
<1>18. ASSUME NEW w \in Workers, RemoveStat(w) PROVE PutUndisturbed'
  BY <1>18 DEF RemoveStat
<1>19. ASSUME NEW w \in Workers, RemoveOpenDir(w) PROVE PutUndisturbed'
  BY <1>4, <1>19 DEF RemoveOpenDir, Abort
<1>20. ASSUME NEW w \in Workers, RemoveEntry(w) PROVE PutUndisturbed'
  BY <1>20 DEF RemoveEntry
<1>21. ASSUME NEW w \in Workers, RemoveDir(w) PROVE PutUndisturbed'
  BY <1>4, <1>21 DEF RemoveDir, Abort
<1>22. ASSUME NEW w \in Workers, RemoveAgain(w) PROVE PutUndisturbed'
  BY <1>4, <1>22 DEF RemoveAgain, Abort
<1>23. ASSUME NEW w \in Workers, RemoveHandEntry(w) PROVE PutUndisturbed'
  BY <1>23 DEF RemoveHandEntry
<1>24. ASSUME NEW w \in Workers, RemoveHandDir(w) PROVE PutUndisturbed'
  BY <1>4, <1>24 DEF RemoveHandDir, Abort
<1>25. ASSUME NEW w \in Workers, PutReturn(w) PROVE PutUndisturbed'
  BY <1>25 DEF PutReturn
<1>26. ASSUME NEW w \in Workers, Return(w) PROVE PutUndisturbed'
  BY <1>26 DEF Return
<1>27. CASE Kill
  BY <1>27, <1>4 DEF Kill
<1>28. CASE Restart
  BY <1>28 DEF Restart
<1>29. CASE UNCHANGED vars
  BY <1>29 DEF vars
<1>30. QED
  BY ValidKey, <1>1, <1>2, <1>3, <1>5, <1>6, <1>7, <1>8, <1>9, <1>10, <1>11, <1>12, <1>13, <1>14, <1>15, <1>16, <1>17, <1>18, <1>19, <1>20, <1>21, <1>22, <1>23, <1>24, <1>25, <1>26, <1>27, <1>28, <1>29
     DEF Next, Calls, Step, Finishes

LEMMA NextGet ==
  TypeOK /\ TypeOK' /\ Links /\ PutUndisturbed /\ PutUndisturbed' /\ GetUndisturbed /\ [Next]_vars => GetUndisturbed'
<1> SUFFICES ASSUME TypeOK, TypeOK', Links, PutUndisturbed, PutUndisturbed', GetUndisturbed, [Next]_vars
             PROVE  GetUndisturbed'
  OBVIOUS
<1> USE DEF PutUndisturbed, GetUndisturbed, Links, NoDanglingLink, TypeOK, PutSteps, GetSteps, RemoveSteps
<1>1. ASSUME NEW w \in Workers, NEW d \in Dirs, NEW v \in Values, CallPut(w, d, v)
     PROVE GetUndisturbed'
  BY <1>1 DEF CallPut, Removing
<1>2. ASSUME NEW w \in Workers, NEW d \in Dirs, CallGet(w, d) PROVE GetUndisturbed'
  BY <1>2 DEF CallGet
<1>3. ASSUME NEW w \in Workers, NEW d \in Dirs, CallRemove(w, d) PROVE GetUndisturbed'
  BY <1>3 DEF CallRemove
<1>4. ASSUME NEW why \in {"aborted", "killed"}, GoDown(why) PROVE GetUndisturbed'
  BY <1>4 DEF GoDown
<1>5. ASSUME NEW w \in Workers, PutRawDir(w) PROVE GetUndisturbed'
  BY <1>5 DEF PutRawDir
<1>6. ASSUME NEW w \in Workers, PutMkRaw(w) PROVE GetUndisturbed'
  BY <1>6 DEF PutMkRaw
<1>7. ASSUME NEW w \in Workers, PutOpen(w) \/ PutOpenFails(w) PROVE GetUndisturbed'
  BY <1>7 DEF PutOpen, PutOpenFails
<1>8. ASSUME NEW w \in Workers, PutWrite(w) PROVE GetUndisturbed'
  BY <1>8 DEF PutWrite
<1>9. ASSUME NEW w \in Workers, PutLinkDir(w) PROVE GetUndisturbed'
  BY <1>9 DEF PutLinkDir
<1>10. ASSUME NEW w \in Workers, PutMkLink(w) PROVE GetUndisturbed'
  BY <1>10 DEF PutMkLink
<1>11. ASSUME NEW w \in Workers, PutExists(w) PROVE GetUndisturbed'
  BY <1>11 DEF PutExists
<1>12. ASSUME NEW w \in Workers, PutSymlink(w) PROVE GetUndisturbed'
  BY <1>4, <1>12 DEF PutSymlink, Abort
<1>13. ASSUME NEW w \in Workers, GetIsDir(w) PROVE GetUndisturbed'
  BY <1>13 DEF GetIsDir
<1>14. ASSUME NEW w \in Workers, GetIter(w) PROVE GetUndisturbed'
  BY <1>14 DEF GetIter
<1>15. ASSUME NEW w \in Workers, GetOpen(w) PROVE GetUndisturbed'
  BY <1>15 DEF GetOpen, EntryOpens
<1>16. ASSUME NEW w \in Workers, GetSize(w) PROVE GetUndisturbed'
  BY <1>16 DEF GetSize, EntryOpens
<1>17. ASSUME NEW w \in Workers, GetRead(w) PROVE GetUndisturbed'
  BY <1>17 DEF GetRead
<1>18. ASSUME NEW w \in Workers, RemoveStat(w) PROVE GetUndisturbed'
  BY <1>18 DEF RemoveStat
<1>19. ASSUME NEW w \in Workers, RemoveOpenDir(w) PROVE GetUndisturbed'
  BY <1>4, <1>19 DEF RemoveOpenDir, Abort
<1>20. ASSUME NEW w \in Workers, RemoveEntry(w) PROVE GetUndisturbed'
  BY <1>20 DEF RemoveEntry
<1>21. ASSUME NEW w \in Workers, RemoveDir(w) PROVE GetUndisturbed'
  BY <1>4, <1>21 DEF RemoveDir, Abort
<1>22. ASSUME NEW w \in Workers, RemoveAgain(w) PROVE GetUndisturbed'
  BY <1>4, <1>22 DEF RemoveAgain, Abort
<1>23. ASSUME NEW w \in Workers, RemoveHandEntry(w) PROVE GetUndisturbed'
  BY <1>23 DEF RemoveHandEntry
<1>24. ASSUME NEW w \in Workers, RemoveHandDir(w) PROVE GetUndisturbed'
  BY <1>4, <1>24 DEF RemoveHandDir, Abort
<1>25. ASSUME NEW w \in Workers, PutReturn(w) PROVE GetUndisturbed'
  BY <1>25 DEF PutReturn
<1>26. ASSUME NEW w \in Workers, Return(w) PROVE GetUndisturbed'
  BY <1>26 DEF Return
<1>27. CASE Kill
  BY <1>27, <1>4 DEF Kill
<1>28. CASE Restart
  BY <1>28 DEF Restart
<1>29. CASE UNCHANGED vars
  BY <1>29 DEF vars
<1>30. QED
  BY ValidKey, <1>1, <1>2, <1>3, <1>5, <1>6, <1>7, <1>8, <1>9, <1>10, <1>11, <1>12, <1>13, <1>14, <1>15, <1>16, <1>17, <1>18, <1>19, <1>20, <1>21, <1>22, <1>23, <1>24, <1>25, <1>26, <1>27, <1>28, <1>29
     DEF Next, Calls, Step, Finishes

LEMMA CallsUndisturbed == Spec => [](Links /\ PutUndisturbed /\ GetUndisturbed)
<1>1. Init => Links /\ PutUndisturbed /\ GetUndisturbed
  BY DEF Init, Links, NoDanglingLink, BlockBeforeLink, PutUndisturbed,
         GetUndisturbed, PutSteps, GetSteps, RemoveSteps
<1>2. QED
  BY <1>1, NextLinks, NextPut, NextGet, TypeCorrect, PTL DEF Spec

\* An acknowledged put that no removal overlapped or followed stays linked and
\* stored, through any interleaving and any number of restarts.
THEOREM AckedPutsSurvive == Spec => []AckedPutSurvives
<1>1. TypeOK /\ Links /\ PutUndisturbed => AckedPutSurvives
  BY DEF TypeOK, Links, NoDanglingLink, PutUndisturbed, AckedPutSurvives
<1>2. QED
  BY <1>1, CallsUndisturbed, TypeCorrect, PTL

\* A get that follows such a put, with no removal meanwhile, finds an entry.
THEOREM GetsFindAckedPuts == Spec => []GetFindsAckedPut
<1>1. GetUndisturbed => GetFindsAckedPut
  BY DEF GetUndisturbed, GetFindsAckedPut, GetSteps
<1>2. QED
  BY <1>1, CallsUndisturbed, PTL
----------------------------------------------------------------------------
LEMMA NextTorn ==
  TypeOK /\ TypeOK' /\ TornOnlyInsideWrite /\ [Next]_vars => TornOnlyInsideWrite'
<1> SUFFICES ASSUME TypeOK, TypeOK', TornOnlyInsideWrite, [Next]_vars
             PROVE  TornOnlyInsideWrite'
  OBVIOUS
<1> USE DEF TornOnlyInsideWrite, TypeOK
<1>1. ASSUME NEW w \in Workers, NEW d \in Dirs, NEW v \in Values, CallPut(w, d, v)
     PROVE TornOnlyInsideWrite'
  BY <1>1 DEF CallPut, Removing
<1>2. ASSUME NEW w \in Workers, NEW d \in Dirs, CallGet(w, d) PROVE TornOnlyInsideWrite'
  BY <1>2 DEF CallGet
<1>3. ASSUME NEW w \in Workers, NEW d \in Dirs, CallRemove(w, d) PROVE TornOnlyInsideWrite'
  BY <1>3 DEF CallRemove
<1>4. ASSUME NEW why \in {"aborted", "killed"}, GoDown(why) PROVE TornOnlyInsideWrite'
  BY <1>4 DEF GoDown
<1>5. ASSUME NEW w \in Workers, PutRawDir(w) PROVE TornOnlyInsideWrite'
  BY <1>5 DEF PutRawDir
<1>6. ASSUME NEW w \in Workers, PutMkRaw(w) PROVE TornOnlyInsideWrite'
  BY <1>6 DEF PutMkRaw
<1>7. ASSUME NEW w \in Workers, PutOpen(w) \/ PutOpenFails(w) PROVE TornOnlyInsideWrite'
  BY <1>7 DEF PutOpen, PutOpenFails
<1>8. ASSUME NEW w \in Workers, PutWrite(w) PROVE TornOnlyInsideWrite'
  BY <1>8 DEF PutWrite
<1>9. ASSUME NEW w \in Workers, PutLinkDir(w) PROVE TornOnlyInsideWrite'
  BY <1>9 DEF PutLinkDir
<1>10. ASSUME NEW w \in Workers, PutMkLink(w) PROVE TornOnlyInsideWrite'
  BY <1>10 DEF PutMkLink
<1>11. ASSUME NEW w \in Workers, PutExists(w) PROVE TornOnlyInsideWrite'
  BY <1>11 DEF PutExists
<1>12. ASSUME NEW w \in Workers, PutSymlink(w) PROVE TornOnlyInsideWrite'
  BY <1>4, <1>12 DEF PutSymlink, Abort
<1>13. ASSUME NEW w \in Workers, GetIsDir(w) PROVE TornOnlyInsideWrite'
  BY <1>13 DEF GetIsDir
<1>14. ASSUME NEW w \in Workers, GetIter(w) PROVE TornOnlyInsideWrite'
  BY <1>14 DEF GetIter
<1>15. ASSUME NEW w \in Workers, GetOpen(w) PROVE TornOnlyInsideWrite'
  BY <1>15 DEF GetOpen, EntryOpens
<1>16. ASSUME NEW w \in Workers, GetSize(w) PROVE TornOnlyInsideWrite'
  BY <1>16 DEF GetSize, EntryOpens
<1>17. ASSUME NEW w \in Workers, GetRead(w) PROVE TornOnlyInsideWrite'
  BY <1>17 DEF GetRead
<1>18. ASSUME NEW w \in Workers, RemoveStat(w) PROVE TornOnlyInsideWrite'
  BY <1>18 DEF RemoveStat
<1>19. ASSUME NEW w \in Workers, RemoveOpenDir(w) PROVE TornOnlyInsideWrite'
  BY <1>4, <1>19 DEF RemoveOpenDir, Abort
<1>20. ASSUME NEW w \in Workers, RemoveEntry(w) PROVE TornOnlyInsideWrite'
  BY <1>20 DEF RemoveEntry
<1>21. ASSUME NEW w \in Workers, RemoveDir(w) PROVE TornOnlyInsideWrite'
  BY <1>4, <1>21 DEF RemoveDir, Abort
<1>22. ASSUME NEW w \in Workers, RemoveAgain(w) PROVE TornOnlyInsideWrite'
  BY <1>4, <1>22 DEF RemoveAgain, Abort
<1>23. ASSUME NEW w \in Workers, RemoveHandEntry(w) PROVE TornOnlyInsideWrite'
  BY <1>23 DEF RemoveHandEntry
<1>24. ASSUME NEW w \in Workers, RemoveHandDir(w) PROVE TornOnlyInsideWrite'
  BY <1>4, <1>24 DEF RemoveHandDir, Abort
<1>25. ASSUME NEW w \in Workers, PutReturn(w) PROVE TornOnlyInsideWrite'
  BY <1>25 DEF PutReturn
<1>26. ASSUME NEW w \in Workers, Return(w) PROVE TornOnlyInsideWrite'
  BY <1>26 DEF Return
<1>27. CASE Kill
  BY <1>27, <1>4 DEF Kill
<1>28. CASE Restart
  BY <1>28 DEF Restart
<1>29. CASE UNCHANGED vars
  BY <1>29 DEF vars
<1>30. QED
  BY ValidKey, <1>1, <1>2, <1>3, <1>5, <1>6, <1>7, <1>8, <1>9, <1>10, <1>11, <1>12, <1>13, <1>14, <1>15, <1>16, <1>17, <1>18, <1>19, <1>20, <1>21, <1>22, <1>23, <1>24, <1>25, <1>26, <1>27, <1>28, <1>29
     DEF Next, Calls, Step, Finishes

\* A file of raw/ is incomplete only inside a write, until the daemon dies.
THEOREM TornOnlyInsideWrites == Spec => []TornOnlyInsideWrite
<1>1. Init => TornOnlyInsideWrite
  BY DEF Init, TornOnlyInsideWrite
<1>2. QED
  BY <1>1, NextTorn, TypeCorrect, PTL DEF Spec
============================================================================
