----------------------- MODULE PredictiveCacheProofs -----------------------
(***************************************************************************)
(* For any number of clients, episodes and tasks: the state is well formed *)
(* and no entry outlives its window.  StaleEntryCovered is inductive given *)
(* TypeOK; NoStaleEntry is its instance in a state with no running task.   *)
(***************************************************************************)
EXTENDS PredictiveCache, TLAPS

LEMMA AskTyped == NoAsk \in [client : Client, set : SUBSET Episode]
BY ClientAssumption DEF NoAsk, SomeClient

\* TypeOK holds initially: nothing is cached and every task is idle.
LEMMA TypeInit == Init => TypeOK
BY AskTyped DEF Init, TypeOK, TaskPc

\* TypeOK is preserved by every step of every handler.
LEMMA TypeNext == TypeOK /\ [Next]_vars => TypeOK'
<1> SUFFICES ASSUME TypeOK, [Next]_vars PROVE TypeOK'
  OBVIOUS
<1>1. ASSUME NEW t \in Task, NEW c \in Client, NEW S \in Windows,
             primeStartupWindow(t, c, S)
      PROVE  TypeOK'
  BY <1>1 DEF primeStartupWindow, TypeOK, shared, Goto, TaskPc, Windows
<1>2. ASSUME NEW t \in Task, shouldQueueRecord(t) PROVE TypeOK'
  BY <1>2 DEF shouldQueueRecord, TypeOK, locals, Goto, TaskPc
<1>3. CASE throttleExpires
  BY <1>3 DEF throttleExpires, TypeOK, locals
<1>4. ASSUME NEW t \in Task, preparePredictiveWindow(t) PROVE TypeOK'
  <2>1. PICK S \in SUBSET ask[t].set :
           \E f \in [S -> Urls] : found' = [found EXCEPT ![t] = f]
    BY <1>4 DEF preparePredictiveWindow
  <2>2. PICK f \in [S -> Urls] : found' = [found EXCEPT ![t] = f]
    BY <2>1
  <2>3. S \subseteq Episode
    BY <2>1 DEF TypeOK
  <2> QED
    BY <1>4, <2>2, <2>3 DEF preparePredictiveWindow, TypeOK, shared, Goto, TaskPc
<1>5. ASSUME NEW t \in Task, UpdateWindow(t) PROVE TypeOK'
  <2>1. /\ DOMAIN windows' \subseteq Client
        /\ \A c \in DOMAIN windows' :
               windows'[c] \subseteq Episode /\ windows'[c] # {}
    BY <1>5 DEF UpdateWindow, TypeOK, Store, Without
  <2> QED
    BY <1>5, <2>1, AskTyped DEF UpdateWindow, TypeOK, Goto, TaskPc, SubPc
<1>6. ASSUME NEW t \in Task, NEW e \in Episode, isSufficientlyCached(t, e)
      PROVE  TypeOK'
  BY <1>6 DEF isSufficientlyCached, SubGoto, Sub, TypeOK, SubPc
<1>7. ASSUME NEW t \in Task, NEW e \in Episode, PutChunks(t, e)
      PROVE  TypeOK'
  <2>1. files' \subseteq Episode \X Urls
    BY <1>7 DEF PutChunks, Sub, TypeOK
  <2>2. PICK l \in SubPc : SubGoto(t, e, l)
    BY <1>7 DEF PutChunks, SubPc
  <2>3. UNCHANGED entries
    BY <1>7 DEF PutChunks
  <2> QED
    BY <2>1, <2>2, <2>3 DEF SubGoto, TypeOK
<1>8. ASSUME NEW t \in Task, NEW e \in Episode, UpsertStartupMediaCache(t, e)
      PROVE  TypeOK'
  <2>1. /\ DOMAIN entries' \subseteq Episode
        /\ \A x \in DOMAIN entries' : entries'[x] \in Entry
    BY <1>8 DEF UpsertStartupMediaCache, Sub, TypeOK, Store, Entry
  <2> QED
    BY <1>8, <2>1 DEF UpsertStartupMediaCache, SubGoto, Sub, TypeOK, SubPc
<1>9. ASSUME NEW t \in Task, pruneInactive(t) PROVE TypeOK'
  <2>1. Active \subseteq Episode
    BY DEF Active, TypeOK
  <2> QED
    BY <1>9, <2>1 DEF pruneInactive, TypeOK, shared, Goto, TaskPc
<1>10. ASSUME NEW t \in Task, Snapshot(t) PROVE TypeOK'
  BY <1>10 DEF Snapshot, TypeOK, shared, Goto, TaskPc
<1>11. ASSUME NEW t \in Task, NEW e \in Episode, DeleteStartupMediaCache(t, e)
       PROVE  TypeOK'
  <2>1. /\ DOMAIN entries' \subseteq Episode
        /\ \A x \in DOMAIN entries' : entries'[x] \in Entry
    BY <1>11 DEF DeleteStartupMediaCache, TypeOK, Without
  <2>2. doomed' \in [Task -> SUBSET (Episode \X Urls)]
    BY <1>11 DEF DeleteStartupMediaCache, TypeOK, Entry
  <2> QED
    BY <1>11, <2>1, <2>2 DEF DeleteStartupMediaCache, TypeOK, Goto, TaskPc
<1>12. ASSUME NEW t \in Task, DeleteFiles(t) PROVE TypeOK'
  BY <1>12 DEF DeleteFiles, TypeOK, Goto, TaskPc
<1>13. ASSUME NEW t \in Task, Return(t) PROVE TypeOK'
  BY <1>13 DEF Return, TypeOK, shared, locals, Goto, TaskPc
<1>14. CASE Restart
  BY <1>14, AskTyped DEF Restart, TypeOK, TaskPc
<1>15. CASE UNCHANGED vars
  BY <1>15 DEF vars, TypeOK
<1> QED
  BY <1>1, <1>2, <1>3, <1>4, <1>5, <1>6, <1>7, <1>8, <1>9, <1>10, <1>11,
     <1>12, <1>13, <1>14, <1>15 DEF Next, Step

\* The state of the predictive cache is well formed in every reachable state:
\* windows are never empty, a task prewarms only what it resolved.
THEOREM TypeCorrect == Spec => []TypeOK
BY TypeInit, TypeNext, PTL DEF Spec
---------------------------------------------------------------------------
\* Nothing is cached initially, so no entry is stale.
LEMMA CoveredInit == Init => StaleEntryCovered
BY DEF Init, StaleEntryCovered

\* A step keeps every stale entry in the sight of a task that will prune it:
\* the task that empties a window, or writes an entry, has its own pruning
\* ahead of it, and reads the windows again before it prunes.
LEMMA CoveredNext ==
    TypeOK /\ StaleEntryCovered /\ [Next]_vars => StaleEntryCovered'
<1> SUFFICES ASSUME TypeOK, StaleEntryCovered, [Next]_vars,
                    NEW e \in DOMAIN entries', e \notin Active'
             PROVE  \E t \in Task : WillPrune(t, e)'
  BY DEF StaleEntryCovered
\* Steps that leave windows and entries alone, and task t's duty too.
<1>a. ASSUME UNCHANGED <<windows, entries>>,
             \A t \in Task : WillPrune(t, e) => WillPrune(t, e)'
      PROVE  \E t \in Task : WillPrune(t, e)'
  BY <1>a DEF StaleEntryCovered, Active
<1>1. ASSUME NEW t \in Task, NEW c \in Client, NEW S \in Windows,
             primeStartupWindow(t, c, S)
      PROVE  \E s \in Task : WillPrune(s, e)'
  BY <1>a, <1>1 DEF primeStartupWindow, shared, Goto, WillPrune, TypeOK
<1>2. ASSUME NEW t \in Task, shouldQueueRecord(t) \/ preparePredictiveWindow(t)
      PROVE  \E s \in Task : WillPrune(s, e)'
  BY <1>a, <1>2 DEF shouldQueueRecord, preparePredictiveWindow, shared, locals,
                    Goto, WillPrune, TypeOK
<1>3. CASE throttleExpires
  BY <1>a, <1>3 DEF throttleExpires, locals, WillPrune
\* The task that moves a window still has to prewarm and prune.
<1>4. ASSUME NEW t \in Task, UpdateWindow(t)
      PROVE  \E s \in Task : WillPrune(s, e)'
  BY <1>4 DEF UpdateWindow, Goto, WillPrune, TypeOK
\* So does the task of a prewarm goroutine, whatever the goroutine writes.
<1>5. ASSUME NEW t \in Task, NEW x \in Episode,
             \/ isSufficientlyCached(t, x) \/ PutChunks(t, x)
             \/ UpsertStartupMediaCache(t, x)
      PROVE  \E s \in Task : WillPrune(s, e)'
  BY <1>5 DEF isSufficientlyCached, PutChunks, UpsertStartupMediaCache,
              SubGoto, Sub, WillPrune, TypeOK
\* pruneInactive reads the windows in this very step: e is not active in them.
<1>6. ASSUME NEW t \in Task, pruneInactive(t)
      PROVE  \E s \in Task : WillPrune(s, e)'
  <2>1. Active' = Active
    BY <1>6 DEF pruneInactive, shared, Active
  <2> QED
    BY <1>6, <2>1 DEF pruneInactive, Goto, WillPrune, TypeOK
\* An entry not seen as active is in the snapshot.
<1>7. ASSUME NEW t \in Task, Snapshot(t)
      PROVE  \E s \in Task : WillPrune(s, e)'
  BY <1>a, <1>7 DEF Snapshot, shared, Goto, WillPrune, TypeOK
\* The entry deleted in this step is not e.
<1>8. ASSUME NEW t \in Task, NEW x \in Episode, DeleteStartupMediaCache(t, x)
      PROVE  \E s \in Task : WillPrune(s, e)'
  <2>1. e # x /\ e \in DOMAIN entries /\ e \notin Active
    BY <1>8 DEF DeleteStartupMediaCache, Without, Active
  <2>2. PICK s \in Task : WillPrune(s, e)
    BY <2>1 DEF StaleEntryCovered
  <2>3. WillPrune(s, e)'
    BY <1>8, <2>1, <2>2 DEF DeleteStartupMediaCache, Goto, WillPrune, TypeOK
  <2> QED
    BY <2>3
<1>9. ASSUME NEW t \in Task, DeleteFiles(t) \/ Return(t)
      PROVE  \E s \in Task : WillPrune(s, e)'
  BY <1>a, <1>9 DEF DeleteFiles, Return, shared, locals, Goto, WillPrune, TypeOK
<1>10. CASE Restart
  BY <1>10 DEF Restart
<1>11. CASE UNCHANGED vars
  BY <1>a, <1>11 DEF vars, WillPrune
<1> QED
  BY <1>1, <1>2, <1>3, <1>4, <1>5, <1>6, <1>7, <1>8, <1>9, <1>10, <1>11
     DEF Next, Step

\* Every stale entry is in the sight of a running task, for any number of
\* clients, tasks and episodes.
THEOREM StaleCovered == Spec => []StaleEntryCovered
<1>1. Init => TypeOK /\ StaleEntryCovered
  BY TypeInit, CoveredInit
<1>2. TypeOK /\ StaleEntryCovered /\ [Next]_vars
          => (TypeOK /\ StaleEntryCovered)'
  BY TypeNext, CoveredNext
<1> QED
  BY <1>1, <1>2, PTL DEF Spec

\* Once no task runs, the cache holds entries of current windows only.
THEOREM NothingOutlivesItsWindow == Spec => []NoStaleEntry
<1>1. StaleEntryCovered => NoStaleEntry
  BY DEF StaleEntryCovered, NoStaleEntry, WillPrune
<1> QED
  BY <1>1, StaleCovered, PTL
===========================================================================
