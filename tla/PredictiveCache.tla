-------------------------- MODULE PredictiveCache --------------------------
(***************************************************************************)
(* The predictive next-episode cache (internal/httpserver:                 *)
(* predictive_handlers.go and predictive_startup_cache.go).                *)
(*                                                                         *)
(* A client announces the episodes it will watch next.  Unless the same    *)
(* announcement is throttled, a goroutine (a Task) resolves the episodes,  *)
(* replaces the client's window, prewarms the window's episodes in         *)
(* parallel goroutines, waits for them and prunes every entry that is in   *)
(* no window.  The windows and the entries have a lock each, the files     *)
(* have none, and no lock is held from one step to the next.               *)
(*                                                                         *)
(* The chunk files of an (episode, URL) pair are one element of files:     *)
(* StartupCache has their bytes, here only their presence matters.         *)
(***************************************************************************)
EXTENDS Naturals, FiniteSets

CONSTANTS
    Client, Episode,
    Task,        \* goroutines of preparePredictiveWindow
    Url,         \* Url[e]: the candidate URLs episode e may resolve to
    SourceKey,   \* SourceKey[u]: base name of u
    Limit        \* longest window a request may announce (2 in the code)

Urls == UNION {Url[e] : e \in Episode}

ASSUME ClientAssumption == Client # {}
ASSUME EpisodeAssumption == \A e \in Episode : Url[e] # {}
ASSUME LimitAssumption == Limit \in Nat \ {0}

VARIABLES
    windows,    \* windows[c]: the episodes of client c's window
    entries,    \* entries[e]: [url, full] of the metadata entry of e
    files,      \* the <<episode, url>> pairs with chunk files on disk
    throttle,   \* announcements queued within the throttle period
    pc,         \* pc[t]: the next step of task t
    ask,        \* ask[t]: [client, set] announced
    found,      \* found[t]: candidate URL of each resolved episode
    sub,        \* sub[t][e]: the next step of t's prewarm goroutine for e
    active,     \* active[t]: the episodes pruneInactive found in windows
    victims,    \* victims[t]: snapshot entries pruneInactive has yet to visit
    doomed      \* doomed[t]: file pairs of the entry it just deleted
                \* (a task's local is reset as soon as no later step reads it)
vars == <<windows, entries, files, throttle, pc, ask, found, sub, active,
          victims, doomed>>
shared == <<windows, entries, files, throttle>>
locals == <<ask, found, sub, active, victims, doomed>>

Windows == {S \in SUBSET Episode : S # {} /\ Cardinality(S) <= Limit}

\* Episodes of some client's window.
Active == UNION {windows[c] : c \in DOMAIN windows}

Store(f, k, v) == [x \in DOMAIN f \cup {k} |-> IF x = k THEN v ELSE f[x]]
Without(f, k) == [x \in DOMAIN f \ {k} |-> f[x]]

SomeClient == CHOOSE c \in Client : TRUE
NoAsk == [client |-> SomeClient, set |-> {}]

Init ==
    /\ windows = << >> /\ entries = << >> /\ files = {} /\ throttle = {}
    /\ pc = [t \in Task |-> "idle"]
    /\ ask = [t \in Task |-> NoAsk]
    /\ found = [t \in Task |-> << >>]
    /\ sub = [t \in Task |-> << >>]
    /\ active = [t \in Task |-> {}]
    /\ victims = [t \in Task |-> {}]
    /\ doomed = [t \in Task |-> {}]

Goto(t, l) == pc' = [pc EXCEPT ![t] = l]
---------------------------------------------------------------------------
(***************************************************************************)
(* primeStartupWindow: shouldQueuePredictiveWindow looks the announcement  *)
(* up and, in a later step, records it; a recorded one is dropped.  The    *)
(* list is already normalised: no blanks, no duplicates, at most Limit.    *)
(***************************************************************************)
primeStartupWindow(t, c, S) ==
    /\ pc[t] = "idle"
    /\ [client |-> c, set |-> S] \notin throttle
    /\ ask' = [ask EXCEPT ![t] = [client |-> c, set |-> S]]
    /\ Goto(t, "record")
    /\ UNCHANGED <<shared, found, sub, active, victims, doomed>>

shouldQueueRecord(t) ==
    /\ pc[t] = "record"
    /\ throttle' = throttle \cup {ask[t]}
    /\ Goto(t, "resolve")
    /\ UNCHANGED <<windows, entries, files, locals>>

\* predictiveWindowThrottleTTL passes.
throttleExpires ==
    /\ \E a \in throttle : throttle' = throttle \ {a}
    /\ UNCHANGED <<windows, entries, files, pc, locals>>

\* preparePredictiveWindow: episodes that do not resolve, or have no direct
\* playable candidate, are left out; the window may come out empty.
preparePredictiveWindow(t) ==
    /\ pc[t] = "resolve"
    /\ \E S \in SUBSET ask[t].set :
          \E f \in [S -> Urls] :
              /\ \A e \in S : f[e] \in Url[e]
              /\ found' = [found EXCEPT ![t] = f]
    /\ Goto(t, "window")
    /\ UNCHANGED <<shared, ask, sub, active, victims, doomed>>

\* Variant that keeps an empty window instead of deleting the client.
UpdateWindowKeepsEmpty(t) ==
    /\ pc[t] = "window"
    /\ windows' = Store(windows, ask[t].client, DOMAIN found[t])
    /\ sub' = [sub EXCEPT ![t] = [e \in DOMAIN found[t] |-> "check"]]
    /\ ask' = [ask EXCEPT ![t] = NoAsk]
    /\ Goto(t, "prewarm")
    /\ UNCHANGED <<entries, files, throttle, found, active, victims, doomed>>

\* Variant that returns early, without pruning, when nothing resolved.
UpdateWindowReturnsEarly(t) ==
    /\ pc[t] = "window"
    /\ windows' = IF DOMAIN found[t] = {}
                  THEN Without(windows, ask[t].client)
                  ELSE Store(windows, ask[t].client, DOMAIN found[t])
    /\ sub' = [sub EXCEPT ![t] = [e \in DOMAIN found[t] |-> "check"]]
    /\ ask' = [ask EXCEPT ![t] = NoAsk]
    /\ Goto(t, IF DOMAIN found[t] = {} THEN "idle" ELSE "prewarm")
    /\ UNCHANGED <<entries, files, throttle, found, active, victims, doomed>>

\* UpdateWindow: replace or delete the client's window, start the goroutines.
UpdateWindow(t) ==
    /\ pc[t] = "window"
    /\ windows' = IF DOMAIN found[t] = {}
                  THEN Without(windows, ask[t].client)
                  ELSE Store(windows, ask[t].client, DOMAIN found[t])
    /\ sub' = [sub EXCEPT ![t] = [e \in DOMAIN found[t] |-> "check"]]
    /\ ask' = [ask EXCEPT ![t] = NoAsk]
    /\ Goto(t, "prewarm")
    /\ UNCHANGED <<entries, files, throttle, found, active, victims, doomed>>
---------------------------------------------------------------------------
(***************************************************************************)
(* Service.Prewarm over the predictive stores, one goroutine per episode.  *)
(* An entry is sufficient when it is of the same file, recorded in full,   *)
(* and its chunk files can be read; entry and files are looked at in one   *)
(* step, whose outcome decides only whether the chunks are put again.      *)
(***************************************************************************)
SubGoto(t, e, l) ==
    /\ sub' = [sub EXCEPT ![t][e] = l]
    /\ UNCHANGED <<windows, throttle, pc, ask, found, active, victims, doomed>>

Sub(t, e, l) == pc[t] = "prewarm" /\ e \in DOMAIN sub[t] /\ sub[t][e] = l

sufficient(t, e) ==
    /\ e \in DOMAIN entries
    /\ SourceKey[entries[e].url] = SourceKey[found[t][e]]
    /\ entries[e].full
    /\ <<e, entries[e].url>> \in files

isSufficientlyCached(t, e) ==
    /\ Sub(t, e, "check")
    /\ SubGoto(t, e, IF sufficient(t, e) THEN "done" ELSE "put")
    /\ UNCHANGED <<entries, files>>

\* Fetch and put.  A failed fetch leaves nothing, a failed write may leave a
\* truncated file behind; either way there is no entry.
PutChunks(t, e) ==
    /\ Sub(t, e, "put")
    /\ \/ /\ files' = files \cup {<<e, found[t][e]>>}
          /\ SubGoto(t, e, "upsert") \/ SubGoto(t, e, "done")
       \/ UNCHANGED files /\ SubGoto(t, e, "done")
    /\ UNCHANGED entries

\* full is FALSE for a short file and for one whose tail could not be had.
UpsertStartupMediaCache(t, e) ==
    /\ Sub(t, e, "upsert")
    /\ \E full \in BOOLEAN :
          entries' = Store(entries, e, [url |-> found[t][e], full |-> full])
    /\ SubGoto(t, e, "done")
    /\ UNCHANGED files

\* Variant that always spares the episodes the task itself prewarmed.
pruneInactiveSparesOwn(t) ==
    /\ pc[t] = "prewarm"
    /\ \A e \in DOMAIN sub[t] : sub[t][e] = "done"
    /\ active' = [active EXCEPT ![t] = Active \cup DOMAIN found[t]]
    /\ found' = [found EXCEPT ![t] = << >>]
    /\ sub' = [sub EXCEPT ![t] = << >>]
    /\ Goto(t, "snapshot")
    /\ UNCHANGED <<shared, ask, victims, doomed>>

\* wg.Wait() returns and pruneInactive reads the windows under their lock.
pruneInactive(t) ==
    /\ pc[t] = "prewarm"
    /\ \A e \in DOMAIN sub[t] : sub[t][e] = "done"
    /\ active' = [active EXCEPT ![t] = Active]
    /\ found' = [found EXCEPT ![t] = << >>]
    /\ sub' = [sub EXCEPT ![t] = << >>]
    /\ Goto(t, "snapshot")
    /\ UNCHANGED <<shared, ask, victims, doomed>>

\* Variant that has nothing to compare with when there is no window at all.
SnapshotNeedsWindow(t) ==
    /\ pc[t] = "snapshot"
    /\ victims' = [victims EXCEPT ![t] = IF active[t] = {} THEN {}
                                         ELSE DOMAIN entries \ active[t]]
    /\ active' = [active EXCEPT ![t] = {}]
    /\ Goto(t, "prune")
    /\ UNCHANGED <<shared, ask, found, sub, doomed>>

\* The windows are unlocked again when the entries are snapshot.
Snapshot(t) ==
    /\ pc[t] = "snapshot"
    /\ victims' = [victims EXCEPT ![t] = DOMAIN entries \ active[t]]
    /\ active' = [active EXCEPT ![t] = {}]
    /\ Goto(t, "prune")
    /\ UNCHANGED <<shared, ask, found, sub, doomed>>

\* An entry of the snapshot may have gone meanwhile; then its files stay.
DeleteStartupMediaCache(t, e) ==
    /\ pc[t] = "prune"
    /\ e \in victims[t]
    /\ victims' = [victims EXCEPT ![t] = @ \ {e}]
    /\ entries' = Without(entries, e)
    /\ doomed' = [doomed EXCEPT ![t] =
                     IF e \in DOMAIN entries THEN {<<e, entries[e].url>>} ELSE {}]
    /\ Goto(t, "unlink")
    /\ UNCHANGED <<windows, files, throttle, ask, found, sub, active>>

\* An error of os.Remove is ignored.
DeleteFiles(t) ==
    /\ pc[t] = "unlink"
    /\ files' \in {files \ doomed[t], files}
    /\ doomed' = [doomed EXCEPT ![t] = {}]
    /\ Goto(t, "prune")
    /\ UNCHANGED <<windows, entries, throttle, ask, found, sub, active, victims>>

\* UpdateWindow returns.
Return(t) ==
    /\ pc[t] = "prune" /\ victims[t] = {}
    /\ Goto(t, "idle")
    /\ UNCHANGED <<shared, locals>>

\* The server restarts: newPredictiveStartupCache starts from empty maps and
\* tries to empty the directory, ignoring an error.
Restart ==
    /\ windows' = << >> /\ entries' = << >> /\ throttle' = {}
    /\ files' \in {{}, files}
    /\ pc' = [t \in Task |-> "idle"]
    /\ ask' = [t \in Task |-> NoAsk]
    /\ found' = [t \in Task |-> << >>]
    /\ sub' = [t \in Task |-> << >>]
    /\ active' = [t \in Task |-> {}]
    /\ victims' = [t \in Task |-> {}]
    /\ doomed' = [t \in Task |-> {}]

Step(t) ==
    \/ shouldQueueRecord(t) \/ preparePredictiveWindow(t) \/ UpdateWindow(t)
    \/ \E e \in Episode :
           \/ isSufficientlyCached(t, e) \/ PutChunks(t, e)
           \/ UpsertStartupMediaCache(t, e)
           \/ DeleteStartupMediaCache(t, e)
    \/ pruneInactive(t) \/ Snapshot(t) \/ DeleteFiles(t) \/ Return(t)

Next ==
    \/ \E t \in Task, c \in Client, S \in Windows : primeStartupWindow(t, c, S)
    \/ \E t \in Task : Step(t)
    \/ throttleExpires
    \/ Restart

Spec == Init /\ [][Next]_vars

\* Fetches have a deadline and the whole task a 45 s context, so a task that
\* runs takes its next step.
LiveSpec == Spec /\ \A t \in Task : WF_vars(Step(t))
---------------------------------------------------------------------------
SubPc == {"check", "put", "upsert", "done"}
TaskPc == {"idle", "record", "resolve", "window", "prewarm", "snapshot",
           "prune", "unlink"}
Entry == [url : Urls, full : BOOLEAN]

\* Windows are non-empty, entries name known episodes and URLs, and a task
\* has prewarm goroutines only for episodes it resolved.
TypeOK ==
    /\ DOMAIN windows \subseteq Client
    /\ \A c \in DOMAIN windows : windows[c] \subseteq Episode /\ windows[c] # {}
    /\ DOMAIN entries \subseteq Episode
    /\ \A e \in DOMAIN entries : entries[e] \in Entry
    /\ files \subseteq Episode \X Urls
    /\ pc \in [Task -> TaskPc]
    /\ ask \in [Task -> [client : Client, set : SUBSET Episode]]
    /\ throttle \subseteq [client : Client, set : SUBSET Episode]
    /\ DOMAIN found = Task /\ DOMAIN sub = Task
    /\ \A t \in Task : /\ DOMAIN found[t] \subseteq Episode
                       /\ \A e \in DOMAIN found[t] : found[t][e] \in Urls
                       /\ DOMAIN sub[t] = IF pc[t] = "prewarm"
                                          THEN DOMAIN found[t] ELSE {}
                       /\ \A e \in DOMAIN sub[t] : sub[t][e] \in SubPc
    /\ active \in [Task -> SUBSET Episode]
    /\ victims \in [Task -> SUBSET Episode]
    /\ doomed \in [Task -> SUBSET (Episode \X Urls)]

\* Nothing outlives its window: once no task runs, every entry belongs to a
\* window, although tasks prune with a view of the windows and of the entries
\* that others have changed since (UpdateWindow, pruneInactive).
NoStaleEntry ==
    (\A t \in Task : pc[t] = "idle") => DOMAIN entries \subseteq Active

\* The reason: an entry outside every window is one that a running task is
\* still going to visit and did not see as active.
WillPrune(t, e) ==
    \/ pc[t] = "prewarm"
    \/ pc[t] = "snapshot" /\ e \notin active[t]
    \/ pc[t] \in {"prune", "unlink"} /\ e \in victims[t]
StaleEntryCovered ==
    \A e \in DOMAIN entries : e \in Active \/ \E t \in Task : WillPrune(t, e)

\* An episode that has left every window leaves the cache, or is wanted again.
StaleEntryGoes ==
    \A e \in Episode :
        e \in DOMAIN entries \ Active ~> e \notin DOMAIN entries \ Active

\* The test of the window move expects that the episode both windows share is
\* "still cached": an entry in some window is never deleted.
ActiveEntryKept ==
    [][ \A e \in Episode :
          e \in DOMAIN entries /\ e \in Active /\ Active' = Active
              => e \in DOMAIN entries' ]_vars
===========================================================================
