---------------------------- MODULE TapperSyncer ----------------------------
(***************************************************************************)
(* MizuTapperSyncer (src/shared/kubernetes/k8sTapManager.go): a pod watch  *)
(* that keeps the tapper daemonset in line with the running pods.          *)
(*                                                                         *)
(* CreateAndStartMizuTapperSyncer lists the pods, optionally applies the   *)
(* daemonset, and starts watchPodsForTapping.  The watch loop turns pod     *)
(* events into debouncer SetOn calls and a watch error into Cancel; the    *)
(* debounced restartTappers lists the pods again, publishes the diff on    *)
(* TapPodChangesOut and, when shouldUpdateTappers, applies (or removes)    *)
(* the daemonset.  BeginUpdatingTappers, from another goroutine, sets      *)
(* shouldUpdateTappers and applies once.                                   *)
(*                                                                         *)
(* The pod watch (FilteredWatch) and the Kubernetes API are the            *)
(* environment.  The debounce package is not in the repository: it is     *)
(* reduced to what its call sites rely on: SetOn arms one run of the       *)
(* callback after updateTappersDelay, further SetOn calls before it fires  *)
(* are absorbed, and Cancel stops it.  A daemonset is abstracted to the    *)
(* set of pods whose IPs it carries; {} is the removed daemonset.          *)
(***************************************************************************)
EXTENDS Naturals, FiniteSets

CONSTANTS
    Pods,        \* pods matching the target namespaces and regex
    MaxChanges,  \* pod events and watch errors the cluster produces
    WatchErrors  \* whether the watch reports errors at all

VARIABLES
    running,     \* the matching running pods in the cluster
    tapped,      \* CurrentlyTappedPods
    daemon,      \* the pods the applied tapper daemonset targets
    shouldUpdate,\* shouldUpdateTappers
    events,      \* undelivered watch events, per channel
    changes,     \* pod events and errors produced so far
    deb,         \* the debouncer: "idle", "armed" or "cancelled"
    cb,          \* the restartTappers goroutine: "none", "apply"
    loop,        \* watchPodsForTapping: "run" or "returned"
    ctxDone,     \* the syncer's context is done
    changesOut,  \* TappedPodChangeEvents sent on TapPodChangesOut
    errorsOut    \* K8sTapManagerErrors sent on ErrorOut

vars == <<running, tapped, daemon, shouldUpdate, events, changes, deb, cb,
          loop, ctxDone, changesOut, errorsOut>>

Channels == {"added", "removed", "modifiedIp", "modifiedNoIp", "error"}

\* CreateAndStartMizuTapperSyncer returned a syncer: the first pod list
\* succeeded and, when shouldUpdateTappers, so did the first apply; the
\* watch goroutine is started.
Init ==
    /\ running \in SUBSET Pods
    /\ tapped = running
    /\ shouldUpdate \in BOOLEAN
    /\ daemon = IF shouldUpdate THEN running ELSE {}
    /\ events = [ch \in Channels |-> 0]
    /\ changes = 0
    /\ deb = "idle"
    /\ cb = "none"
    /\ loop = "run"
    /\ ctxDone = FALSE
    /\ changesOut = 0
    /\ errorsOut = 0

----------------------------------------------------------------------------
(* The cluster and the pod watch.                                         *)

Emit(ch) ==
    /\ changes < MaxChanges
    /\ changes' = changes + 1
    /\ events' = [events EXCEPT ![ch] = @ + 1]

PodStarts(p) ==
    /\ p \notin running /\ Emit("added")
    /\ running' = running \cup {p}
    /\ UNCHANGED <<tapped, daemon, shouldUpdate, deb, cb, loop, ctxDone,
                   changesOut, errorsOut>>

PodStops(p) ==
    /\ p \in running /\ Emit("removed")
    /\ running' = running \ {p}
    /\ UNCHANGED <<tapped, daemon, shouldUpdate, deb, cb, loop, ctxDone,
                   changesOut, errorsOut>>

\* A status change of a running pod, with or without a pod IP.
PodModified(ch) ==
    /\ running # {} /\ Emit(ch)
    /\ UNCHANGED <<running, tapped, daemon, shouldUpdate, deb, cb, loop,
                   ctxDone, changesOut, errorsOut>>

WatchError ==
    /\ WatchErrors /\ Emit("error")
    /\ UNCHANGED <<running, tapped, daemon, shouldUpdate, deb, cb, loop,
                   ctxDone, changesOut, errorsOut>>

ContextDone ==
    /\ ~ctxDone /\ ctxDone' = TRUE
    /\ UNCHANGED <<running, tapped, daemon, shouldUpdate, events, changes,
                   deb, cb, loop, changesOut, errorsOut>>

----------------------------------------------------------------------------
(* watchPodsForTapping: one select case per step.                          *)

SetOn == IF deb = "idle" THEN "armed" ELSE deb

Take(ch) ==
    /\ loop = "run" /\ events[ch] > 0
    /\ events' = [events EXCEPT ![ch] = @ - 1]

\* case added, removed, and modified with a pod IP: SetOn.
TakePodEvent(ch) ==
    /\ ch \in {"added", "removed", "modifiedIp"}
    /\ Take(ch) /\ deb' = SetOn
    /\ UNCHANGED <<running, tapped, daemon, shouldUpdate, changes, cb, loop,
                   ctxDone, changesOut, errorsOut>>

\* case modified without a pod IP: logged only.
TakeModifiedNoIp ==
    /\ Take("modifiedNoIp")
    /\ UNCHANGED <<running, tapped, daemon, shouldUpdate, changes, deb, cb,
                   loop, ctxDone, changesOut, errorsOut>>

\* case errorChan: Cancel the debouncer, report TapManagerPodWatchError,
\* and go on selecting.
TakeError ==
    /\ Take("error")
    /\ deb' = "cancelled"
    /\ errorsOut' = errorsOut + 1
    /\ UNCHANGED <<running, tapped, daemon, shouldUpdate, changes, cb, loop,
                   ctxDone, changesOut>>

\* case context.Done: Cancel the debouncer and return.
TakeDone ==
    /\ loop = "run" /\ ctxDone
    /\ deb' = "cancelled" /\ loop' = "returned"
    /\ UNCHANGED <<running, tapped, daemon, shouldUpdate, events, changes, cb,
                   ctxDone, changesOut, errorsOut>>

----------------------------------------------------------------------------
(* The debounced restartTappers.                                          *)

\* updateCurrentlyTappedPods: the listed pods (mizu's own excluded) differ
\* from CurrentlyTappedPods by getPodArrayDiff.
ChangeFound == running # tapped

\* The delay passes: restartTappers runs updateCurrentlyTappedPods.  The
\* pod list may fail (TapManagerPodListError, changeFound false); when it
\* differs from CurrentlyTappedPods the diff is published and the tappers
\* are updated if shouldUpdateTappers.
RestartTappers ==
    /\ deb = "armed" /\ cb = "none"
    /\ deb' = "idle"
    /\ \/ /\ errorsOut' = errorsOut + 1
          /\ UNCHANGED <<tapped, changesOut, cb>>
       \/ /\ ~ChangeFound
          /\ UNCHANGED <<tapped, changesOut, cb, errorsOut>>
       \/ /\ ChangeFound
          /\ tapped' = running
          /\ changesOut' = changesOut + 1
          /\ cb' = IF shouldUpdate THEN "apply" ELSE "none"
          /\ UNCHANGED errorsOut
    /\ UNCHANGED <<running, daemon, shouldUpdate, events, changes, loop,
                   ctxDone>>

\* updateMizuTappers: ApplyMizuTapperDaemonSet for the node-to-IPs map of
\* CurrentlyTappedPods, or RemoveDaemonSet when it is empty; on failure
\* TapManagerTapperUpdateError is reported, and nothing retries.
UpdateMizuTappers ==
    /\ cb = "apply"
    /\ cb' = "none"
    /\ \/ daemon' = tapped /\ UNCHANGED errorsOut
       \/ errorsOut' = errorsOut + 1 /\ UNCHANGED daemon
    /\ UNCHANGED <<running, tapped, shouldUpdate, events, changes, deb, loop,
                   ctxDone, changesOut>>

\* BeginUpdatingTappers, called once the API server is up: set
\* shouldUpdateTappers and updateMizuTappers; an error goes to the caller.
BeginUpdatingTappers ==
    /\ ~shouldUpdate
    /\ shouldUpdate' = TRUE
    /\ \/ daemon' = tapped
       \/ UNCHANGED daemon
    /\ UNCHANGED <<running, tapped, events, changes, deb, cb, loop, ctxDone,
                   changesOut, errorsOut>>

Next ==
    \/ \E p \in Pods : PodStarts(p) \/ PodStops(p)
    \/ PodModified("modifiedIp") \/ PodModified("modifiedNoIp")
    \/ WatchError \/ ContextDone
    \/ \E ch \in Channels : TakePodEvent(ch)
    \/ TakeModifiedNoIp \/ TakeError \/ TakeDone
    \/ RestartTappers \/ UpdateMizuTappers \/ BeginUpdatingTappers

\* The watch loop and the callback goroutine are scheduled by Go, and the
\* debounce timer fires after updateTappersDelay.
Spec ==
    /\ Init /\ [][Next]_vars
    /\ WF_vars(\E ch \in Channels : TakePodEvent(ch))
    /\ WF_vars(TakeModifiedNoIp \/ TakeError \/ TakeDone)
    /\ WF_vars(RestartTappers) /\ WF_vars(UpdateMizuTappers)

----------------------------------------------------------------------------
(* Properties.                                                            *)

\* Once the pods stop changing while the syncer updates tappers and its
\* context is live, the daemonset comes to target exactly the running pods
\* (the type's comment: the syncer "uses a k8s pod watch to update tapper
\* daemonsets when targeted pods are removed or created").
TappersFollowPods ==
    <>[](shouldUpdate /\ ~ctxDone) => <>[](daemon = running)
=============================================================================
