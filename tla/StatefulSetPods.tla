-------------------------- MODULE StatefulSetPods --------------------------
(***************************************************************************)
(* One custom resource of the Splunk operator and the StatefulSet it owns: *)
(* ApplyStatefulSet and UpdateStatefulSetPods (pkg/splunk/controller), the *)
(* secret versions a pod template mounts (pkg/splunk/util/secrets.go), the *)
(* work queue of the reconciler, and what runs beside them: the user, the  *)
(* StatefulSet controller, the kubelet, API failures and operator crashes. *)
(*                                                                         *)
(* The operator is sequential per kind but reads and writes the API server *)
(* one call at a time, so a reconcile is a walk through pc in which every  *)
(* other party may act between two calls.  A call that succeeds only when  *)
(* the object still has the resourceVersion that was read (Update of the   *)
(* StatefulSet, Delete of a Pod) is one step with that read, or compares   *)
(* the object with the copy that was read.                                 *)
(*                                                                         *)
(* The StatefulSetPodManager is a parameter: Verdicts is what its          *)
(* PrepareScaleDown, PrepareRecycle and FinishRecycle may answer.          *)
(***************************************************************************)
EXTENDS Integers, FiniteSets

CONSTANTS
  MaxReplicas,   \* bound on replicas; pods have ordinals 0 .. MaxReplicas-1
  MinReplicas,   \* what validation and the replication factor raise replicas to
  Images,        \* values of the spec fields that reach the pod template
  Claims,        \* the volumeClaimTemplates: "etc" and "var", or none
  Verdicts,      \* answers of the pod manager
  KeepsGoing,    \* TRUE for the managers that ignore ApplyStatefulSet's phase
  NoRevision,    \* the empty revision of a status nobody wrote yet
  MaxEdits,      \* bound: how often the user changes the resource
  MaxSecrets,    \* bound: how many secret versions are ever created
  MaxFaults,     \* bound: API errors, crashes, failing and evicted pods
  PatientUser,   \* the user waits until the last change is rolled out
  DropsErrors    \* faults include the errors that the secret functions drop

Ordinals == 0 .. MaxReplicas - 1

\* A pod template, by what MergePodUpdates compares, and with it the hash that names its
\* ControllerRevision.  The template of a pod that mounts no secret has secret 0.
Templates == [image : Images, secret : Nat]
Revisions == Templates \union {NoRevision}

\* MinimumVersionedSecrets of pkg/splunk/common/names.go.
MinimumVersionedSecrets == 3

ASSUME ReplicasAssumption == MaxReplicas \in Nat /\ MinReplicas \in 1 .. MaxReplicas
ASSUME ImagesAssumption   == Images # {}
ASSUME VerdictsAssumption == Verdicts \subseteq {"ready", "wait", "error"}
ASSUME FlagsAssumption    == {KeepsGoing, PatientUser, DropsErrors} \subseteq BOOLEAN
ASSUME RevisionAssumption == NoRevision \notin Templates
ASSUME BoundsAssumption   == MaxEdits \in Nat /\ MaxSecrets \in Nat /\ MaxFaults \in Nat

VARIABLES
  cr,         \* the spec the user wrote: replicas and image
  fresh,      \* nobody changed the resource since the last reconcile read it
  nsChanged,  \* the namespace secret differs from the latest version
  secrets,    \* the versioned secrets that exist
  latest,     \* the highest version among them, 0 when there is none
  sts,        \* the StatefulSet: spec and status
  pods,       \* the pods, by ordinal
  claims,     \* the persistent volume claims, by ordinal and template
  recycling,  \* history: the revision for which a pod was deleted and not yet replaced
  phase,      \* status.phase of the custom resource
  queued,     \* the work queue holds a request for the resource
  pc,         \* where the reconcile is
  req,        \* what this reconcile read: replicas, and the template it built
  view,       \* the StatefulSet as this reconcile last read or wrote it
  ord,        \* the ordinal being handled
  todo,       \* claims still to be deleted
  edits, faults  \* how much of the bounds is used

crVars  == <<cr, fresh, nsChanged, edits>>
opVars  == <<pc, req, view, ord, todo>>
kubeVars == <<sts, pods, claims, recycling>>
secretVars == <<secrets, latest>>
vars == <<crVars, secretVars, kubeVars, phase, queued, opVars, faults>>

Phases == {"Pending", "Ready", "Updating", "ScalingUp", "ScalingDown", "Error"}

StatefulSets ==
  [exists : BOOLEAN, owned : BOOLEAN, replicas : 0 .. MaxReplicas, template : Revisions,
   updateRev : Revisions, ready : 0 .. MaxReplicas]

Pods == [state : {"absent", "unready", "ready"}, deleting : BOOLEAN, rev : Revisions]

\* "retired": its ordinal was scaled away; "reused": bound again after that.
ClaimStates == {"none", "bound", "retired", "reused", "deleting"}

NoPod == [state |-> "absent", deleting |-> FALSE, rev |-> NoRevision]

NoStatefulSet ==
  [exists |-> FALSE, owned |-> FALSE, replicas |-> 0, template |-> NoRevision,
   updateRev |-> NoRevision, ready |-> 0]

NoRequest == [replicas |-> 1, template |-> NoRevision]

TypeOK ==
  /\ cr \in [replicas : 1 .. MaxReplicas, image : Images]
  /\ fresh \in BOOLEAN /\ nsChanged \in BOOLEAN
  /\ secrets \subseteq Nat \ {0}
  /\ latest \in Nat
  /\ sts \in StatefulSets
  /\ pods \in [Ordinals -> Pods]
  /\ claims \in [Ordinals -> [Claims -> ClaimStates]]
  /\ recycling \in [Ordinals -> Revisions]
  /\ phase \in Phases
  /\ queued \in BOOLEAN
  /\ pc \in {"idle", "apply", "scale", "claims", "check", "prune"}
  /\ req \in [replicas : 1 .. MaxReplicas, template : Revisions]
  /\ view \in StatefulSets
  /\ ord \in Ordinals
  /\ todo \subseteq Claims
  /\ edits \in Nat /\ faults \in Nat

Init ==
  /\ cr \in [replicas : 1 .. MaxReplicas, image : Images]
  /\ fresh = TRUE /\ nsChanged = TRUE
  /\ secrets = {} /\ latest = 0
  /\ sts = NoStatefulSet
  /\ pods = [i \in Ordinals |-> NoPod]
  /\ claims = [i \in Ordinals |-> [c \in Claims |-> "none"]]
  /\ recycling = [i \in Ordinals |-> NoRevision]
  /\ phase = "Pending"
  /\ queued = TRUE
  /\ pc = "idle"
  /\ req = NoRequest
  /\ view = NoStatefulSet
  /\ ord = 0
  /\ todo = {}
  /\ edits = 0 /\ faults = 0

-----------------------------------------------------------------------------
(***************************************************************************)
(* Reconcile bookkeeping                                                   *)
(***************************************************************************)

\* Mutant: the result of a reconcile does not ask for a requeue.
FinishWithoutRequeue(p) ==
  /\ pc' = "idle"
  /\ req' = NoRequest /\ view' = NoStatefulSet /\ ord' = 0 /\ todo' = {}
  /\ phase' = IF fresh THEN p ELSE phase
  /\ queued' = (queued \/ phase' # phase)

\* The end of a reconcile that computed phase p.  The deferred Status().Update
\* is refused when the resource changed since it was read, and only logs that.
\* What does not ask for a requeue leaves the next reconcile to the watches on the
\* resource, the StatefulSet and the secrets it owns.
End(p, requeue) ==
  /\ pc' = "idle"
  /\ req' = NoRequest /\ view' = NoStatefulSet /\ ord' = 0 /\ todo' = {}
  /\ phase' = IF fresh THEN p ELSE phase
  /\ queued' = (queued \/ requeue \/ phase' # phase \/ secrets' # secrets)

Finish(p) == End(p, p # "Ready")

\* The reconcile goes on at l; having written the StatefulSet wakes it up again.
GoTo(l, wrote) ==
  /\ pc' = l
  /\ queued' = (queued \/ (wrote /\ sts.owned))
  /\ UNCHANGED phase

\* GetLatestVersionedSecret: the latest version when it still has the data of the
\* namespace secret, else a new version.
ApplyVersionedSecret ==
  IF nsChanged
  THEN /\ latest' = latest + 1
       /\ secrets' = secrets \union {latest + 1}
       /\ nsChanged' = FALSE
  ELSE UNCHANGED <<secretVars, nsChanged>>

Wanted == IF cr.replicas < MinReplicas THEN MinReplicas ELSE cr.replicas

\* The reconciler takes the request, reads the resource and builds the StatefulSet
\* it wants, whose pods mount secret version s.
Build(s) ==
  /\ pc = "idle" /\ queued
  /\ req' = [replicas |-> Wanted, template |-> [image |-> cr.image, secret |-> s]]
  /\ fresh' = TRUE
  /\ pc' = "apply"
  /\ queued' = (secrets' # secrets)
  /\ UNCHANGED <<cr, edits, kubeVars, phase, view, ord, todo>>

\* Mutant: the version is the number of versions that exist.
StartWithCount ==
  /\ ApplyVersionedSecret
  /\ Build(Cardinality(secrets'))
  /\ UNCHANGED faults

StartReconcile ==
  /\ ApplyVersionedSecret
  /\ Build(latest')
  /\ UNCHANGED faults

(***************************************************************************)
(* ApplyStatefulSet                                                        *)
(***************************************************************************)

\* The Get that starts ApplyStatefulSet, when there is no StatefulSet: create it.
\* The cluster managers may still report an error of theirs.
CreateStatefulSet ==
  /\ pc = "apply" /\ ~ sts.exists
  /\ sts' = [NoStatefulSet EXCEPT !.exists = TRUE, !.owned = req.template.secret # 0,
                                  !.replicas = req.replicas, !.template = req.template]
  /\ Finish("Pending") \/ (KeepsGoing /\ Finish("Error"))
  /\ UNCHANGED <<crVars, secretVars, pods, claims, recycling, faults>>

\* The template differs: update it, leaving replicas to UpdateStatefulSetPods.
\* The default manager stops here; the cluster managers go on in this reconcile,
\* with the status the StatefulSet has at that moment.
UpdateTemplate ==
  /\ pc = "apply" /\ sts.exists /\ sts.template # req.template
  /\ sts' = [sts EXCEPT !.template = req.template]
  /\ IF KeepsGoing
     THEN view' = sts' /\ GoTo("scale", TRUE) /\ UNCHANGED <<req, ord, todo>>
     ELSE Finish("Updating")
  /\ UNCHANGED <<crVars, secretVars, pods, claims, recycling, faults>>

KeepTemplate ==
  /\ pc = "apply" /\ sts.exists /\ sts.template = req.template
  /\ view' = sts
  /\ GoTo("scale", FALSE)
  /\ UNCHANGED <<crVars, secretVars, kubeVars, req, ord, todo, faults>>

\* The Update of a cluster manager stops before UpdateStatefulSetPods when the
\* cluster is not ready, and before ApplyStatefulSet when its cluster master is not.
ManagerStops ==
  /\ KeepsGoing /\ pc \in {"apply", "scale"}
  /\ \E p \in {"Pending", "Error"} : Finish(p)
  /\ UNCHANGED <<crVars, secretVars, kubeVars, faults>>

\* Before that, ApplyIdxcSecret and ApplyShcSecret rewrite versions that pods mount;
\* the latest one may then have the data of the namespace secret.
RewriteSecret ==
  /\ KeepsGoing /\ pc \in {"apply", "scale"} /\ latest # 0
  /\ nsChanged' \in {nsChanged, FALSE}
  /\ queued' = TRUE
  /\ UNCHANGED <<cr, fresh, edits, secretVars, kubeVars, phase, opVars, faults>>

(***************************************************************************)
(* UpdateStatefulSetPods                                                   *)
(***************************************************************************)

\* Fewer or more ready pods than replicas: wait.
WaitForReplicas ==
  /\ pc = "scale" /\ view.ready # view.replicas
  /\ Finish(IF view.ready > view.replicas THEN "ScalingDown"
            ELSE IF view.ready > 0 THEN "ScalingUp" ELSE "Pending")
  /\ UNCHANGED <<crVars, secretVars, kubeVars, faults>>

ScaleUp ==
  /\ pc = "scale" /\ view.ready = view.replicas /\ view.ready < req.replicas
  /\ \/ /\ sts = view
        /\ sts' = [sts EXCEPT !.replicas = req.replicas]
        /\ Finish("ScalingUp")
     \/ /\ sts # view
        /\ UNCHANGED sts
        /\ Finish("Error")
  /\ UNCHANGED <<crVars, secretVars, pods, claims, recycling, faults>>

\* What scaling the StatefulSet down to i pods leaves behind: the claims of ordinal i.
Retire(i) ==
  /\ sts' = [sts EXCEPT !.replicas = i]
  /\ claims' = [claims EXCEPT ![i] =
                  [c \in Claims |-> IF claims[i][c] \in {"bound", "reused"}
                                    THEN "retired" ELSE claims[i][c]]]
  /\ recycling' = [recycling EXCEPT ![i] = NoRevision]

\* Mutant: the ready pods are not waited for before the next one is given up.
ScaleDownEarly(v) ==
  /\ pc = "scale" /\ v = "ready" /\ sts = view /\ view.replicas > req.replicas
  /\ Retire(view.replicas - 1)
  /\ ord' = view.replicas - 1 /\ todo' = Claims
  /\ GoTo("claims", TRUE)
  /\ UNCHANGED <<crVars, secretVars, pods, req, view, faults>>

\* Mutant: the refused Update of replicas is ignored.
ScaleDownIgnoringConflict(v) ==
  /\ pc = "scale" /\ view.ready = view.replicas /\ view.ready > req.replicas
  /\ v = "ready"
  /\ IF sts = view THEN Retire(view.ready - 1) ELSE UNCHANGED <<sts, claims, recycling>>
  /\ ord' = view.ready - 1 /\ todo' = Claims
  /\ GoTo("claims", TRUE)
  /\ UNCHANGED <<crVars, secretVars, pods, req, view, faults>>

\* One pod less: the pod manager prepares the pod of the highest ordinal (verdict v),
\* then replicas is lowered, then its claims are deleted.
ScaleDown(v) ==
  /\ pc = "scale" /\ view.ready = view.replicas /\ view.ready > req.replicas
  /\ \/ /\ v = "error" /\ Finish("Error")
        /\ UNCHANGED <<sts, claims, recycling>>
     \/ /\ v = "wait" /\ Finish("ScalingDown")
        /\ UNCHANGED <<sts, claims, recycling>>
     \/ /\ v = "ready" /\ sts # view /\ Finish("Error")
        /\ UNCHANGED <<sts, claims, recycling>>
     \/ /\ v = "ready" /\ sts = view
        /\ Retire(view.ready - 1)
        /\ ord' = view.ready - 1 /\ todo' = Claims
        /\ GoTo("claims", TRUE)
        /\ UNCHANGED <<req, view>>
  /\ UNCHANGED <<crVars, secretVars, pods, faults>>

\* Delete one of the claims of the pod that was scaled away.  The API server keeps
\* a claim until the pod that uses it is gone.
DeleteClaim ==
  /\ pc = "claims"
  /\ \E c \in todo :
       /\ claims[ord][c] # "none"
       /\ claims' = [claims EXCEPT ![ord][c] =
                       IF pods[ord].state = "absent" THEN "none" ELSE "deleting"]
       /\ todo' = todo \ {c}
  /\ GoTo("claims", FALSE)
  /\ UNCHANGED <<crVars, secretVars, sts, pods, recycling, req, view, ord, faults>>

ClaimNotFound ==
  /\ pc = "claims" /\ \E c \in todo : claims[ord][c] = "none"
  /\ Finish("Error")
  /\ UNCHANGED <<crVars, secretVars, kubeVars, faults>>

\* Mutant: the loop over the claims returns after the first.
FirstClaimDeleted ==
  /\ pc = "claims" /\ Cardinality(todo) < Cardinality(Claims)
  /\ Finish("ScalingDown")
  /\ UNCHANGED <<crVars, secretVars, kubeVars, faults>>

ClaimsDeleted ==
  /\ pc = "claims" /\ todo = {}
  /\ Finish("ScalingDown")
  /\ UNCHANGED <<crVars, secretVars, kubeVars, faults>>

\* Mutant: the loop starts one ordinal too high.
NoScalingFromCount ==
  /\ pc = "scale" /\ view.ready = view.replicas /\ view.ready = req.replicas
  /\ ord' = view.ready
  /\ GoTo("check", FALSE)
  /\ UNCHANGED <<crVars, secretVars, kubeVars, req, view, todo, faults>>

\* Neither up nor down: look at the pods, from the highest ordinal.
NoScaling ==
  /\ pc = "scale" /\ view.ready = view.replicas /\ view.ready = req.replicas
  /\ ord' = view.ready - 1
  /\ GoTo("check", FALSE)
  /\ UNCHANGED <<crVars, secretVars, kubeVars, req, view, todo, faults>>

Outdated(i) == view.updateRev # NoRevision /\ view.updateRev # pods[i].rev

\* Mutant: a pod that is not ready is skipped.
SkipPod ==
  /\ pc = "check" /\ pods[ord].state # "ready"
  /\ ord' = IF ord = 0 THEN 0 ELSE ord - 1
  /\ GoTo(IF ord = 0 THEN "prune" ELSE "check", FALSE)
  /\ UNCHANGED <<crVars, secretVars, kubeVars, req, view, todo, faults>>

WaitForPod ==
  /\ pc = "check" /\ pods[ord].state # "ready"
  /\ Finish(IF pods[ord].state = "absent" THEN "Error" ELSE "Updating")
  /\ UNCHANGED <<crVars, secretVars, kubeVars, faults>>

\* A pod of another revision is prepared (verdict v) and then deleted; the
\* StatefulSet controller creates its successor from the current template.
RecyclePod(v) ==
  /\ pc = "check" /\ pods[ord].state = "ready" /\ Outdated(ord)
  /\ IF v = "ready"
     THEN /\ pods' = [pods EXCEPT ![ord].deleting = TRUE]
          /\ recycling' = [recycling EXCEPT ![ord] = view.updateRev]
     ELSE UNCHANGED <<pods, recycling>>
  /\ Finish(IF v = "error" THEN "Error" ELSE "Updating")
  /\ UNCHANGED <<crVars, secretVars, sts, claims, faults>>

\* Mutant: the loop stops before ordinal 0.
FinishPodAboveFirst(v) ==
  /\ pc = "check" /\ pods[ord].state = "ready" /\ ~ Outdated(ord)
  /\ ord' = IF ord <= 1 THEN 0 ELSE ord - 1
  /\ GoTo(IF ord <= 1 THEN "prune" ELSE "check", FALSE)
  /\ UNCHANGED <<crVars, secretVars, kubeVars, req, view, todo, faults>>

\* A pod of the right revision completes the recycle it may have gone through.
FinishPod(v) ==
  /\ pc = "check" /\ pods[ord].state = "ready" /\ ~ Outdated(ord)
  /\ \/ /\ v = "error" /\ Finish("Error")
     \/ /\ v = "wait" /\ Finish("Updating")
     \/ /\ v = "ready"
        /\ ord' = IF ord = 0 THEN 0 ELSE ord - 1
        /\ GoTo(IF ord = 0 THEN "prune" ELSE "check", FALSE)
        /\ UNCHANGED <<req, view, todo>>
  /\ UNCHANGED <<crVars, secretVars, kubeVars, faults>>

\* Mutant: every version but the latest is unwanted.
AllButLatest == {s \in secrets : s # latest}

\* The versions RemoveUnwantedSecrets deletes.
UnwantedSecrets ==
  IF Cardinality(secrets) <= MinimumVersionedSecrets THEN {}
  ELSE {s \in secrets : latest - s >= MinimumVersionedSecrets}

RemoveUnwantedSecrets ==
  /\ pc = "prune"
  /\ secrets' = secrets \ UnwantedSecrets
  /\ Finish("Ready")
  /\ UNCHANGED <<crVars, latest, kubeVars, faults>>

\* Everything is Ready, but what the managers do then fails: ApplyMonitoringConsole
\* for all, and more for the cluster managers.  The phase stands, the error requeues.
ReadyStepFails ==
  /\ pc = "prune" /\ KeepsGoing
  /\ secrets' = secrets \ UnwantedSecrets
  /\ End("Ready", TRUE)
  /\ UNCHANGED <<crVars, latest, kubeVars, faults>>

(***************************************************************************)
(* Failures of the operator and its API calls                              *)
(***************************************************************************)

Fault == faults < MaxFaults /\ faults' = faults + 1

\* A call of the current step fails before it has an effect.  ApplyStatefulSet takes
\* a Get that fails for there being no StatefulSet, and its Create changes nothing.
ApiError ==
  /\ pc # "idle" /\ Fault
  /\ Finish("Error") \/ (pc = "apply" /\ sts.exists /\ Finish("Pending"))
  /\ UNCHANGED <<crVars, secretVars, kubeVars>>

PublishError ==
  /\ pc = "prune" /\ Fault
  /\ secrets' = secrets \ UnwantedSecrets
  /\ End("Ready", TRUE)
  /\ UNCHANGED <<crVars, latest, kubeVars>>

\* Deleting the unwanted secrets stops at one that cannot be deleted.
PruneError ==
  /\ pc = "prune" /\ Fault
  /\ \E S \in SUBSET UnwantedSecrets : secrets' = secrets \ S
  /\ Finish("Error")
  /\ UNCHANGED <<crVars, latest, kubeVars>>

\* Creating the first version fails, and GetLatestVersionedSecret drops the error:
\* getSplunkStatefulSet returns a StatefulSet without secret, settings and owner.
DropCreateError ==
  /\ DropsErrors /\ Fault
  /\ latest = 0 /\ nsChanged
  /\ UNCHANGED <<secretVars, nsChanged>>
  /\ Build(0)

\* Listing the secrets fails, which GetExistingLatestVersionedSecret takes for there
\* being none: version 1 is applied, and updated if it exists with other data.
DropListError ==
  /\ DropsErrors /\ Fault
  /\ latest # 0
  /\ secrets' = secrets \union {1}
  /\ nsChanged' = (nsChanged /\ latest # 1)
  /\ Build(1)
  /\ UNCHANGED latest

\* The same in RemoveUnwantedSecrets: nothing is deleted.
DropPruneError ==
  /\ DropsErrors /\ Fault
  /\ pc = "prune"
  /\ UNCHANGED secrets
  /\ Finish("Ready")
  /\ UNCHANGED <<crVars, latest, kubeVars>>

\* The operator dies and starts again: every resource is queued.
Crash ==
  /\ pc # "idle" /\ Fault
  /\ pc' = "idle" /\ queued' = TRUE
  /\ req' = NoRequest /\ view' = NoStatefulSet /\ ord' = 0 /\ todo' = {}
  /\ UNCHANGED <<crVars, secretVars, kubeVars, phase>>

(***************************************************************************)
(* The user                                                                *)
(***************************************************************************)

\* The StatefulSet and its pods are what the resource asks for, and its phase says so.
Converged ==
  /\ sts.exists /\ ~ nsChanged
  /\ sts.replicas = Wanted
  /\ sts.template = [image |-> cr.image, secret |-> latest]
  /\ pods = [i \in Ordinals |->
               IF i < Wanted
               THEN [state |-> "ready", deleting |-> FALSE, rev |-> sts.template]
               ELSE NoPod]
  /\ phase = "Ready"

Edit ==
  /\ edits < MaxEdits /\ edits' = edits + 1
  /\ PatientUser => Converged

EditResource ==
  /\ Edit
  /\ \E r \in 1 .. MaxReplicas, im \in Images :
       /\ cr' = [replicas |-> r, image |-> im]
       /\ cr' # cr
  /\ fresh' = FALSE
  /\ queued' = TRUE
  /\ UNCHANGED <<nsChanged, secretVars, kubeVars, phase, opVars, faults>>

EditNamespaceSecret ==
  /\ Edit
  /\ ~ nsChanged /\ latest < MaxSecrets
  /\ nsChanged' = TRUE
  /\ queued' = TRUE
  /\ UNCHANGED <<cr, fresh, secretVars, kubeVars, phase, opVars, faults>>

(***************************************************************************)
(* The StatefulSet controller and the kubelet                              *)
(***************************************************************************)

ReadyPods == {i \in Ordinals : pods[i].state = "ready"}

MissingPods == {i \in Ordinals : i < sts.replicas /\ pods[i].state = "absent"}
SurplusPods == {i \in Ordinals : i >= sts.replicas /\ pods[i].state # "absent"}

\* A claim in state c when a pod that uses it is created.
Bind(c) == CASE c \in {"none", "bound"}     -> "bound"
             [] c \in {"retired", "reused"} -> "reused"
             [] c = "deleting"              -> "deleting"

\* One sync of the StatefulSet controller under the Parallel policy with OnDelete
\* updates: it counts the ready pods, creates every missing pod from the current
\* template, deletes every pod beyond replicas and writes the status.
SyncStatefulSet ==
  /\ sts.exists
  /\ sts' = [sts EXCEPT !.updateRev = sts.template, !.ready = Cardinality(ReadyPods)]
  /\ pods' = [i \in Ordinals |->
                IF i \in MissingPods
                THEN [state |-> "unready", deleting |-> FALSE, rev |-> sts.template]
                ELSE [pods[i] EXCEPT !.deleting = @ \/ i \in SurplusPods]]
  /\ claims' = [i \in Ordinals |->
                  IF i \in MissingPods THEN [c \in Claims |-> Bind(claims[i][c])]
                  ELSE claims[i]]
  /\ <<sts', pods'>> # <<sts, pods>>
  /\ queued' = (queued \/ (sts' # sts /\ sts.owned))
  /\ UNCHANGED <<crVars, secretVars, recycling, phase, opVars, faults>>

\* The kubelet changes pod i to p.
SetPod(i, p) ==
  /\ pods' = [pods EXCEPT ![i] = p]
  /\ UNCHANGED <<crVars, secretVars, sts, phase, queued, opVars>>

\* A pod starts only when the secret its template mounts exists.
PodStarted(i) ==
  /\ pods[i].state = "unready" /\ ~ pods[i].deleting
  /\ pods[i].rev.secret \in secrets \union {0}
  /\ SetPod(i, [pods[i] EXCEPT !.state = "ready"])
  /\ recycling' = [recycling EXCEPT ![i] = NoRevision]
  /\ UNCHANGED <<claims, faults>>

\* A terminating pod stays ready until its container stops.
PodStopped(i) ==
  /\ pods[i].state = "ready" /\ pods[i].deleting
  /\ SetPod(i, [pods[i] EXCEPT !.state = "unready"])
  /\ UNCHANGED <<claims, recycling, faults>>

PodGone(i) ==
  /\ pods[i].state = "unready" /\ pods[i].deleting
  /\ SetPod(i, NoPod)
  /\ claims' = [claims EXCEPT ![i] =
                  [c \in Claims |-> IF claims[i][c] = "deleting" THEN "none"
                                    ELSE claims[i][c]]]
  /\ UNCHANGED <<recycling, faults>>

PodFails(i) ==
  /\ Fault
  /\ pods[i].state = "ready" /\ ~ pods[i].deleting
  /\ SetPod(i, [pods[i] EXCEPT !.state = "unready"])
  /\ UNCHANGED <<claims, recycling>>

PodEvicted(i) ==
  /\ Fault
  /\ pods[i].state # "absent" /\ ~ pods[i].deleting
  /\ SetPod(i, [pods[i] EXCEPT !.deleting = TRUE])
  /\ UNCHANGED <<claims, recycling>>

-----------------------------------------------------------------------------
Reconcile ==
  \/ StartReconcile
  \/ CreateStatefulSet \/ UpdateTemplate \/ KeepTemplate \/ RewriteSecret \/ ManagerStops
  \/ WaitForReplicas \/ ScaleUp \/ NoScaling
  \/ \E v \in Verdicts : ScaleDown(v) \/ RecyclePod(v) \/ FinishPod(v)
  \/ DeleteClaim \/ ClaimNotFound \/ ClaimsDeleted
  \/ WaitForPod
  \/ RemoveUnwantedSecrets \/ ReadyStepFails

Kubernetes ==
  \/ SyncStatefulSet
  \/ \E i \in Ordinals : PodStarted(i) \/ PodStopped(i) \/ PodGone(i)

Failure ==
  \/ ApiError \/ PruneError \/ PublishError \/ Crash
  \/ DropCreateError \/ DropListError \/ DropPruneError
  \/ \E i \in Ordinals : PodFails(i) \/ PodEvicted(i)

Next == Reconcile \/ Kubernetes \/ EditResource \/ EditNamespaceSecret \/ Failure

Spec == Init /\ [][Next]_vars

Fairness ==
  /\ WF_vars(Reconcile)
  /\ WF_vars(SyncStatefulSet)
  /\ \A i \in Ordinals : WF_vars(PodStarted(i)) /\ WF_vars(PodStopped(i) \/ PodGone(i))

FairSpec == Spec /\ Fairness

-----------------------------------------------------------------------------
(***************************************************************************)
(* Properties                                                              *)
(***************************************************************************)

\* UpdateStatefulSetPods deletes the claims of a pod only after the StatefulSet
\* gave up that ordinal, and never those of a pod the StatefulSet still wants:
\* between the Update of replicas and each Delete the user, the StatefulSet
\* controller and the kubelet go on, and a claim deleted too early is lost data.
ClaimsOfWantedPodsKept ==
  [][\A i \in Ordinals, c \in Claims :
       /\ claims[i][c] \in {"bound", "reused", "retired"}
       /\ claims'[i][c] \in {"deleting", "none"}
       => i >= sts.replicas /\ claims[i][c] = "retired"]_vars

\* "delete PVCs used by the pod so that a future scale up will have clean state"
\* (statefulset.go): no pod is ever created over claims that a scale down left
\* behind.
CleanScaleUp ==
  \A i \in Ordinals, c \in Claims : claims[i][c] # "reused"

\* UpdateStatefulSetPods compares counts, readyReplicas with replicas, and pods go
\* one by one only if equal counts mean that the last one scaled away has stopped.
\* At most one pod beyond replicas is still serving.
OneDepartureAtATime ==
  Cardinality({i \in ReadyPods : i >= sts.replicas}) <= 1

\* "only delete one at a time" (statefulset.go): the loop over the pods deletes one
\* and returns, and the next reconcile, from a status the StatefulSet controller may
\* have written at any time, deletes no other before the first is back.  True of one
\* change at a time; the next change may take a second pod down.
OnePodAtATime ==
  \A i, j \in Ordinals :
    recycling[i] # NoRevision /\ recycling[j] # NoRevision => i = j

\* When the loop has passed every pod, and the status it worked from named the
\* current template, every pod that exists runs this template: the pods are read
\* one call at a time, while others may fail, be evicted and come back.
RolledOut ==
  pc = "prune" /\ view.updateRev = view.template
  => /\ sts.replicas = req.replicas /\ sts.template = req.template
     /\ \A i \in Ordinals :
          i < sts.replicas => pods[i].rev \in {sts.template, NoRevision}

\* RemoveUnwantedSecrets counts versions and does not ask who mounts them: a pod of
\* the StatefulSet never mounts a version that is gone.
MountedSecretsKept ==
  \A i \in Ordinals :
    i < sts.replicas /\ pods[i].state # "absent"
    => pods[i].rev.secret \in secrets \union {0}

\* "GetExistingLatestVersionedSecret retrieves latest EXISTING" version (secrets.go):
\* the template of the StatefulSet never goes back to an older version, which would
\* restart every pod twice.
SecretNeverOlder ==
  [][sts.exists => sts'.template.secret >= sts.template.secret]_vars

\* PhaseReady "means a custom resource is ready and up to date" (common/types.go):
\* a reconcile reports it only when every replica runs the template that it built.
ReadyIsUpToDate ==
  [][pc = "prune" /\ pc' = "idle" /\ phase' = "Ready" /\ fresh
     => \A i \in 0 .. req.replicas - 1 : pods[i].rev = req.template]_vars

\* Once the user and the failures stop, the StatefulSet gets the replicas and the
\* template the resource asks for, every pod runs it, and the phase says so: no
\* wake-up is lost although pods and claims are not watched.
EventuallyConverged == <>[]Converged

-----------------------------------------------------------------------------
(***************************************************************************)
(* The inductive invariant                                                 *)
(***************************************************************************)

\* The latest version exists, and there is one unless the first is still to come.
VersionInv ==
  /\ nsChanged \/ latest # 0
  /\ latest # 0 => latest \in secrets

\* What a reconcile that read the StatefulSet may rely on: nobody else writes its
\* spec, only its status.
ViewInv ==
  /\ pc # "idle" => req.template \in Templates
  /\ pc \in {"scale", "claims", "check", "prune"}
     => sts.exists /\ sts.template = req.template /\ view.template = req.template
  /\ pc \in {"scale", "check", "prune"} => sts.replicas = view.replicas
  /\ pc \in {"check", "prune"} => view.ready = view.replicas /\ view.replicas = req.replicas

\* While claims are deleted, the StatefulSet has just given up their ordinal.
ClaimsInv ==
  pc = "claims"
  => /\ sts.replicas = ord
     /\ \A c \in Claims : claims[ord][c] \notin {"bound", "reused"}

\* Pods from ordinal i on run the current template, or are missing.
RolledOutFrom(i) ==
  \A j \in Ordinals :
    i <= j /\ j < sts.replicas => pods[j].rev \in {sts.template, NoRevision}

LoopInv ==
  view.updateRev = view.template
  => /\ pc = "check" => RolledOutFrom(ord + 1)
     /\ pc = "prune" => RolledOutFrom(0)

\* Without dropped errors a reconcile builds with the latest version, and the
\* StatefulSet has it or an older one.
OrderInv ==
  /\ sts.exists => sts.template \in Templates
  /\ ~ DropsErrors
     => /\ sts.exists => sts.template.secret <= latest
        /\ pc = "apply" => req.template.secret = latest

PodsInv == TypeOK /\ VersionInv /\ ViewInv /\ ClaimsInv /\ LoopInv /\ OrderInv
=============================================================================
