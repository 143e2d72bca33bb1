----------------------- MODULE StatefulSetPods_proofs -----------------------
(***************************************************************************)
(* Proofs about StatefulSetPods, for every number of replicas, set of      *)
(* images and claims, kind of manager, and any number of edits and faults. *)
(*                                                                         *)
(* The first half holds of every behaviour.  The second half, from the     *)
(* rounds of changes on, is about a user who waits until the last change   *)
(* is rolled out, and about Kubernetes and pods that do not fail.          *)
(***************************************************************************)
EXTENDS StatefulSetPods, FiniteSetTheorems, TLAPS

\* The ready pods can be counted, and there are at most MaxReplicas of them.
LEMMA ReadyCount == Cardinality(ReadyPods) \in 0 .. MaxReplicas
<1>1. Ordinals = 0 .. MaxReplicas - 1 /\ IsFiniteSet(Ordinals)
      /\ Cardinality(Ordinals) = MaxReplicas
  BY FS_Interval, ReplicasAssumption DEF Ordinals
<1>2. ReadyPods \subseteq Ordinals
  BY DEF ReadyPods
<1>3. IsFiniteSet(ReadyPods) /\ Cardinality(ReadyPods) <= MaxReplicas
  BY <1>1, <1>2, FS_Subset
<1>4. Cardinality(ReadyPods) \in Nat
  BY <1>3, FS_CardinalityType
<1> QED
  BY <1>3, <1>4, ReplicasAssumption

\* The values that reset the reconcile, and a missing pod, have their types.
LEMMA Defaults ==
  /\ NoRequest \in [replicas : 1 .. MaxReplicas, template : Revisions]
  /\ NoStatefulSet \in StatefulSets
  /\ NoPod \in Pods
  /\ 0 \in Ordinals
  BY ReplicasAssumption
  DEF NoRequest, NoStatefulSet, NoPod, StatefulSets, Pods, Revisions, Ordinals

LEMMA InitTypeOK == Init => TypeOK /\ VersionInv
<1> SUFFICES ASSUME Init PROVE TypeOK /\ VersionInv
  OBVIOUS
<1> QED
  BY Defaults, ReplicasAssumption
  DEF Init, TypeOK, VersionInv, Phases, Revisions, ClaimStates

\* The end of a reconcile keeps the types of what it writes.
LEMMA EndTypes ==
  ASSUME TypeOK, NEW p \in Phases, NEW again \in BOOLEAN, End(p, again)
  PROVE  /\ pc' = "idle" /\ phase' \in Phases /\ queued' \in BOOLEAN
         /\ req' \in [replicas : 1 .. MaxReplicas, template : Revisions]
         /\ view' \in StatefulSets /\ ord' \in Ordinals /\ todo' \subseteq Claims
  BY Defaults DEF End, TypeOK

LEMMA FinishTypes ==
  ASSUME TypeOK, NEW p \in Phases, Finish(p)
  PROVE  /\ pc' = "idle" /\ phase' \in Phases /\ queued' \in BOOLEAN
         /\ req' \in [replicas : 1 .. MaxReplicas, template : Revisions]
         /\ view' \in StatefulSets /\ ord' \in Ordinals /\ todo' \subseteq Claims
<1>1. End(p, p # "Ready") /\ (p # "Ready") \in BOOLEAN
  BY DEF Finish
<1> QED
  BY <1>1, EndTypes

\* A reconcile starts with a request of the right type.
LEMMA BuildTypes ==
  ASSUME TypeOK, NEW n \in Nat, Build(n),
         nsChanged' \in BOOLEAN, secrets' \subseteq Nat \ {0}, latest' \in Nat,
         faults' \in Nat
  PROVE  TypeOK'
<1>1. Wanted \in 1 .. MaxReplicas /\ cr.image \in Images
  BY ReplicasAssumption DEF Wanted, TypeOK
<1>2. req' \in [replicas : 1 .. MaxReplicas, template : Revisions]
  BY <1>1 DEF Build, Revisions, Templates
<1>3. fresh' \in BOOLEAN /\ queued' \in BOOLEAN
  BY DEF Build
<1> QED
  BY <1>2, <1>3 DEF Build, TypeOK, kubeVars

LEMMA StartTypes ==
  ASSUME TypeOK, VersionInv, StartReconcile
  PROVE  TypeOK' /\ VersionInv' /\ latest' \in Nat
<1>1. /\ nsChanged' \in BOOLEAN /\ secrets' \subseteq Nat \ {0} /\ latest' \in Nat
      /\ VersionInv'
  <2>1. CASE nsChanged
    <3>1. /\ latest' = latest + 1 /\ nsChanged' = FALSE
          /\ secrets' = secrets \union {latest + 1}
      BY <2>1 DEF StartReconcile, ApplyVersionedSecret
    <3>2. latest \in Nat /\ secrets \subseteq Nat \ {0}
      BY DEF TypeOK
    <3>3. latest + 1 \in Nat \ {0}
      BY <3>2
    <3>4. latest' \in Nat \ {0} /\ latest' \in secrets' /\ secrets' \subseteq Nat \ {0}
      BY <3>1, <3>2, <3>3
    <3>5. nsChanged' \in BOOLEAN
      BY <3>1
    <3> QED
      BY <3>4, <3>5 DEF VersionInv
  <2>2. CASE ~ nsChanged
    <3>1. secrets' = secrets /\ latest' = latest /\ nsChanged' = nsChanged
      BY <2>2 DEF StartReconcile, ApplyVersionedSecret, secretVars
    <3> QED
      BY <2>2, <3>1 DEF TypeOK, VersionInv
  <2> QED
    BY <2>1, <2>2
<1>2. faults' \in Nat
  BY DEF StartReconcile, TypeOK
<1> QED
  BY <1>1, <1>2, BuildTypes DEF StartReconcile

LEMMA SyncTypes ==
  ASSUME TypeOK, SyncStatefulSet
  PROVE  TypeOK'
<1>1. sts' \in StatefulSets
  BY ReadyCount DEF SyncStatefulSet, TypeOK, StatefulSets
<1>2. pods' \in [Ordinals -> Pods]
  <2>1. sts.template \in Revisions
    BY DEF TypeOK, StatefulSets
  <2>2. \A i \in Ordinals : pods'[i] \in Pods
    <3> SUFFICES ASSUME NEW i \in Ordinals PROVE pods'[i] \in Pods
      OBVIOUS
    <3>1. CASE i \in MissingPods
      BY <2>1, <3>1 DEF SyncStatefulSet, Pods
    <3>2. CASE i \notin MissingPods
      <4>1. pods'[i] = [pods[i] EXCEPT !.deleting = @ \/ i \in SurplusPods]
        BY <3>2 DEF SyncStatefulSet
      <4>2. pods[i] \in Pods /\ (pods[i].deleting \/ i \in SurplusPods) \in BOOLEAN
        BY DEF TypeOK, Pods
      <4> QED
        BY <4>1, <4>2 DEF Pods
    <3> QED
      BY <3>1, <3>2
  <2> QED
    BY <2>2 DEF SyncStatefulSet
<1>3. claims' \in [Ordinals -> [Claims -> ClaimStates]]
  <2>1. \A x \in ClaimStates : Bind(x) \in ClaimStates
    BY DEF ClaimStates, Bind
  <2>2. \A i \in Ordinals : [c \in Claims |-> Bind(claims[i][c])] \in [Claims -> ClaimStates]
    BY <2>1 DEF TypeOK
  <2> QED
    BY <2>2 DEF SyncStatefulSet, TypeOK
<1> QED
  BY <1>1, <1>2, <1>3 DEF SyncStatefulSet, TypeOK, crVars, secretVars, opVars

\* A kubelet action writes one pod.
LEMMA SetPodTypes ==
  ASSUME TypeOK, NEW i \in Ordinals, NEW p \in Pods, SetPod(i, p),
         claims' \in [Ordinals -> [Claims -> ClaimStates]],
         recycling' \in [Ordinals -> Revisions], faults' \in Nat
  PROVE  TypeOK'
  BY DEF SetPod, TypeOK, crVars, secretVars, opVars

\* The steps that write the StatefulSet, the claims or the pods for the operator.
LEMMA ReconcileTypes ==
  ASSUME TypeOK, VersionInv, Reconcile
  PROVE  TypeOK' /\ VersionInv'
<1> USE DEF crVars, secretVars, kubeVars
<1>1. CASE StartReconcile
  BY <1>1, StartTypes
<1>2. CASE CreateStatefulSet
  <2>1. sts' \in StatefulSets
    <3>1. sts' = [NoStatefulSet EXCEPT !.exists = TRUE, !.owned = req.template.secret # 0,
                                       !.replicas = req.replicas, !.template = req.template]
      BY <1>2 DEF CreateStatefulSet
    <3>2. req.replicas \in 0 .. MaxReplicas /\ req.template \in Revisions
      BY ReplicasAssumption DEF TypeOK
    <3> QED
      BY <3>1, <3>2, Defaults DEF StatefulSets
  <2> QED
    BY <1>2, <2>1, FinishTypes DEF CreateStatefulSet, TypeOK, VersionInv, Phases
<1>3. CASE UpdateTemplate
  <2>1. sts' \in StatefulSets
    <3>1. sts' = [sts EXCEPT !.template = req.template]
      BY <1>3 DEF UpdateTemplate
    <3> QED
      BY <3>1 DEF TypeOK, StatefulSets
  <2>2. CASE KeepsGoing
    BY <1>3, <2>1, <2>2 DEF UpdateTemplate, GoTo, TypeOK, VersionInv
  <2>3. CASE ~ KeepsGoing
    BY <1>3, <2>1, <2>3, FinishTypes DEF UpdateTemplate, TypeOK, VersionInv, Phases
  <2> QED
    BY <2>2, <2>3
<1>4. CASE KeepTemplate
  BY <1>4 DEF KeepTemplate, GoTo, TypeOK, VersionInv
<1>5. CASE WaitForReplicas
  BY <1>5, FinishTypes DEF WaitForReplicas, TypeOK, VersionInv, Phases
<1>6. CASE ScaleUp
  <2>1. sts' \in StatefulSets
    BY <1>6 DEF ScaleUp, TypeOK, StatefulSets
  <2> QED
    BY <1>6, <2>1, FinishTypes DEF ScaleUp, TypeOK, VersionInv, Phases
<1>7. CASE NoScaling
  <2>1. view.ready - 1 \in Ordinals
    <3>1. view.ready \in 1 .. MaxReplicas
      BY <1>7, ReplicasAssumption DEF NoScaling, TypeOK
    <3> QED
      BY <3>1, ReplicasAssumption DEF Ordinals
  <2> QED
    BY <1>7, <2>1 DEF NoScaling, GoTo, TypeOK, VersionInv
<1>8. ASSUME NEW v \in Verdicts, ScaleDown(v) PROVE TypeOK' /\ VersionInv'
  <2>1. CASE Finish("Error") /\ UNCHANGED <<sts, claims, recycling>>
    BY <1>8, <2>1, FinishTypes DEF ScaleDown, TypeOK, VersionInv, Phases
  <2>2. CASE Finish("ScalingDown") /\ UNCHANGED <<sts, claims, recycling>>
    BY <1>8, <2>2, FinishTypes DEF ScaleDown, TypeOK, VersionInv, Phases
  <2>3. CASE /\ Retire(view.ready - 1) /\ GoTo("claims", TRUE)
             /\ ord' = view.ready - 1 /\ todo' = Claims
             /\ UNCHANGED <<req, view>>
    <3>1. view.ready - 1 \in Ordinals /\ view.ready - 1 \in 0 .. MaxReplicas
      <4>1. view.ready \in 1 .. MaxReplicas
        <5>1. view.ready > req.replicas /\ req.replicas \in Nat
          BY <1>8, ReplicasAssumption DEF ScaleDown, TypeOK
        <5>2. view.ready \in 0 .. MaxReplicas
          BY DEF TypeOK, StatefulSets
        <5> QED
          BY <5>1, <5>2, ReplicasAssumption
      <4> QED
        BY <4>1, ReplicasAssumption DEF Ordinals
    <3>2. sts' \in StatefulSets
      BY <2>3, <3>1 DEF Retire, TypeOK, StatefulSets
    <3>3. claims' \in [Ordinals -> [Claims -> ClaimStates]]
      BY <2>3, <3>1 DEF Retire, TypeOK, ClaimStates
    <3>4. recycling' \in [Ordinals -> Revisions]
      BY <2>3 DEF Retire, TypeOK, Revisions
    <3> QED
      BY <1>8, <2>3, <3>1, <3>2, <3>3, <3>4 DEF ScaleDown, GoTo, TypeOK, VersionInv
  <2> QED
    BY <1>8, <2>1, <2>2, <2>3 DEF ScaleDown
<1>9. ASSUME NEW v \in Verdicts, RecyclePod(v) PROVE TypeOK' /\ VersionInv'
  <2>1. pods' \in [Ordinals -> Pods]
    <3>1. [pods[ord] EXCEPT !.deleting = TRUE] \in Pods
      BY DEF TypeOK, Pods
    <3>2. pods' = pods \/ pods' = [pods EXCEPT ![ord].deleting = TRUE]
      BY <1>9 DEF RecyclePod
    <3> QED
      BY <3>1, <3>2 DEF TypeOK
  <2>2. recycling' \in [Ordinals -> Revisions]
    BY <1>9 DEF RecyclePod, TypeOK, StatefulSets
  <2> QED
    BY <1>9, <2>1, <2>2, FinishTypes DEF RecyclePod, TypeOK, VersionInv, Phases
<1>10. ASSUME NEW v \in Verdicts, FinishPod(v) PROVE TypeOK' /\ VersionInv'
  <2>1. (IF ord = 0 THEN 0 ELSE ord - 1) \in Ordinals
    BY ReplicasAssumption DEF TypeOK, Ordinals
  <2> QED
    BY <1>10, <2>1, FinishTypes DEF FinishPod, GoTo, TypeOK, VersionInv, Phases
<1>11. CASE DeleteClaim
  <2>1. claims' \in [Ordinals -> [Claims -> ClaimStates]]
    BY <1>11 DEF DeleteClaim, TypeOK, ClaimStates
  <2> QED
    BY <1>11, <2>1 DEF DeleteClaim, GoTo, TypeOK, VersionInv
<1>12. CASE ClaimsDeleted
  BY <1>12, FinishTypes DEF ClaimsDeleted, TypeOK, VersionInv, Phases
<1>13. CASE WaitForPod
  BY <1>13, FinishTypes DEF WaitForPod, TypeOK, VersionInv, Phases
<1>14. CASE RemoveUnwantedSecrets
  <2>1. latest' \notin UnwantedSecrets
    BY <1>14 DEF RemoveUnwantedSecrets, UnwantedSecrets, MinimumVersionedSecrets, TypeOK
  <2> QED
    BY <1>14, <2>1, FinishTypes DEF RemoveUnwantedSecrets, TypeOK, VersionInv, Phases
<1>15. CASE ManagerStops
  BY <1>15, FinishTypes DEF ManagerStops, TypeOK, VersionInv, Phases
<1>16. CASE ClaimNotFound
  BY <1>16, FinishTypes DEF ClaimNotFound, TypeOK, VersionInv, Phases
<1>17. CASE RewriteSecret
  BY <1>17 DEF RewriteSecret, opVars, TypeOK, VersionInv
<1>18. CASE ReadyStepFails
  <2>1. latest' \notin UnwantedSecrets
    BY <1>18 DEF ReadyStepFails, UnwantedSecrets, MinimumVersionedSecrets, TypeOK
  <2> QED
    BY <1>18, <2>1, EndTypes DEF ReadyStepFails, TypeOK, VersionInv, Phases
<1> QED
  BY <1>1, <1>2, <1>3, <1>4, <1>5, <1>6, <1>7, <1>8, <1>9, <1>10, <1>11, <1>12,
     <1>13, <1>14, <1>15, <1>16, <1>17, <1>18 DEF Reconcile

LEMMA FailureTypes ==
  ASSUME TypeOK, VersionInv, Failure
  PROVE  TypeOK' /\ VersionInv'
<1> USE DEF crVars, secretVars, kubeVars
<1>0. faults + 1 \in Nat
  BY DEF TypeOK
<1>1. CASE ApiError
  BY <1>0, <1>1, FinishTypes DEF ApiError, Fault, TypeOK, VersionInv, Phases
<1>2. CASE PruneError
  <2>1. PICK S \in SUBSET UnwantedSecrets : secrets' = secrets \ S
    BY <1>2 DEF PruneError
  <2>2. latest \notin UnwantedSecrets
    BY DEF UnwantedSecrets, MinimumVersionedSecrets, TypeOK
  <2> QED
    BY <1>0, <1>2, <2>1, <2>2, FinishTypes
    DEF PruneError, Fault, TypeOK, VersionInv, Phases
<1>3. CASE Crash
  BY <1>0, <1>3, Defaults DEF Crash, Fault, TypeOK, VersionInv
<1>4. ASSUME NEW i \in Ordinals, PodFails(i) PROVE TypeOK' /\ VersionInv'
  <2>1. [pods[i] EXCEPT !.state = "unready"] \in Pods
    BY DEF TypeOK, Pods
  <2> QED
    BY <1>0, <1>4, <2>1, SetPodTypes DEF PodFails, Fault, SetPod, TypeOK, VersionInv
<1>5. ASSUME NEW i \in Ordinals, PodEvicted(i) PROVE TypeOK' /\ VersionInv'
  <2>1. [pods[i] EXCEPT !.deleting = TRUE] \in Pods
    BY DEF TypeOK, Pods
  <2> QED
    BY <1>0, <1>5, <2>1, SetPodTypes DEF PodEvicted, Fault, SetPod, TypeOK, VersionInv
<1>6. CASE DropCreateError
  <2>1. TypeOK'
    BY <1>0, <1>6, BuildTypes DEF DropCreateError, Fault, TypeOK
  <2>2. secrets' = secrets /\ latest' = latest /\ nsChanged
        /\ nsChanged' = nsChanged
    BY <1>6 DEF DropCreateError
  <2> QED
    BY <2>1, <2>2 DEF VersionInv
<1>7. CASE DropListError
  <2>1. /\ secrets' = secrets \union {1} /\ latest' = latest /\ latest # 0
        /\ nsChanged' = (nsChanged /\ latest # 1) /\ faults' = faults + 1 /\ Build(1)
    BY <1>7 DEF DropListError, Fault
  <2>2. nsChanged' \in BOOLEAN /\ secrets' \subseteq Nat \ {0} /\ latest' \in Nat
    BY <2>1 DEF TypeOK
  <2>3. TypeOK'
    BY <1>0, <2>1, <2>2, BuildTypes
  <2> QED
    BY <2>1, <2>3 DEF VersionInv
<1>8. CASE DropPruneError
  BY <1>0, <1>8, FinishTypes DEF DropPruneError, Fault, TypeOK, VersionInv, Phases
<1>9. CASE PublishError
  <2>1. latest' \notin UnwantedSecrets
    BY <1>9 DEF PublishError, UnwantedSecrets, MinimumVersionedSecrets, TypeOK
  <2> QED
    BY <1>0, <1>9, <2>1, EndTypes DEF PublishError, Fault, TypeOK, VersionInv, Phases
<1> QED
  BY <1>1, <1>2, <1>3, <1>4, <1>5, <1>6, <1>7, <1>8, <1>9 DEF Failure

LEMMA KubernetesTypes ==
  ASSUME TypeOK, VersionInv, Kubernetes
  PROVE  TypeOK' /\ VersionInv'
<1>1. CASE SyncStatefulSet
  BY <1>1, SyncTypes DEF SyncStatefulSet, VersionInv, crVars, secretVars
<1>2. ASSUME NEW i \in Ordinals, PodStarted(i) PROVE TypeOK' /\ VersionInv'
  <2>1. [pods[i] EXCEPT !.state = "ready"] \in Pods
    BY DEF TypeOK, Pods
  <2>2. recycling' \in [Ordinals -> Revisions]
    BY <1>2 DEF PodStarted, TypeOK, Revisions
  <2> QED
    BY <1>2, <2>1, <2>2, SetPodTypes
    DEF PodStarted, SetPod, TypeOK, VersionInv, crVars, secretVars
<1>3. ASSUME NEW i \in Ordinals, PodStopped(i) PROVE TypeOK' /\ VersionInv'
  <2>1. [pods[i] EXCEPT !.state = "unready"] \in Pods
    BY DEF TypeOK, Pods
  <2> QED
    BY <1>3, <2>1, SetPodTypes
    DEF PodStopped, SetPod, TypeOK, VersionInv, crVars, secretVars
<1>4. ASSUME NEW i \in Ordinals, PodGone(i) PROVE TypeOK' /\ VersionInv'
  <2>1. claims' \in [Ordinals -> [Claims -> ClaimStates]]
    BY <1>4 DEF PodGone, TypeOK, ClaimStates
  <2> QED
    BY <1>4, <2>1, Defaults, SetPodTypes
    DEF PodGone, SetPod, TypeOK, VersionInv, crVars, secretVars
<1> QED
  BY <1>1, <1>2, <1>3, <1>4 DEF Kubernetes

\* Every step keeps the types and the latest secret version.
LEMMA NextTypes ==
  ASSUME TypeOK, VersionInv, [Next]_vars
  PROVE  TypeOK' /\ VersionInv'
<1> USE DEF crVars, secretVars, kubeVars, opVars
<1>1. CASE EditResource
  <2>1. fresh' \in BOOLEAN /\ queued' \in BOOLEAN
    BY <1>1 DEF EditResource
  <2>2. cr' \in [replicas : 1 .. MaxReplicas, image : Images] /\ edits' \in Nat
    BY <1>1 DEF EditResource, Edit, TypeOK
  <2> QED
    BY <1>1, <2>1, <2>2 DEF EditResource, TypeOK, VersionInv
<1>2. CASE EditNamespaceSecret
  <2>1. TypeOK'
    BY <1>2 DEF EditNamespaceSecret, Edit, TypeOK
  <2>2. nsChanged' /\ latest' = latest /\ secrets' = secrets
    BY <1>2 DEF EditNamespaceSecret
  <2> QED
    BY <2>1, <2>2 DEF VersionInv
<1>3. CASE UNCHANGED vars
  BY <1>3 DEF vars, TypeOK, VersionInv
<1> QED
  BY <1>1, <1>2, <1>3, ReconcileTypes, KubernetesTypes, FailureTypes DEF Next

-----------------------------------------------------------------------------
(***************************************************************************)
(* What a reconcile may rely on between two of its calls                   *)
(***************************************************************************)

WalkInv == ViewInv /\ ClaimsInv /\ LoopInv

\* A reconcile that ends relies on nothing.
LEMMA IdleWalk == (pc = "idle" => WalkInv) /\ (pc' = "idle" => WalkInv')
  BY DEF WalkInv, ViewInv, ClaimsInv, LoopInv

LEMMA EndWalk ==
  ASSUME NEW p, NEW again, End(p, again)
  PROVE  WalkInv'
  BY IdleWalk DEF End

LEMMA FinishWalk ==
  ASSUME NEW p, Finish(p)
  PROVE  WalkInv'
  BY EndWalk DEF Finish

LEMMA BuildWalk ==
  ASSUME TypeOK, NEW n \in Nat, Build(n)
  PROVE  WalkInv' /\ req'.template = [image |-> cr.image, secret |-> n]
<1>1. req'.template \in Templates
  BY DEF Build, Templates, TypeOK
<1> QED
  BY <1>1 DEF Build, WalkInv, ViewInv, ClaimsInv, LoopInv

LEMMA ReconcileWalk ==
  ASSUME TypeOK, VersionInv, WalkInv, Reconcile
  PROVE  WalkInv'
<1> USE DEF crVars, secretVars, kubeVars
<1>1. CASE StartReconcile
  BY <1>1, StartTypes, BuildWalk DEF StartReconcile
<1>2. CASE CreateStatefulSet
  BY <1>2, FinishWalk DEF CreateStatefulSet
<1>3. CASE UpdateTemplate
  <2>1. CASE KeepsGoing
    BY <1>3, <2>1
    DEF UpdateTemplate, GoTo, WalkInv, ViewInv, ClaimsInv, LoopInv, TypeOK, StatefulSets
  <2>2. CASE ~ KeepsGoing
    BY <1>3, <2>2, FinishWalk DEF UpdateTemplate
  <2> QED
    BY <2>1, <2>2
<1>4. CASE KeepTemplate
  BY <1>4 DEF KeepTemplate, GoTo, WalkInv, ViewInv, ClaimsInv, LoopInv
<1>5. CASE WaitForReplicas
  BY <1>5, FinishWalk DEF WaitForReplicas
<1>6. CASE ScaleUp
  BY <1>6, FinishWalk DEF ScaleUp
<1>7. CASE NoScaling
  <2>1. RolledOutFrom(view.ready)
    BY <1>7 DEF NoScaling, RolledOutFrom, WalkInv, ViewInv, Ordinals, TypeOK, StatefulSets
  <2>2. ord' + 1 = view.ready
    BY <1>7 DEF NoScaling, TypeOK, StatefulSets
  <2> QED
    BY <1>7, <2>1, <2>2
    DEF NoScaling, GoTo, WalkInv, ViewInv, ClaimsInv, LoopInv, RolledOutFrom
<1>8. ASSUME NEW v \in Verdicts, ScaleDown(v) PROVE WalkInv'
  <2>1. CASE Finish("Error") \/ Finish("ScalingDown")
    BY <2>1, FinishWalk
  <2>2. CASE /\ Retire(view.ready - 1) /\ GoTo("claims", TRUE)
             /\ ord' = view.ready - 1
             /\ UNCHANGED <<req, view>>
    <3>1. view.ready - 1 \in Ordinals
      <4>1. view.ready > req.replicas /\ req.replicas \in Nat \ {0}
        BY <1>8, ReplicasAssumption DEF ScaleDown, TypeOK
      <4>2. view.ready \in 0 .. MaxReplicas
        BY DEF TypeOK, StatefulSets
      <4> QED
        BY <4>1, <4>2, ReplicasAssumption DEF Ordinals
    <3>2. ViewInv'
      BY <1>8, <2>2 DEF ScaleDown, Retire, GoTo, WalkInv, ViewInv, TypeOK, StatefulSets
    <3>3. ClaimsInv'
      BY <2>2, <3>1 DEF Retire, GoTo, ClaimsInv, TypeOK, StatefulSets
    <3> QED
      BY <2>2, <3>2, <3>3 DEF GoTo, WalkInv, LoopInv
  <2> QED
    BY <1>8, <2>1, <2>2 DEF ScaleDown
<1>9. ASSUME NEW v \in Verdicts, RecyclePod(v) PROVE WalkInv'
  BY <1>9, FinishWalk DEF RecyclePod
<1>10. ASSUME NEW v \in Verdicts, FinishPod(v) PROVE WalkInv'
  <2>1. CASE Finish("Error") \/ Finish("Updating")
    BY <2>1, FinishWalk
  <2>2. CASE /\ ord' = IF ord = 0 THEN 0 ELSE ord - 1
             /\ GoTo(IF ord = 0 THEN "prune" ELSE "check", FALSE)
             /\ UNCHANGED <<req, view, todo>>
    <3>1. pc = "check" /\ ~ Outdated(ord) /\ UNCHANGED kubeVars
      BY <1>10 DEF FinishPod
    <3>2. ViewInv'
      BY <2>2, <3>1 DEF GoTo, WalkInv, ViewInv
    <3>3. view.updateRev = view.template => RolledOutFrom(ord)
      <4> SUFFICES ASSUME view.updateRev = view.template,
                          NEW j \in Ordinals, ord <= j, j < sts.replicas
                   PROVE  pods[j].rev \in {sts.template, NoRevision}
        BY DEF RolledOutFrom
      <4>1. CASE j = ord
        BY <3>1, <4>1, RevisionAssumption DEF Outdated, WalkInv, ViewInv
      <4>2. CASE j # ord
        <5>1. ord + 1 <= j
          BY <4>2 DEF Ordinals, TypeOK
        <5> QED
          BY <3>1, <5>1 DEF WalkInv, LoopInv, RolledOutFrom
      <4> QED
        BY <4>1, <4>2
    <3>4. LoopInv'
      <4>1. CASE ord = 0
        BY <2>2, <3>1, <3>3, <4>1 DEF GoTo, LoopInv, RolledOutFrom
      <4>2. CASE ord # 0
        <5>1. ord' + 1 = ord
          BY <2>2, <4>2 DEF TypeOK, Ordinals
        <5> QED
          BY <2>2, <3>1, <3>3, <4>2, <5>1 DEF GoTo, LoopInv, RolledOutFrom
      <4> QED
        BY <4>1, <4>2
    <3> QED
      BY <2>2, <3>2, <3>4 DEF GoTo, WalkInv, ClaimsInv
  <2> QED
    BY <1>10, <2>1, <2>2 DEF FinishPod
<1>11. CASE DeleteClaim
  <2>1. ClaimsInv'
    BY <1>11 DEF DeleteClaim, WalkInv, ClaimsInv, TypeOK
  <2> QED
    BY <1>11, <2>1 DEF DeleteClaim, GoTo, WalkInv, ViewInv, LoopInv
<1>12. CASE ClaimsDeleted
  BY <1>12, FinishWalk DEF ClaimsDeleted
<1>13. CASE WaitForPod
  BY <1>13, FinishWalk DEF WaitForPod
<1>14. CASE RemoveUnwantedSecrets
  BY <1>14, FinishWalk DEF RemoveUnwantedSecrets
<1>15. CASE ManagerStops
  BY <1>15, FinishWalk DEF ManagerStops
<1>16. CASE ClaimNotFound
  BY <1>16, FinishWalk DEF ClaimNotFound
<1>17. CASE RewriteSecret
  BY <1>17 DEF RewriteSecret, opVars, WalkInv, ViewInv, ClaimsInv, LoopInv, RolledOutFrom
<1>18. CASE ReadyStepFails
  BY <1>18, EndWalk DEF ReadyStepFails
<1> QED
  BY <1>1, <1>2, <1>3, <1>4, <1>5, <1>6, <1>7, <1>8, <1>9, <1>10, <1>11, <1>12,
     <1>13, <1>14, <1>15, <1>16, <1>17, <1>18 DEF Reconcile

\* Nobody but the operator writes the spec of the StatefulSet, a pod is only ever
\* created from the template the StatefulSet has then, and the claims of an ordinal
\* that was given up are bound by no new pod.
LEMMA EnvironmentWalk ==
  ASSUME TypeOK, WalkInv,
         UNCHANGED <<opVars, sts.exists, sts.replicas, sts.template>>,
         \A i \in Ordinals : pods'[i].rev \in {pods[i].rev, sts.template, NoRevision},
         \A i \in Ordinals : i >= sts.replicas =>
           \A c \in Claims : claims'[i][c] \in {claims[i][c], "none"}
  PROVE  WalkInv'
<1>1. ViewInv'
  BY DEF opVars, WalkInv, ViewInv
<1>2. ClaimsInv'
  BY DEF opVars, WalkInv, ClaimsInv, TypeOK, Ordinals
<1>3. ASSUME NEW k, RolledOutFrom(k) PROVE RolledOutFrom(k)'
  BY <1>3 DEF RolledOutFrom
<1>4. LoopInv'
  <2>1. view' = view /\ pc' = pc /\ ord' = ord
    BY DEF opVars
  <2>2. LoopInv
    BY DEF WalkInv
  <2>3. RolledOutFrom(ord + 1) => RolledOutFrom(ord + 1)'
    BY <2>1 DEF RolledOutFrom
  <2>4. RolledOutFrom(0) => RolledOutFrom(0)'
    BY <1>3
  <2> QED
    BY <2>1, <2>2, <2>3, <2>4 DEF LoopInv
<1> QED
  BY <1>1, <1>2, <1>4 DEF WalkInv

\* A kubelet action that keeps the revision of its pod, or removes it.
LEMMA SetPodWalk ==
  ASSUME TypeOK, WalkInv, NEW i \in Ordinals, NEW p, SetPod(i, p),
         p.rev \in {pods[i].rev, NoRevision},
         \A j \in Ordinals : \A c \in Claims : claims'[j][c] \in {claims[j][c], "none"}
  PROVE  WalkInv'
<1>1. UNCHANGED <<opVars, sts>>
  BY DEF SetPod
<1>2. \A j \in Ordinals : pods'[j] = IF j = i THEN p ELSE pods[j]
  BY DEF SetPod, TypeOK
<1> QED
  BY <1>1, <1>2, EnvironmentWalk

LEMMA KubernetesWalk ==
  ASSUME TypeOK, WalkInv, Kubernetes
  PROVE  WalkInv'
<1>1. CASE SyncStatefulSet
  <2>1. UNCHANGED <<opVars, sts.exists, sts.replicas, sts.template>>
    BY <1>1 DEF SyncStatefulSet, TypeOK, StatefulSets
  <2>2. \A i \in Ordinals : pods'[i].rev \in {pods[i].rev, sts.template, NoRevision}
    BY <1>1 DEF SyncStatefulSet, TypeOK, Pods
  <2>3. \A i \in Ordinals : i >= sts.replicas => i \notin MissingPods
    BY DEF MissingPods, Ordinals, TypeOK, StatefulSets
  <2>4. \A i \in Ordinals : i >= sts.replicas =>
          \A c \in Claims : claims'[i][c] \in {claims[i][c], "none"}
    BY <1>1, <2>3 DEF SyncStatefulSet
  <2> QED
    BY <2>1, <2>2, <2>4, EnvironmentWalk
<1>2. ASSUME NEW i \in Ordinals, PodStarted(i) PROVE WalkInv'
  <2>1. [pods[i] EXCEPT !.state = "ready"].rev = pods[i].rev
    BY DEF TypeOK, Pods
  <2> QED
    BY <1>2, <2>1, SetPodWalk DEF PodStarted
<1>3. ASSUME NEW i \in Ordinals, PodStopped(i) PROVE WalkInv'
  <2>1. [pods[i] EXCEPT !.state = "unready"].rev = pods[i].rev
    BY DEF TypeOK, Pods
  <2> QED
    BY <1>3, <2>1, SetPodWalk DEF PodStopped
<1>4. ASSUME NEW i \in Ordinals, PodGone(i) PROVE WalkInv'
  <2>1. \A j \in Ordinals : \A c \in Claims : claims'[j][c] \in {claims[j][c], "none"}
    BY <1>4 DEF PodGone, TypeOK
  <2> QED
    BY <1>4, <2>1, SetPodWalk DEF PodGone, NoPod
<1> QED
  BY <1>1, <1>2, <1>3, <1>4 DEF Kubernetes

LEMMA FailureWalk ==
  ASSUME TypeOK, WalkInv, Failure
  PROVE  WalkInv'
<1>1. CASE ApiError \/ PruneError \/ PublishError \/ DropPruneError
  BY <1>1, FinishWalk, EndWalk DEF ApiError, PruneError, PublishError, DropPruneError
<1>2. CASE Crash
  BY <1>2, IdleWalk DEF Crash
<1>3. ASSUME NEW i \in Ordinals, PodFails(i) PROVE WalkInv'
  <2>1. [pods[i] EXCEPT !.state = "unready"].rev = pods[i].rev
    BY DEF TypeOK, Pods
  <2> QED
    BY <1>3, <2>1, SetPodWalk DEF PodFails
<1>4. ASSUME NEW i \in Ordinals, PodEvicted(i) PROVE WalkInv'
  <2>1. [pods[i] EXCEPT !.deleting = TRUE].rev = pods[i].rev
    BY DEF TypeOK, Pods
  <2> QED
    BY <1>4, <2>1, SetPodWalk DEF PodEvicted
<1>5. CASE DropCreateError \/ DropListError
  BY <1>5, BuildWalk DEF DropCreateError, DropListError
<1> QED
  BY <1>1, <1>2, <1>3, <1>4, <1>5 DEF Failure

\* Only CreateStatefulSet and UpdateTemplate write the template of the StatefulSet, and
\* only a reconcile that starts changes the latest version.
LEMMA NextOrder ==
  ASSUME TypeOK, VersionInv, ViewInv, OrderInv, [Next]_vars
  PROVE  OrderInv'
<1> USE DEF crVars, secretVars, kubeVars, opVars
<1>1. CASE StartReconcile \/ DropCreateError \/ DropListError
  <2>1. sts' = sts /\ pc' = "apply"
    BY <1>1 DEF StartReconcile, DropCreateError, DropListError, Build
  <2>2. CASE DropsErrors
    BY <2>1, <2>2 DEF OrderInv
  <2>3. CASE ~ DropsErrors
    <3>1. StartReconcile
      BY <1>1, <2>3 DEF DropCreateError, DropListError
    <3>2. latest' = latest \/ latest' = latest + 1
      BY <3>1 DEF StartReconcile, ApplyVersionedSecret
    <3>3. req'.template.secret = latest'
      <4>1. latest' \in Nat /\ Build(latest')
        BY <3>1, StartTypes DEF StartReconcile
      <4>2. req'.template = [image |-> cr.image, secret |-> latest']
        BY <4>1, BuildWalk
      <4> QED
        BY <4>2
    <3>4. sts.exists => sts.template.secret \in Nat
      BY DEF OrderInv, Templates
    <3> QED
      BY <2>1, <2>3, <3>2, <3>3, <3>4 DEF OrderInv, TypeOK
  <2> QED
    BY <2>2, <2>3
<1>2. CASE CreateStatefulSet \/ UpdateTemplate
  <2>1. sts'.template = req.template /\ latest' = latest /\ pc' # "apply"
        /\ pc = "apply" /\ sts'.exists
    BY <1>2 DEF CreateStatefulSet, UpdateTemplate, Finish, End, GoTo, NoStatefulSet,
                TypeOK, StatefulSets
  <2>2. req.template \in Templates
    BY <2>1 DEF ViewInv
  <2> QED
    BY <2>1, <2>2 DEF OrderInv, Templates, TypeOK
<1>3. CASE /\ sts'.template = sts.template /\ sts'.exists = sts.exists
           /\ latest' = latest
           /\ pc' # "apply" \/ (pc' = pc /\ req' = req)
  BY <1>3 DEF OrderInv
<1>4. CASE /\ Reconcile /\ ~ StartReconcile /\ ~ CreateStatefulSet /\ ~ UpdateTemplate
           /\ ~ RewriteSecret
  <2>1. latest' = latest /\ pc' # "apply"
    BY <1>4 DEF Reconcile, KeepTemplate, ManagerStops, WaitForReplicas, ScaleUp,
       NoScaling, ScaleDown, RecyclePod, FinishPod, DeleteClaim, ClaimNotFound,
       ClaimsDeleted, WaitForPod, RemoveUnwantedSecrets, ReadyStepFails, Finish, End, GoTo
  <2>2. sts' = sts \/ \E k \in Int : sts' = [sts EXCEPT !.replicas = k]
    <3>1. req.replicas \in Int /\ view.ready - 1 \in Int
      BY DEF TypeOK, StatefulSets
    <3> QED
      BY <1>4, <3>1 DEF Reconcile, KeepTemplate, ManagerStops, WaitForReplicas, ScaleUp,
         NoScaling, ScaleDown, Retire, RecyclePod, FinishPod, DeleteClaim, ClaimNotFound,
         ClaimsDeleted, WaitForPod, RemoveUnwantedSecrets, ReadyStepFails
  <2> QED
    BY <1>3, <2>1, <2>2 DEF TypeOK, StatefulSets
<1>5. CASE \/ Kubernetes \/ EditResource \/ EditNamespaceSecret \/ RewriteSecret
           \/ UNCHANGED vars
  <2>1. latest' = latest /\ UNCHANGED opVars
    BY <1>5 DEF Kubernetes, SyncStatefulSet, PodStarted, PodStopped, PodGone, SetPod,
       EditResource, EditNamespaceSecret, RewriteSecret, vars
  <2>2. sts'.template = sts.template /\ sts'.exists = sts.exists
    BY <1>5 DEF Kubernetes, SyncStatefulSet, PodStarted, PodStopped, PodGone, SetPod,
       EditResource, EditNamespaceSecret, RewriteSecret, vars, TypeOK, StatefulSets
  <2> QED
    BY <1>3, <2>1, <2>2
<1>6. CASE Failure /\ ~ DropCreateError /\ ~ DropListError
  <2>1. latest' = latest /\ sts' = sts
    BY <1>6 DEF Failure, ApiError, PruneError, PublishError, DropPruneError, Crash,
       PodFails, PodEvicted, SetPod
  <2>2. pc' # "apply" \/ (pc' = pc /\ req' = req)
    BY <1>6 DEF Failure, ApiError, PruneError, PublishError, DropPruneError, Crash,
       PodFails, PodEvicted, SetPod, Finish, End
  <2> QED
    BY <1>3, <2>1, <2>2
<1> QED
  BY <1>1, <1>2, <1>4, <1>5, <1>6 DEF Next

LEMMA NextPodsInv ==
  ASSUME PodsInv, [Next]_vars
  PROVE  PodsInv'
<1>1. TypeOK /\ VersionInv /\ WalkInv
  BY DEF PodsInv, WalkInv
<1>2. TypeOK' /\ VersionInv' /\ OrderInv'
  BY <1>1, NextTypes, NextOrder DEF PodsInv
<1>3. CASE EditResource \/ EditNamespaceSecret \/ UNCHANGED vars
  <2>1. UNCHANGED <<opVars, kubeVars>>
    BY <1>3 DEF EditResource, EditNamespaceSecret, vars
  <2> QED
    BY <1>1, <1>2, <2>1, EnvironmentWalk DEF PodsInv, WalkInv, kubeVars
<1>4. CASE Reconcile \/ Kubernetes \/ Failure
  BY <1>1, <1>2, <1>4, ReconcileWalk, KubernetesWalk, FailureWalk DEF PodsInv, WalkInv
<1> QED
  BY <1>3, <1>4 DEF Next

\* The inductive invariant: types, the latest secret version, and what a reconcile
\* may rely on between its calls.
THEOREM PodsInvariant == Spec => []PodsInv
<1>1. Init => PodsInv
  BY InitTypeOK, IdleWalk DEF Init, PodsInv, WalkInv, OrderInv, NoStatefulSet
<1>2. PodsInv /\ [Next]_vars => PodsInv'
  BY NextPodsInv
<1> QED
  BY <1>1, <1>2, PTL DEF Spec

\* The variables keep their types: in particular the loop over the pods never
\* leaves the ordinals and the StatefulSet is never scaled below zero.
THEOREM TypeCorrect == Spec => []TypeOK
<1>1. PodsInv => TypeOK
  BY DEF PodsInv
<1> QED
  BY <1>1, PodsInvariant, PTL

\* When UpdateStatefulSetPods has passed every pod, with a status that named the
\* current template, every pod runs that template, whatever pods failed, were
\* evicted, or came back meanwhile.
THEOREM RolledOutCorrect == Spec => []RolledOut
<1>1. PodsInv => RolledOut
  BY DEF PodsInv, RolledOut, ViewInv, LoopInv, RolledOutFrom, TypeOK, Ordinals
<1> QED
  BY <1>1, PodsInvariant, PTL

\* Claims are deleted only for an ordinal the StatefulSet gave up.
THEOREM ClaimsCorrect == Spec => ClaimsOfWantedPodsKept
<1> DEFINE Kept ==
      \A i \in Ordinals, c \in Claims :
        /\ claims[i][c] \in {"bound", "reused", "retired"}
        /\ claims'[i][c] \in {"deleting", "none"}
        => i >= sts.replicas /\ claims[i][c] = "retired"
<1>1. ASSUME PodsInv, [Next]_vars PROVE [Kept]_vars
  <2>1. TypeOK /\ ClaimsInv
    BY <1>1 DEF PodsInv
  <2>2. CASE DeleteClaim
    <3>1. pc = "claims" /\ claims' \in [Ordinals -> [Claims -> ClaimStates]]
          /\ \A i \in Ordinals : i # ord => claims'[i] = claims[i]
      BY <2>1, <2>2, ReconcileTypes, <1>1 DEF DeleteClaim, TypeOK, PodsInv, Reconcile
    <3>2. sts.replicas = ord /\ \A c \in Claims : claims[ord][c] \notin {"bound", "reused"}
      BY <2>1, <3>1 DEF ClaimsInv
    <3> QED
      BY <2>1, <3>1, <3>2 DEF TypeOK, Ordinals
  <2>3. CASE \E i \in Ordinals : PodGone(i)
    BY <2>1, <2>3 DEF PodGone, TypeOK
  <2>4. CASE \E v \in Verdicts : ScaleDown(v)
    <3>1. UNCHANGED claims \/ Retire(view.ready - 1)
      BY <2>4 DEF ScaleDown
    <3>2. \A i \in Ordinals, c \in Claims :
            claims'[i][c] \in {claims[i][c], "retired"}
      BY <2>1, <3>1 DEF Retire, TypeOK
    <3> QED
      BY <3>2
  <2>5. CASE SyncStatefulSet
    BY <2>1, <2>5 DEF SyncStatefulSet, Bind, TypeOK, ClaimStates
  <2>6. CASE UNCHANGED claims
    BY <2>1, <2>6 DEF TypeOK
  <2>7. DeleteClaim \/ (\E i \in Ordinals : PodGone(i)) \/ (\E v \in Verdicts : ScaleDown(v))
        \/ SyncStatefulSet \/ UNCHANGED claims
    BY <1>1
    DEF Next, Reconcile, Kubernetes, Failure, vars, kubeVars, StartReconcile,
        CreateStatefulSet, UpdateTemplate, KeepTemplate, WaitForReplicas, ScaleUp,
        NoScaling, RecyclePod, FinishPod, ClaimsDeleted, ClaimNotFound, ManagerStops,
        WaitForPod, Build, DropCreateError, DropListError, DropPruneError,
        RemoveUnwantedSecrets, ReadyStepFails, RewriteSecret, ApiError, PruneError,
        PublishError, Crash, EditResource,
        EditNamespaceSecret, PodStarted, PodStopped, PodFails, PodEvicted
  <2> QED
    BY <2>2, <2>3, <2>4, <2>5, <2>6, <2>7
<1> QED
  BY <1>1, PodsInvariant, PTL DEF Spec, ClaimsOfWantedPodsKept

\* As long as no error of the secret functions is dropped, no step takes the template
\* of the StatefulSet back to an older secret version.
THEOREM SecretNeverOlderCorrect ==
  ASSUME ~ DropsErrors
  PROVE  Spec => SecretNeverOlder
<1> DEFINE Older == sts.exists => sts'.template.secret >= sts.template.secret
<1>1. ASSUME PodsInv, [Next]_vars PROVE [Older]_vars
  <2>1. TypeOK /\ OrderInv /\ VersionInv /\ ViewInv
    BY <1>1 DEF PodsInv
  <2>2. CASE UpdateTemplate
    <3>1. sts'.template = req.template /\ pc = "apply"
      BY <2>1, <2>2 DEF UpdateTemplate, TypeOK, StatefulSets
    <3>2. req.template.secret = latest /\ (sts.exists => sts.template.secret <= latest)
      BY <2>1, <3>1 DEF OrderInv
    <3>3. latest \in Nat /\ (sts.exists => sts.template.secret \in Nat)
      BY <2>1 DEF OrderInv, Templates, TypeOK
    <3> QED
      BY <3>1, <3>2, <3>3
  <2>3. CASE sts.exists => sts'.template = sts.template
    <3>1. sts.exists => sts.template.secret \in Nat
      BY <2>1 DEF OrderInv, Templates
    <3> QED
      BY <2>3, <3>1
  <2>4. UpdateTemplate \/ (sts.exists => sts'.template = sts.template)
    BY <1>1, <2>1
    DEF Next, Reconcile, Kubernetes, Failure, vars, kubeVars, StartReconcile,
        CreateStatefulSet, KeepTemplate, WaitForReplicas, ScaleUp, ScaleDown, Retire,
        NoScaling, RecyclePod, FinishPod, DeleteClaim, ClaimsDeleted, ClaimNotFound,
        ManagerStops, WaitForPod, Build, DropCreateError, DropListError, DropPruneError,
        RemoveUnwantedSecrets, ReadyStepFails, RewriteSecret, ApiError, PruneError,
        PublishError, Crash, EditResource, SetPod,
        EditNamespaceSecret, SyncStatefulSet, PodStarted, PodStopped, PodGone, PodFails,
        PodEvicted, TypeOK, StatefulSets
  <2> QED
    BY <2>2, <2>3, <2>4
<1> QED
  BY <1>1, PodsInvariant, PTL DEF Spec, SecretNeverOlder

-----------------------------------------------------------------------------
(***************************************************************************)
(* A rollout                                                               *)
(*                                                                         *)
(* When one change is rolled out at a time, because the user waits for the *)
(* last one and nothing fails, pods are recycled and scaled away one by    *)
(* one, over any number of replicas, claims, versions and changes.         *)
(***************************************************************************)

\* The template the resource asks for, unless a new version is still to be created.
Wants == [image |-> cr.image, secret |-> latest]

\* Every pod the StatefulSet wants is there and runs revision rev, and there is no other.
AllRun(rev) ==
  \A i \in Ordinals :
    pods[i] = IF i < sts.replicas THEN [state |-> "ready", deleting |-> FALSE, rev |-> rev]
                                  ELSE NoPod

\* The StatefulSet controller has nothing to do.
Settled == sts.exists /\ sts.updateRev = sts.template /\ AllRun(sts.template)

\* What the reconcile under way works for: what the resource asks for, or, when the resource
\* has changed since, what is there already.
Current == ~ nsChanged /\ req.template = Wants /\ req.replicas = Wanted
Idling  == Settled /\ req.template = sts.template /\ req.replicas = sts.replicas

\* A change begins when everything is settled, and until then it changes nothing.
ChangeInv ==
  /\ ~ sts.exists => sts.replicas = 0 /\ \A i \in Ordinals : pods[i] = NoPod
  /\ sts.exists /\ ~ Settled => ~ nsChanged /\ sts.template = Wants
  /\ nsChanged => \/ latest = 0 /\ ~ sts.exists
                  \/ Settled /\ sts.template.secret = latest
  /\ pc # "idle" => Current \/ Idling

\* The status of a StatefulSet whose template has changed is from before: it says that all
\* pods are ready only when they are those of the old template.
StatusInv ==
  /\ sts.exists /\ sts.updateRev \notin {NoRevision, sts.template} /\ sts.ready = sts.replicas
     => AllRun(sts.updateRev)
  /\ sts.exists /\ (\E i \in Ordinals : pods[i].rev = sts.template)
     => sts.updateRev = sts.template
  /\ \A i \in Ordinals : pods[i].state = "absent" <=> pods[i].rev = NoRevision
  /\ \A i \in Ordinals : pods[i].state = "absent" => pods[i] = NoPod
  /\ pc \in {"scale", "check"} /\ view.ready = view.replicas
     => IF view.updateRev \in {NoRevision, sts.template}
        THEN view.updateRev = sts.template => sts.updateRev = sts.template
        ELSE AllRun(view.updateRev)
  /\ pc = "check" => ord < sts.replicas

\* A pod is recycled for the current template, after those above it run it.
RecycleInv ==
  /\ \A i \in Ordinals :
       recycling[i] # NoRevision
       => /\ sts.exists /\ i < sts.replicas /\ sts.replicas = Wanted
          /\ pods[i].state = "ready" => pods[i].rev # sts.template
          /\ RolledOutFrom(i + 1)
  /\ pc = "check" /\ view.updateRev = sts.template
     => \A i \in Ordinals : i > ord => recycling[i] = NoRevision
  /\ OnePodAtATime

\* While there are too many replicas no other pod goes, and the StatefulSet controller
\* counts those that are left.
DepartInv ==
  /\ \A i \in Ordinals :
       i >= sts.replicas /\ pods[i].state # "absent"
       => sts.replicas >= Wanted /\ (pods[i].state = "ready" \/ pods[i].deleting)
  /\ sts.replicas > Wanted
     => /\ \A i \in Ordinals :
             i < sts.replicas => pods[i].state = "ready" /\ ~ pods[i].deleting
        /\ sts.ready <= sts.replicas
           => \A i \in Ordinals : i >= sts.replicas => pods[i].state # "ready"
  /\ \A i, j \in Ordinals :
       /\ i >= sts.replicas /\ pods[i].state = "ready"
       /\ j >= sts.replicas /\ pods[j].state = "ready"
       => i = j

\* The claims of the pods that are wanted are bound or still to be created; those of others
\* are gone, or will be when the pod or the operator is done with them.
CleanInv ==
  \A i \in Ordinals, c \in Claims :
    IF i < sts.replicas
    THEN claims[i][c] = "bound" \/ (claims[i][c] = "none" /\ pods[i].state = "absent")
    ELSE IF pc = "claims" /\ ord = i /\ c \in todo
    THEN claims[i][c] = "retired"
    ELSE claims[i][c] = "none" \/ (claims[i][c] = "deleting" /\ pods[i].state # "absent")

\* At most two versions are in use: the latest, and the one before it.
InUse(s) == s \in secrets /\ s + 1 >= latest

MountInv ==
  /\ sts.exists => InUse(sts.template.secret)
  /\ \A i \in Ordinals : pods[i].state # "absent" /\ i < sts.replicas => InUse(pods[i].rev.secret)

RoundInv == PodsInv /\ ChangeInv /\ StatusInv

-----------------------------------------------------------------------------
(***************************************************************************)
(* What a round may do, and when                                           *)
(***************************************************************************)

LEMMA NothingFails ==
  ASSUME TypeOK, MaxFaults = 0
  PROVE  ~ Failure
<1>1. ~ Fault
  BY DEF TypeOK, Fault
<1> QED
  BY <1>1 DEF Failure, ApiError, PruneError, PublishError, Crash, DropCreateError,
              DropListError, DropPruneError, PodFails, PodEvicted

\* The next change finds nothing left to do.
LEMMA ConvergedSettled ==
  ASSUME RoundInv, Converged
  PROVE  Settled /\ sts.template = Wants /\ sts.replicas = Wanted /\ ~ nsChanged
<1>1. 0 \in Ordinals /\ 0 < Wanted
  BY Defaults, ReplicasAssumption DEF Wanted, RoundInv, PodsInv, TypeOK
<1>2. \A i \in Ordinals :
        pods[i] = IF i < sts.replicas
                  THEN [state |-> "ready", deleting |-> FALSE, rev |-> sts.template]
                  ELSE NoPod
  BY DEF Converged
<1>3. pods[0].rev = sts.template
  BY <1>1, <1>2 DEF Converged
<1>4. sts.updateRev = sts.template
  BY <1>1, <1>3 DEF Converged, RoundInv, StatusInv
<1> QED
  BY <1>2, <1>4 DEF Converged, Settled, AllRun, Wants

\* A template is only ever updated when the last one is rolled out.
LEMMA UpdatesSettled ==
  ASSUME RoundInv, pc = "apply", sts.exists, sts.template # req.template
  PROVE  Settled /\ Current
BY DEF RoundInv, ChangeInv, Current, Idling

\* Replicas are only ever changed towards what the resource asks for.
LEMMA ScalesCurrent ==
  ASSUME RoundInv, pc = "scale", view.ready # req.replicas, view.ready = view.replicas
  PROVE  Current /\ sts.template = Wants
BY DEF RoundInv, PodsInv, ViewInv, ChangeInv, Current, Idling

\* A pod is only ever recycled for the template the StatefulSet has.
LEMMA RecyclesCurrent ==
  ASSUME RoundInv, pc = "check", pods[ord].state = "ready", Outdated(ord)
  PROVE  /\ view.updateRev = sts.template /\ sts.updateRev = sts.template
         /\ pods[ord].rev # sts.template
         /\ Current /\ ~ Settled /\ sts.replicas = Wanted
<1>1. view.ready = view.replicas /\ view.replicas = req.replicas /\ sts.replicas = view.replicas
  BY DEF RoundInv, PodsInv, ViewInv
<1>2. ord \in Ordinals /\ ord < sts.replicas
  BY DEF RoundInv, PodsInv, TypeOK, StatusInv
<1>3. ~ AllRun(view.updateRev)
  BY <1>2 DEF Outdated, AllRun
<1>4. view.updateRev = sts.template /\ sts.updateRev = sts.template
  BY <1>1, <1>3 DEF RoundInv, StatusInv, Outdated
<1>5. pods[ord].rev # sts.template /\ ~ Settled
  BY <1>2, <1>4 DEF Outdated, Settled, AllRun
<1> QED
  BY <1>1, <1>4, <1>5 DEF RoundInv, ChangeInv, Current, Idling

\* The steps of a reconcile that go on, or write the StatefulSet or a pod.
Stops ==
  pc' = "idle" /\ UNCHANGED <<cr, nsChanged, latest, kubeVars>>

ScaledUp ==
  /\ pc = "scale" /\ sts = view /\ view.ready = view.replicas /\ view.ready < req.replicas
  /\ sts' = [sts EXCEPT !.replicas = req.replicas]
  /\ pc' = "idle"
  /\ UNCHANGED <<cr, nsChanged, secrets, latest, pods, claims, recycling>>

ScaledDown ==
  /\ pc = "scale" /\ sts = view /\ view.ready = view.replicas /\ view.ready > req.replicas
  /\ Retire(view.ready - 1)
  /\ pc' = "claims" /\ ord' = view.ready - 1 /\ todo' = Claims
  /\ UNCHANGED <<cr, nsChanged, secrets, latest, pods, req, view>>

PodPassed ==
  /\ pc = "check" /\ pods[ord].state = "ready" /\ ~ Outdated(ord)
  /\ \/ pc' = "prune"
     \/ pc' = "check" /\ ord # 0 /\ ord' = ord - 1
  /\ UNCHANGED <<cr, nsChanged, secrets, latest, kubeVars, req, view>>

Recycled ==
  /\ pc = "check" /\ pods[ord].state = "ready" /\ Outdated(ord)
  /\ pods' = [pods EXCEPT ![ord].deleting = TRUE]
  /\ recycling' = [recycling EXCEPT ![ord] = view.updateRev]
  /\ pc' = "idle"
  /\ UNCHANGED <<cr, nsChanged, secrets, latest, sts, claims>>

Waits ==
  /\ Stops
  /\ secrets' = secrets \/ (pc = "prune" /\ secrets' = secrets \ UnwantedSecrets)
  /\ pc = "claims" => todo = {} \/ \E c \in todo : claims[ord][c] = "none"

Steps ==
  \/ Waits \/ StartReconcile \/ CreateStatefulSet \/ UpdateTemplate \/ KeepTemplate
  \/ RewriteSecret \/ ScaledUp \/ ScaledDown \/ NoScaling \/ DeleteClaim \/ PodPassed \/ Recycled
  \/ SyncStatefulSet \/ \E i \in Ordinals : PodStarted(i) \/ PodStopped(i) \/ PodGone(i)
  \/ EditResource \/ EditNamespaceSecret

LEMMA EveryStep ==
  ASSUME TypeOK, MaxFaults = 0, Next
  PROVE  Steps
<1> USE DEF crVars, secretVars, kubeVars
<1>1. CASE ManagerStops \/ WaitForReplicas \/ ClaimNotFound \/ ClaimsDeleted \/ WaitForPod
           \/ RemoveUnwantedSecrets \/ ReadyStepFails
  BY <1>1 DEF ManagerStops, WaitForReplicas, ClaimNotFound, ClaimsDeleted, WaitForPod,
     RemoveUnwantedSecrets, ReadyStepFails, Finish, End, Stops, Waits, Steps
<1>2. CASE ScaleUp
  BY <1>2 DEF ScaleUp, Finish, End, ScaledUp, Stops, Waits, Steps
<1>3. ASSUME NEW v \in Verdicts, ScaleDown(v)
      PROVE  Steps
  BY <1>3 DEF ScaleDown, Finish, End, GoTo, ScaledDown, Stops, Waits, Steps
<1>4. ASSUME NEW v \in Verdicts, RecyclePod(v)
      PROVE  Steps
  BY <1>4 DEF RecyclePod, Finish, End, Recycled, Stops, Waits, Steps
<1>5. ASSUME NEW v \in Verdicts, FinishPod(v)
      PROVE  Steps
  BY <1>5 DEF FinishPod, Finish, End, GoTo, PodPassed, Stops, Waits, Steps
<1> QED
  BY <1>1, <1>2, <1>3, <1>4, <1>5, NothingFails DEF Next, Reconcile, Kubernetes, Steps

-----------------------------------------------------------------------------
(***************************************************************************)
(* Rounds                                                                  *)
(***************************************************************************)

LEMMA InitRound == Init => RoundInv
<1> SUFFICES ASSUME Init PROVE RoundInv
  OBVIOUS
<1>1. PodsInv
  BY InitTypeOK, IdleWalk DEF Init, PodsInv, WalkInv, OrderInv, NoStatefulSet
<1>2. ChangeInv /\ StatusInv
  BY DEF Init, ChangeInv, StatusInv, NoStatefulSet, NoPod
<1> QED
  BY <1>1, <1>2 DEF RoundInv

\* A step that leaves the StatefulSet and its pods alone, and ends the reconcile or lets it
\* be, changes nothing in a round.
LEMMA SameRound ==
  ASSUME ChangeInv, StatusInv, UNCHANGED <<cr, nsChanged, latest, sts, pods>>,
         \/ pc' = "idle"
         \/ UNCHANGED <<req, view, ord>> /\ pc' \in {pc, "prune", "claims"} /\ pc # "idle"
         \/ UNCHANGED <<req, view, ord, pc>>
  PROVE  ChangeInv' /\ StatusInv'
BY DEF ChangeInv, StatusInv, Settled, AllRun, Current, Idling, Wants, Wanted

LEMMA StartRound ==
  ASSUME RoundInv, StartReconcile
  PROVE  ChangeInv' /\ StatusInv'
<1> USE DEF crVars, secretVars, kubeVars
<1>1. /\ UNCHANGED <<cr, sts, pods>> /\ pc' = "apply" /\ ~ nsChanged'
      /\ req' = [replicas |-> Wanted, template |-> [image |-> cr.image, secret |-> latest']]
      /\ latest' = IF nsChanged THEN latest + 1 ELSE latest
      /\ nsChanged \in BOOLEAN
  BY DEF StartReconcile, Build, ApplyVersionedSecret, RoundInv, PodsInv, TypeOK
<1>2. Current'
  BY <1>1 DEF Current, Wants, Wanted
<1>3. Settled' <=> Settled
  BY <1>1 DEF Settled, AllRun
<1>4. sts'.exists /\ ~ Settled' => sts'.template = Wants'
  BY <1>1, <1>3 DEF RoundInv, ChangeInv, Wants
<1>5. ChangeInv'
  BY <1>1, <1>2, <1>3, <1>4 DEF RoundInv, ChangeInv
<1>6. StatusInv'
  BY <1>1 DEF RoundInv, StatusInv, AllRun
<1> QED
  BY <1>5, <1>6

LEMMA CreateRound ==
  ASSUME RoundInv, CreateStatefulSet
  PROVE  ChangeInv' /\ StatusInv'
<1> USE DEF crVars, secretVars, kubeVars
<1>1. /\ ~ sts.exists /\ pc = "apply" /\ pc' = "idle"
      /\ UNCHANGED <<cr, nsChanged, latest, pods>>
      /\ sts'.exists /\ sts'.template = req.template /\ sts'.updateRev = NoRevision
  BY DEF CreateStatefulSet, Finish, End, NoStatefulSet
<1>2. Current /\ \A i \in Ordinals : pods[i] = NoPod
  BY <1>1 DEF RoundInv, ChangeInv, Idling, Settled
<1>3. req.template # NoRevision
  BY <1>1, RevisionAssumption DEF RoundInv, PodsInv, ViewInv
<1>4. ChangeInv'
  BY <1>1, <1>2 DEF ChangeInv, Current, Wants
<1>5. \A i \in Ordinals : pods'[i] = NoPod /\ pods'[i].rev # req.template
  <2>1. NoPod.rev = NoRevision
    BY DEF NoPod
  <2> QED
    BY <1>1, <1>2, <1>3, <2>1
<1>6. NoPod.state = "absent" /\ NoPod.rev = NoRevision
  BY DEF NoPod
<1>7. StatusInv'
  BY <1>1, <1>5, <1>6 DEF StatusInv
<1> QED
  BY <1>4, <1>7

\* UpdateTemplate: what runs now is the old template, in every pod.
LEMMA UpdateRound ==
  ASSUME RoundInv, UpdateTemplate
  PROVE  ChangeInv' /\ StatusInv'
<1> USE DEF crVars, secretVars, kubeVars
<1>1. Settled /\ Current /\ sts.template # req.template
  BY UpdatesSettled DEF UpdateTemplate
<1>2. /\ UNCHANGED <<cr, nsChanged, latest, pods>> /\ sts.exists
      /\ sts'.exists /\ sts'.template = req.template /\ sts'.updateRev = sts.updateRev
      /\ sts'.replicas = sts.replicas /\ sts'.ready = sts.ready
      /\ pc' = "idle" \/ (pc' = "scale" /\ view' = sts' /\ req' = req)
  BY DEF UpdateTemplate, Finish, End, GoTo, RoundInv, PodsInv, TypeOK, StatefulSets
<1>3. AllRun(sts.updateRev) /\ AllRun(sts.template)
  BY <1>1 DEF Settled
<1>4. AllRun(sts.updateRev)'
  BY <1>2, <1>3 DEF AllRun
<1>5. req.template # NoRevision
  BY RevisionAssumption DEF RoundInv, PodsInv, ViewInv, UpdateTemplate
<1>6. \A i \in Ordinals : pods[i].rev # req.template
  BY <1>1, <1>3, <1>5 DEF AllRun, NoPod
<1>7. (Current' \/ pc' = "idle") /\ sts'.template = Wants'
  BY <1>1, <1>2 DEF Current, Wants, Wanted
<1>8. ChangeInv'
  BY <1>1, <1>2, <1>7 DEF ChangeInv, Current
<1>9. StatusInv'
  <2>1. \A i \in Ordinals : /\ pods'[i].state = "absent" <=> pods'[i].rev = NoRevision
                            /\ pods'[i].state = "absent" => pods'[i] = NoPod
    BY <1>2 DEF RoundInv, StatusInv
  <2> QED
    BY <1>1, <1>2, <1>4, <1>6, <2>1 DEF StatusInv, Settled
<1> QED
  BY <1>8, <1>9

LEMMA KeepRound ==
  ASSUME RoundInv, KeepTemplate
  PROVE  ChangeInv' /\ StatusInv'
<1> USE DEF crVars, secretVars, kubeVars
<1>1. /\ UNCHANGED <<cr, nsChanged, latest, sts, pods, req>> /\ sts.exists
      /\ pc' = "scale" /\ view' = sts /\ pc = "apply"
  BY DEF KeepTemplate, GoTo
<1>2. ChangeInv'
  BY <1>1 DEF RoundInv, ChangeInv, Settled, AllRun, Current, Idling, Wants, Wanted
<1>3. StatusInv'
  BY <1>1 DEF RoundInv, StatusInv, AllRun
<1> QED
  BY <1>2, <1>3

\* Rewriting a secret settles that it differs from the latest version, and nothing else.
LEMMA RewriteRound ==
  ASSUME RoundInv, RewriteSecret
  PROVE  ChangeInv' /\ StatusInv'
<1>1. /\ UNCHANGED <<cr, latest, sts, pods, pc, req, view, ord>>
      /\ nsChanged' \in {nsChanged, FALSE}
  BY DEF RewriteSecret, opVars, secretVars, kubeVars
<1>2. ChangeInv'
  <2>1. CASE nsChanged' = nsChanged
    BY <1>1, <2>1 DEF RoundInv, ChangeInv, Settled, AllRun, Current, Idling, Wants, Wanted
  <2>2. CASE nsChanged' = FALSE
    BY <1>1, <2>2 DEF RoundInv, ChangeInv, Settled, AllRun, Current, Idling, Wants, Wanted
  <2> QED
    BY <1>1, <2>1, <2>2
<1>3. StatusInv'
  BY <1>1 DEF RoundInv, StatusInv, AllRun
<1> QED
  BY <1>2, <1>3

LEMMA ScaleRound ==
  ASSUME RoundInv, ScaledUp \/ ScaledDown
  PROVE  ChangeInv' /\ StatusInv'
<1> DEFINE n == IF ScaledUp THEN req.replicas ELSE view.ready - 1
<1>1. /\ sts = view /\ pc = "scale" /\ sts.ready = sts.replicas /\ sts.ready # req.replicas
      /\ UNCHANGED <<cr, nsChanged, latest, pods>>
      /\ sts' = [sts EXCEPT !.replicas = n]
      /\ pc' = "idle" \/ (pc' = "claims" /\ req' = req)
  BY DEF ScaledUp, ScaledDown, Retire, RoundInv, PodsInv, TypeOK, StatefulSets
<1>2. n # sts.ready
  BY DEF ScaledUp, ScaledDown, RoundInv, PodsInv, TypeOK, StatefulSets
<1> HIDE DEF n
<1>3. /\ sts'.exists = sts.exists /\ sts'.template = sts.template
      /\ sts'.updateRev = sts.updateRev /\ sts'.ready = sts.ready /\ sts'.replicas = n
  BY <1>1 DEF RoundInv, PodsInv, TypeOK, StatefulSets
<1>4. Current /\ sts.template = Wants
  BY <1>1, ScalesCurrent
<1>5. sts.exists
  BY <1>1 DEF RoundInv, PodsInv, ViewInv
<1>6. ChangeInv'
  BY <1>1, <1>3, <1>4, <1>5 DEF ChangeInv, Current, Wants, Wanted
<1>7. StatusInv'
  BY <1>1, <1>2, <1>3 DEF RoundInv, StatusInv
<1> QED
  BY <1>6, <1>7

LEMMA CheckRound ==
  ASSUME RoundInv, NoScaling \/ PodPassed
  PROVE  ChangeInv' /\ StatusInv'
<1> USE DEF crVars, secretVars, kubeVars
<1>1. /\ UNCHANGED <<cr, nsChanged, latest, sts, pods, req, view>>
      /\ pc \in {"scale", "check"} /\ pc' \in {"check", "prune"}
      /\ pc' = "check" => \/ ord' = view.ready - 1 /\ view.ready = view.replicas
                          \/ pc = "check" /\ ord' = ord - 1
  BY DEF NoScaling, PodPassed, GoTo
<1>2. pc' = "check" => ord' < sts.replicas
  BY <1>1 DEF RoundInv, StatusInv, PodsInv, ViewInv, TypeOK, StatefulSets, Ordinals
<1>3. ChangeInv'
  BY <1>1 DEF RoundInv, ChangeInv, Settled, AllRun, Current, Idling, Wants, Wanted
<1>4. StatusInv'
  BY <1>1, <1>2 DEF RoundInv, StatusInv, AllRun
<1> QED
  BY <1>3, <1>4

LEMMA RecycleRound ==
  ASSUME RoundInv, Recycled
  PROVE  ChangeInv' /\ StatusInv'
<1>1. Current /\ ~ Settled /\ sts.updateRev = sts.template
  BY RecyclesCurrent DEF Recycled
<1>2. /\ UNCHANGED <<cr, nsChanged, latest, sts>> /\ pc' = "idle"
      /\ \A i \in Ordinals : pods'[i].state = pods[i].state /\ pods'[i].rev = pods[i].rev
      /\ \A i \in Ordinals : pods[i].state = "absent" => pods'[i] = pods[i]
      /\ sts.exists
  BY DEF Recycled, RoundInv, PodsInv, TypeOK, Pods, ViewInv
<1>3. sts.template = Wants
  BY <1>1, <1>2 DEF RoundInv, ChangeInv
<1>4. ChangeInv'
  BY <1>1, <1>2, <1>3 DEF ChangeInv, Current, Wants, Wanted
<1>5. StatusInv'
  BY <1>1, <1>2 DEF RoundInv, StatusInv
<1> QED
  BY <1>4, <1>5

LEMMA SyncRound ==
  ASSUME RoundInv, SyncStatefulSet
  PROVE  ChangeInv' /\ StatusInv'
<1>1. /\ UNCHANGED <<cr, nsChanged, latest, pc, req, view, ord>>
      /\ sts.exists /\ sts'.exists /\ sts'.template = sts.template
      /\ sts'.updateRev = sts.template /\ sts'.replicas = sts.replicas
  BY DEF SyncStatefulSet, opVars, crVars, secretVars, RoundInv, PodsInv, TypeOK, StatefulSets
<1>2. \A i \in Ordinals :
        pods'[i] = IF i \in MissingPods
                   THEN [state |-> "unready", deleting |-> FALSE, rev |-> sts.template]
                   ELSE [pods[i] EXCEPT !.deleting = @ \/ i \in SurplusPods]
  BY DEF SyncStatefulSet
<1>3. ASSUME NEW rev, AllRun(rev)
      PROVE  \A i \in Ordinals : pods'[i] = pods[i]
  <2> SUFFICES ASSUME NEW i \in Ordinals PROVE pods'[i] = pods[i]
    OBVIOUS
  <2>2. i \notin MissingPods /\ i \notin SurplusPods
    BY <1>3, Defaults DEF AllRun, MissingPods, SurplusPods, NoPod, RoundInv, PodsInv, TypeOK,
                StatefulSets, Ordinals
  <2>3. pods[i] \in Pods
    BY DEF RoundInv, PodsInv, TypeOK
  <2> QED
    BY <1>2, <2>2, <2>3 DEF Pods
<1>4. ASSUME NEW rev, AllRun(rev)
      PROVE  \A i \in Ordinals :
               pods'[i] = IF i < sts'.replicas
                          THEN [state |-> "ready", deleting |-> FALSE, rev |-> rev] ELSE NoPod
  BY <1>1, <1>3, <1>4 DEF AllRun
<1>5. Settled => Settled'
  BY <1>1, <1>4 DEF Settled, AllRun
<1>6. ChangeInv'
  BY <1>1, <1>5 DEF RoundInv, ChangeInv, Current, Idling, Wants, Wanted
<1>7. sts.template # NoRevision
  BY <1>1, RevisionAssumption DEF RoundInv, PodsInv, OrderInv
<1>8. \A i \in Ordinals : /\ pods'[i].state = "absent" <=> pods'[i].rev = NoRevision
                          /\ pods'[i].state = "absent" => pods'[i] = NoPod
  <2> SUFFICES ASSUME NEW i \in Ordinals
               PROVE  /\ pods'[i].state = "absent" <=> pods'[i].rev = NoRevision
                      /\ pods'[i].state = "absent" => pods'[i] = NoPod
    OBVIOUS
  <2>2. pods[i] \in Pods
    BY DEF RoundInv, PodsInv, TypeOK
  <2>3. CASE i \in MissingPods
    <3>1. pods'[i] = [state |-> "unready", deleting |-> FALSE, rev |-> sts.template]
      BY <1>2, <2>3
    <3> QED
      BY <1>7, <3>1
  <2>4. CASE i \notin MissingPods
    <3>1. pods'[i].state = pods[i].state /\ pods'[i].rev = pods[i].rev
      BY <1>2, <2>2, <2>4 DEF Pods
    <3>2. pods[i].state = "absent" => i \notin SurplusPods
      BY DEF SurplusPods
    <3>3. pods[i].state = "absent" => pods'[i] = pods[i]
      BY <1>2, <2>2, <2>4, <3>2 DEF Pods
    <3> QED
      BY <3>1, <3>3 DEF RoundInv, StatusInv
  <2> QED
    BY <2>3, <2>4
<1>9. StatusInv'
  <2>1. AllRun(view.updateRev) => AllRun(view.updateRev)'
    BY <1>1, <1>4 DEF AllRun
  <2> QED
    BY <1>1, <1>8, <2>1 DEF RoundInv, StatusInv
<1> QED
  BY <1>6, <1>9

\* While the kubelet has something to do, the last change is not rolled out.
LEMMA KubeletRound ==
  ASSUME RoundInv, NEW i \in Ordinals, PodStarted(i) \/ PodStopped(i) \/ PodGone(i)
  PROVE  ChangeInv' /\ StatusInv'
<1>1. UNCHANGED <<cr, nsChanged, latest, sts, pc, req, view, ord>>
  BY DEF PodStarted, PodStopped, PodGone, SetPod, opVars, crVars, secretVars
<1>2. \A rev : ~ AllRun(rev)
  BY DEF PodStarted, PodStopped, PodGone, AllRun, NoPod
<1>3. ~ Settled /\ sts.exists
  BY <1>2 DEF Settled, PodStarted, PodStopped, PodGone, RoundInv, ChangeInv, NoPod
<1>4. /\ \A j \in Ordinals : j # i => pods'[j] = pods[j]
      /\ \/ pods'[i] = NoPod
         \/ pods'[i].rev = pods[i].rev /\ pods'[i].state # "absent" /\ pods[i].state # "absent"
  BY DEF PodStarted, PodStopped, PodGone, SetPod, RoundInv, PodsInv, TypeOK, Pods
<1>5. ChangeInv'
  BY <1>1, <1>3 DEF RoundInv, ChangeInv, Current, Idling, Wants, Wanted
<1>6. StatusInv'
  <2>1. \A j \in Ordinals : /\ pods'[j].state = "absent" <=> pods'[j].rev = NoRevision
                            /\ pods'[j].state = "absent" => pods'[j] = NoPod
                            /\ pods'[j].rev \in {pods[j].rev, NoRevision}
    <3>1. ASSUME NEW j \in Ordinals, j # i
          PROVE  pods'[j] = pods[j]
      BY <1>4, <3>1
    <3>2. \A j \in Ordinals : /\ pods[j].state = "absent" <=> pods[j].rev = NoRevision
                              /\ pods[j].state = "absent" => pods[j] = NoPod
      BY DEF RoundInv, StatusInv
    <3>3. NoPod.state = "absent" /\ NoPod.rev = NoRevision
      BY DEF NoPod
    <3> QED
      BY <1>4, <3>1, <3>2, <3>3
  <2>2. sts.template # NoRevision
    BY <1>3, RevisionAssumption DEF RoundInv, PodsInv, OrderInv
  <2> QED
    BY <1>1, <1>2, <2>1, <2>2 DEF RoundInv, StatusInv
<1> QED
  BY <1>5, <1>6

LEMMA EditRound ==
  ASSUME RoundInv, PatientUser, EditResource \/ EditNamespaceSecret
  PROVE  ChangeInv' /\ StatusInv'
<1>1. Converged
  BY DEF EditResource, EditNamespaceSecret, Edit
<1>2. Settled /\ sts.template = Wants /\ sts.replicas = Wanted /\ ~ nsChanged
  BY <1>1, ConvergedSettled
<1>3. UNCHANGED <<latest, sts, pods, pc, req, view, ord>>
  BY DEF EditResource, EditNamespaceSecret, opVars, kubeVars, secretVars
<1>4. pc # "idle" => Idling
  BY <1>2 DEF RoundInv, ChangeInv, Current, Idling
<1>5. Settled' /\ (pc' # "idle" => Idling')
  BY <1>2, <1>3, <1>4 DEF Settled, AllRun, Idling
<1>6. nsChanged' => sts'.template.secret = latest'
  BY <1>2, <1>3 DEF Wants
<1>7. ChangeInv'
  BY <1>5, <1>6 DEF ChangeInv, Settled
<1>8. StatusInv'
  BY <1>3 DEF RoundInv, StatusInv, AllRun
<1> QED
  BY <1>7, <1>8

LEMMA RoundStep ==
  ASSUME RoundInv, PatientUser, MaxFaults = 0, [Next]_vars
  PROVE  RoundInv'
<1>1. PodsInv'
  BY NextPodsInv DEF RoundInv
<1>2. CASE Waits
  BY <1>1, <1>2, SameRound DEF RoundInv, Waits, Stops, kubeVars
<1>3. CASE DeleteClaim \/ UNCHANGED vars
  BY <1>1, <1>3, SameRound DEF RoundInv, DeleteClaim, GoTo, vars, crVars, secretVars, kubeVars, opVars
<1>4. CASE Next
  <2>1. Steps
    BY <1>4, EveryStep DEF RoundInv, PodsInv
  <2>2. CASE \E i \in Ordinals : PodStarted(i) \/ PodStopped(i) \/ PodGone(i)
    BY <1>1, <2>2, KubeletRound DEF RoundInv
  <2>3. CASE StartReconcile \/ CreateStatefulSet \/ UpdateTemplate \/ KeepTemplate \/ RewriteSecret
    BY <1>1, <2>3, StartRound, CreateRound, UpdateRound, KeepRound, RewriteRound DEF RoundInv
  <2>4. CASE ScaledUp \/ ScaledDown \/ NoScaling \/ PodPassed \/ Recycled
    BY <1>1, <2>4, ScaleRound, CheckRound, RecycleRound DEF RoundInv
  <2>5. CASE SyncStatefulSet \/ EditResource \/ EditNamespaceSecret
    BY <1>1, <2>5, SyncRound, EditRound DEF RoundInv
  <2> QED
    BY <1>1, <1>2, <1>3, <2>1, <2>2, <2>3, <2>4, <2>5 DEF Steps, RoundInv
<1> QED
  BY <1>1, <1>3, <1>4 DEF RoundInv

-----------------------------------------------------------------------------
(***************************************************************************)
(* One pod at a time                                                       *)
(***************************************************************************)

LEMMA NoneRecycled ==
  ASSUME \A i \in Ordinals : recycling'[i] = NoRevision
  PROVE  RecycleInv'
BY DEF RecycleInv, OnePodAtATime

\* A pod that runs the template is not being recycled.
LEMMA SettledRecycled ==
  ASSUME RecycleInv, Settled
  PROVE  \A i \in Ordinals : recycling[i] = NoRevision
BY DEF RecycleInv, Settled, AllRun

\* Pods that come, go and stop do not set a pod that was recycled back.
LEMMA RecycleKept ==
  ASSUME RecycleInv, UNCHANGED <<cr, sts.exists, sts.replicas, sts.template>>,
         \A i \in Ordinals : recycling'[i] \in {recycling[i], NoRevision},
         \A i \in Ordinals :
           recycling'[i] # NoRevision /\ pods'[i].state = "ready"
           => pods[i].state = "ready" /\ pods'[i].rev = pods[i].rev,
         \A i \in Ordinals : pods'[i].rev \in {pods[i].rev, sts.template, NoRevision},
         pc' = "check" => pc = "check" /\ UNCHANGED <<view, ord>>
  PROVE  RecycleInv'
<1>1. \A i \in Ordinals : recycling'[i] # NoRevision => recycling[i] # NoRevision
  OBVIOUS
<1>2. \A i \in Ordinals : RolledOutFrom(i + 1) => RolledOutFrom(i + 1)'
  BY DEF RolledOutFrom
<1>3. OnePodAtATime'
  BY <1>1 DEF RecycleInv, OnePodAtATime
<1> QED
  BY <1>1, <1>2, <1>3 DEF RecycleInv, Wanted

LEMMA RecycledStep ==
  ASSUME RoundInv, RecycleInv, Recycled
  PROVE  RecycleInv'
<1>1. /\ view.updateRev = sts.template /\ pods[ord].rev # sts.template
      /\ sts.replicas = Wanted
  BY RecyclesCurrent DEF Recycled
<1>2. /\ ord \in Ordinals /\ ord < sts.replicas /\ sts.exists /\ Ordinals \subseteq Int
      /\ pods[ord].rev # NoRevision
  BY DEF Recycled, RoundInv, PodsInv, TypeOK, StatusInv, ViewInv, Ordinals
<1>3. /\ \A i \in Ordinals : recycling'[i] = IF i = ord THEN view.updateRev ELSE recycling[i]
      /\ \A i \in Ordinals : pods'[i].state = pods[i].state /\ pods'[i].rev = pods[i].rev
      /\ UNCHANGED <<sts, cr>> /\ pc' = "idle"
  BY DEF Recycled, RoundInv, PodsInv, TypeOK, Pods
<1>4. RolledOutFrom(ord + 1)
  BY <1>1 DEF Recycled, RoundInv, PodsInv, LoopInv, ViewInv
<1>5. \A i \in Ordinals : recycling[i] # NoRevision => i = ord
  <2> SUFFICES ASSUME NEW i \in Ordinals, recycling[i] # NoRevision, i # ord
               PROVE  FALSE
    OBVIOUS
  <2>1. CASE i > ord
    BY <1>1, <2>1 DEF RecycleInv, Recycled
  <2>2. CASE i < ord
    <3>1. RolledOutFrom(i + 1)
      BY DEF RecycleInv
    <3>2. pods[ord].rev \in {sts.template, NoRevision}
      BY <1>2, <2>2, <3>1 DEF RolledOutFrom
    <3> QED
      BY <1>1, <1>2, <3>2
  <2> QED
    BY <1>2, <2>1, <2>2
<1>6. OnePodAtATime'
  BY <1>3, <1>5 DEF OnePodAtATime
<1>7. \A i \in Ordinals : i = ord => (RolledOutFrom(i + 1))'
  BY <1>3, <1>4 DEF RolledOutFrom
<1> QED
  BY <1>1, <1>2, <1>3, <1>5, <1>6, <1>7 DEF RecycleInv, Wanted

LEMMA CheckRecycle ==
  ASSUME RoundInv, RecycleInv, NoScaling \/ PodPassed
  PROVE  RecycleInv'
<1> USE DEF crVars, secretVars, kubeVars
<1>1. UNCHANGED <<cr, sts, pods, recycling, view>>
  BY DEF NoScaling, PodPassed
<1>2. CASE NoScaling
  <2>1. ord' = sts.replicas - 1
    BY <1>2 DEF NoScaling, RoundInv, PodsInv, ViewInv
  <2>2. \A i \in Ordinals : i > ord' => recycling[i] = NoRevision
    BY <2>1 DEF RecycleInv, RoundInv, PodsInv, TypeOK, StatefulSets, Ordinals
  <2> QED
    BY <1>1, <2>2 DEF RecycleInv, RolledOutFrom, OnePodAtATime, Wanted
<1>3. CASE PodPassed
  <2>1. CASE pc' = "prune"
    BY <1>1, <2>1, RecycleKept
  <2>2. CASE pc' = "check"
    <3>1. pc = "check" /\ ord' = ord - 1 /\ pods[ord].state = "ready" /\ ~ Outdated(ord)
      BY <1>3, <2>2 DEF PodPassed
    <3>2. view.updateRev = sts.template => pods[ord].rev = sts.template
      <4>1. sts.template # NoRevision
        BY <3>1, RevisionAssumption DEF RoundInv, PodsInv, ViewInv, OrderInv
      <4> QED
        BY <3>1, <4>1 DEF Outdated
    <3>3. view.updateRev = sts.template => recycling[ord] = NoRevision
      BY <3>1, <3>2 DEF RecycleInv, RoundInv, PodsInv, TypeOK
    <3>4. \A i \in Ordinals : i > ord - 1 => i = ord \/ i > ord
      BY DEF RoundInv, PodsInv, TypeOK, Ordinals
    <3>5. view.updateRev = sts.template => \A i \in Ordinals : i > ord' => recycling[i] = NoRevision
      BY <3>1, <3>3, <3>4 DEF RecycleInv
    <3> QED
      BY <1>1, <3>5 DEF RecycleInv, RolledOutFrom, OnePodAtATime, Wanted
  <2> QED
    BY <1>3, <2>1, <2>2 DEF PodPassed
<1> QED
  BY <1>2, <1>3

LEMMA RecycleStep ==
  ASSUME RoundInv, RecycleInv, PatientUser, Steps
  PROVE  RecycleInv'
<1> USE DEF crVars, secretVars, kubeVars
<1>1. CASE Waits \/ StartReconcile \/ KeepTemplate \/ RewriteSecret \/ DeleteClaim
  <2>1. UNCHANGED <<cr, sts, pods, recycling>>
        /\ (pc' = "check" => pc = "check" /\ UNCHANGED <<view, ord>>)
    BY <1>1 DEF Waits, Stops, StartReconcile, Build, KeepTemplate, RewriteSecret, DeleteClaim,
                GoTo, opVars
  <2> QED
    BY <2>1, RecycleKept
<1>2. CASE CreateStatefulSet
  <2>1. \A i \in Ordinals : recycling[i] = NoRevision
    BY <1>2 DEF CreateStatefulSet, RecycleInv
  <2> QED
    BY <1>2, <2>1, NoneRecycled DEF CreateStatefulSet
<1>3. CASE UpdateTemplate
  <2>1. \A i \in Ordinals : recycling[i] = NoRevision
    BY <1>3, UpdatesSettled, SettledRecycled DEF UpdateTemplate
  <2> QED
    BY <1>3, <2>1, NoneRecycled DEF UpdateTemplate
<1>4. CASE ScaledUp \/ ScaledDown
  <2>1. /\ Current /\ sts.replicas # Wanted
    BY <1>4, ScalesCurrent DEF ScaledUp, ScaledDown, Current, RoundInv, PodsInv, TypeOK, StatefulSets
  <2>2. \A i \in Ordinals : recycling[i] = NoRevision
    BY <2>1 DEF RecycleInv
  <2>3. \A i \in Ordinals : recycling'[i] \in {recycling[i], NoRevision}
    BY <1>4 DEF ScaledUp, ScaledDown, Retire, RoundInv, PodsInv, TypeOK
  <2> QED
    BY <2>2, <2>3, NoneRecycled
<1>5. CASE NoScaling \/ PodPassed
  BY <1>5, CheckRecycle
<1>6. CASE Recycled
  BY <1>6, RecycledStep
<1>7. CASE SyncStatefulSet
  <2>1. /\ UNCHANGED <<cr, recycling, pc, view, ord>>
        /\ UNCHANGED <<sts.exists, sts.replicas, sts.template>>
    BY <1>7 DEF SyncStatefulSet, opVars, RoundInv, PodsInv, TypeOK, StatefulSets
  <2>2. \A i \in Ordinals :
          \/ pods'[i].state = "unready" /\ pods'[i].rev = sts.template
          \/ pods'[i].state = pods[i].state /\ pods'[i].rev = pods[i].rev
    BY <1>7 DEF SyncStatefulSet, RoundInv, PodsInv, TypeOK, Pods
  <2> QED
    BY <2>1, <2>2, RecycleKept
<1>8. ASSUME NEW i \in Ordinals, PodStarted(i) \/ PodStopped(i) \/ PodGone(i)
      PROVE  RecycleInv'
  <2>1. UNCHANGED <<cr, sts, pc, view, ord>>
    BY <1>8 DEF PodStarted, PodStopped, PodGone, SetPod, opVars
  <2>2. \A j \in Ordinals : j # i => pods'[j] = pods[j] /\ recycling'[j] = recycling[j]
    BY <1>8 DEF PodStarted, PodStopped, PodGone, SetPod, RoundInv, PodsInv, TypeOK
  <2>3. /\ pods'[i].rev \in {pods[i].rev, NoRevision}
        /\ \/ recycling'[i] = NoRevision
           \/ recycling'[i] = recycling[i] /\ pods'[i].state # "ready"
    BY <1>8 DEF PodStarted, PodStopped, PodGone, SetPod, NoPod, RoundInv, PodsInv, TypeOK, Pods
  <2> QED
    BY <2>1, <2>2, <2>3, RecycleKept
<1>9. CASE EditResource \/ EditNamespaceSecret
  <2>1. Converged /\ recycling' = recycling
    BY <1>9 DEF EditResource, EditNamespaceSecret, Edit
  <2>2. \A i \in Ordinals : recycling[i] = NoRevision
    BY <2>1, ConvergedSettled, SettledRecycled
  <2> QED
    BY <2>1, <2>2, NoneRecycled
<1> QED
  BY <1>1, <1>2, <1>3, <1>4, <1>5, <1>6, <1>7, <1>8, <1>9 DEF Steps

-----------------------------------------------------------------------------
(***************************************************************************)
(* One departure at a time                                                 *)
(***************************************************************************)

LEMMA SameDepart ==
  ASSUME DepartInv, UNCHANGED <<cr, pods, sts.replicas, sts.ready>>
  PROVE  DepartInv'
BY DEF DepartInv, Wanted

\* When everything is settled there is nothing beyond replicas.
LEMMA SettledDepart == TypeOK /\ Settled => DepartInv
<1> SUFFICES ASSUME TypeOK, Settled PROVE DepartInv
  OBVIOUS
<1>0. sts.replicas \in Int /\ Ordinals \subseteq Int
  BY DEF TypeOK, StatefulSets, Ordinals
<1>1. \A i \in Ordinals :
        pods[i] = IF i < sts.replicas
                  THEN [state |-> "ready", deleting |-> FALSE, rev |-> sts.template]
                  ELSE NoPod
  BY DEF Settled, AllRun
<1>2. NoPod.state = "absent"
  BY DEF NoPod
<1>3. ASSUME NEW i \in Ordinals
      PROVE  IF i < sts.replicas THEN pods[i].state = "ready" /\ ~ pods[i].deleting
                                 ELSE pods[i].state = "absent"
  BY <1>1, <1>2, <1>3
<1>4. \A i \in Ordinals : i >= sts.replicas => pods[i].state = "absent"
  BY <1>0, <1>3
<1>5. \A i \in Ordinals : i < sts.replicas => pods[i].state = "ready" /\ ~ pods[i].deleting
  BY <1>3
<1> QED
  BY <1>4, <1>5 DEF DepartInv

LEMMA ScaleDepart ==
  ASSUME RoundInv, DepartInv, ScaledUp \/ ScaledDown
  PROVE  DepartInv'
<1>1. /\ UNCHANGED <<cr, pods>> /\ sts'.ready = sts.ready /\ sts.ready = sts.replicas
      /\ sts.replicas \in Nat /\ Ordinals \subseteq Int /\ Wanted \in Int
  BY ReplicasAssumption
  DEF ScaledUp, ScaledDown, Retire, RoundInv, PodsInv, TypeOK, StatefulSets, Ordinals, Wanted
<1>2. Wanted' = Wanted
  BY <1>1 DEF Wanted
<1>3. req.replicas = Wanted
  BY ScalesCurrent DEF ScaledUp, ScaledDown, Current, RoundInv, PodsInv, TypeOK, StatefulSets
<1>4. CASE ScaledUp
  <2>1. sts'.replicas = Wanted /\ sts.replicas < Wanted
    BY <1>3, <1>4 DEF ScaledUp, RoundInv, PodsInv, TypeOK, StatefulSets
  <2>2. \A i \in Ordinals : i >= sts'.replicas => pods[i].state = "absent"
    BY <1>1, <2>1 DEF DepartInv
  <2> QED
    BY <1>1, <1>2, <2>1, <2>2 DEF DepartInv
<1>5. CASE ScaledDown
  <2>1. sts'.replicas = sts.replicas - 1 /\ sts.replicas > Wanted
    BY <1>1, <1>3, <1>5 DEF ScaledDown, Retire, RoundInv, PodsInv, TypeOK, StatefulSets
  <2>2. \A i \in Ordinals :
          /\ i < sts.replicas => pods[i].state = "ready" /\ ~ pods[i].deleting
          /\ i >= sts.replicas => pods[i].state # "ready"
    BY <1>1, <2>1 DEF DepartInv
  <2>3. \A i \in Ordinals : i >= sts.replicas - 1 => i = sts.replicas - 1 \/ i >= sts.replicas
    BY <1>1
  <2>4. \A i \in Ordinals :
          i >= sts'.replicas /\ pods[i].state # "absent"
          => pods[i].state = "ready" \/ pods[i].deleting
    BY <1>1, <2>1, <2>2, <2>3 DEF DepartInv
  <2>5. \A i \in Ordinals : i >= sts'.replicas /\ pods[i].state = "ready" => i = sts.replicas - 1
    BY <2>1, <2>2, <2>3
  <2> QED
    BY <1>1, <1>2, <2>1, <2>2, <2>4, <2>5 DEF DepartInv
<1> QED
  BY <1>4, <1>5

\* The StatefulSet controller counts, of too many replicas, those that stay.
LEMMA CountsThoseThatStay ==
  ASSUME TypeOK, \A i \in Ordinals : i < sts.replicas => pods[i].state = "ready",
         Cardinality(ReadyPods) <= sts.replicas
  PROVE  \A i \in Ordinals : i >= sts.replicas => pods[i].state # "ready"
<1> DEFINE Wanting == 0 .. sts.replicas - 1
<1>1. sts.replicas \in 0 .. MaxReplicas
  BY DEF TypeOK, StatefulSets
<1>2. Ordinals = 0 .. MaxReplicas - 1 /\ IsFiniteSet(Ordinals)
  BY FS_Interval, ReplicasAssumption DEF Ordinals
<1>3. ReadyPods \subseteq Ordinals
  BY DEF ReadyPods
<1>4. IsFiniteSet(ReadyPods)
  BY <1>2, <1>3, FS_Subset
<1>5. Wanting \subseteq ReadyPods
  BY <1>1, ReplicasAssumption DEF ReadyPods, Ordinals
<1>6. Cardinality(Wanting) = sts.replicas
  BY <1>1, FS_Interval
<1>7. Cardinality(Wanting) <= Cardinality(ReadyPods)
      /\ (Cardinality(Wanting) = Cardinality(ReadyPods) => Wanting = ReadyPods)
  BY <1>4, <1>5, FS_Subset
<1>8. Cardinality(ReadyPods) \in Nat
  BY <1>4, FS_CardinalityType
<1>9. ReadyPods = Wanting
  BY <1>1, <1>6, <1>7, <1>8
<1>10. \A i \in Ordinals : pods[i].state = "ready" => i \in Wanting
  BY <1>9 DEF ReadyPods
<1> QED
  BY <1>1, <1>10

LEMMA SyncDepart ==
  ASSUME TypeOK, DepartInv, SyncStatefulSet
  PROVE  DepartInv'
<1>1. /\ cr' = cr /\ sts'.replicas = sts.replicas /\ sts'.ready = Cardinality(ReadyPods)
      /\ sts.replicas \in Int /\ Ordinals \subseteq Int
  BY DEF SyncStatefulSet, crVars, TypeOK, StatefulSets, Ordinals
<1>2. ASSUME NEW i \in Ordinals
      PROVE  /\ i >= sts.replicas \/ pods[i].state # "absent"
                => pods'[i].state = pods[i].state
             /\ i >= sts.replicas \/ pods[i].state = "ready"
                => pods'[i].state = pods[i].state
                   /\ (pods'[i].deleting <=> pods[i].deleting \/ i \in SurplusPods)
             /\ pods'[i].state = "ready" => pods[i].state = "ready"
  <2>1. pods[i] \in Pods /\ pods'[i] = IF i \in MissingPods
                   THEN [state |-> "unready", deleting |-> FALSE, rev |-> sts.template]
                   ELSE [pods[i] EXCEPT !.deleting = @ \/ i \in SurplusPods]
    BY DEF SyncStatefulSet, TypeOK
  <2>2. CASE i \in MissingPods
    BY <1>1, <2>1, <2>2 DEF MissingPods
  <2>3. CASE i \notin MissingPods
    BY <2>1, <2>3 DEF Pods
  <2> QED
    BY <2>2, <2>3
<1>3. \A i \in Ordinals :
        i >= sts.replicas /\ pods'[i].state # "absent"
        => sts.replicas >= Wanted /\ (pods'[i].state = "ready" \/ pods'[i].deleting)
  BY <1>2 DEF DepartInv
<1>4. ASSUME sts.replicas > Wanted
      PROVE  /\ \A i \in Ordinals :
                  i < sts.replicas => pods'[i].state = "ready" /\ ~ pods'[i].deleting
             /\ Cardinality(ReadyPods) <= sts.replicas
                => \A i \in Ordinals : i >= sts.replicas => pods'[i].state # "ready"
  <2>1. \A i \in Ordinals : i < sts.replicas => pods[i].state = "ready" /\ ~ pods[i].deleting
    BY <1>4 DEF DepartInv
  <2>2. \A i \in Ordinals : i < sts.replicas => i \notin SurplusPods
    <3>1. \A i \in SurplusPods : i >= sts.replicas
      BY DEF SurplusPods
    <3> QED
      BY <1>1, <3>1
  <2> QED
    BY <1>2, <2>1, <2>2, CountsThoseThatStay
<1>5. Wanted' = Wanted
  BY <1>1 DEF Wanted
<1> QED
  BY <1>1, <1>2, <1>3, <1>4, <1>5 DEF DepartInv

LEMMA KubeletDepart ==
  ASSUME TypeOK, DepartInv, NEW i \in Ordinals, PodStarted(i) \/ PodStopped(i) \/ PodGone(i)
  PROVE  DepartInv'
<1>1. UNCHANGED <<cr, sts>> /\ sts.replicas \in Int /\ Ordinals \subseteq Int /\ Wanted \in Int
  BY ReplicasAssumption
  DEF PodStarted, PodStopped, PodGone, SetPod, crVars, TypeOK, StatefulSets, Ordinals, Wanted
<1>2. \A j \in Ordinals : j # i => pods'[j] = pods[j]
  BY DEF PodStarted, PodStopped, PodGone, SetPod, TypeOK
<1>3. \/ /\ pods[i].state = "unready" /\ ~ pods[i].deleting
         /\ pods'[i].state = "ready"
      \/ /\ pods[i].deleting /\ pods[i].state # "absent"
         /\ (pods'[i].state = "unready" /\ pods'[i].deleting) \/ pods'[i].state = "absent"
  <2>1. NoPod.state = "absent"
    BY DEF NoPod
  <2>2. pods[i] \in Pods /\ \A p : SetPod(i, p) => pods'[i] = p
    BY DEF SetPod, TypeOK
  <2> QED
    BY <2>1, <2>2 DEF PodStarted, PodStopped, PodGone, Pods
<1>4. CASE i < sts.replicas
  <2>1. ~ (sts.replicas > Wanted)
    BY <1>3, <1>4 DEF DepartInv
  <2> QED
    BY <1>1, <1>2, <1>4, <2>1 DEF DepartInv, Wanted
<1>5. CASE i >= sts.replicas
  <2>1. /\ pods[i].state # "absent" /\ sts.replicas >= Wanted
        /\ (pods'[i].state = "unready" /\ pods'[i].deleting) \/ pods'[i].state = "absent"
    BY <1>3, <1>5 DEF DepartInv
  <2>2. \A j \in Ordinals :
          /\ pods'[j].state = "ready" => pods[j].state = "ready"
          /\ j < sts.replicas => pods'[j] = pods[j]
    BY <1>1, <1>2, <1>5, <2>1
  <2>3. \A j \in Ordinals :
          j >= sts.replicas /\ pods'[j].state # "absent"
          => sts.replicas >= Wanted /\ (pods'[j].state = "ready" \/ pods'[j].deleting)
    BY <1>2, <2>1 DEF DepartInv
  <2> QED
    BY <1>1, <2>2, <2>3 DEF DepartInv, Wanted
<1> QED
  BY <1>1, <1>4, <1>5

LEMMA DepartStep ==
  ASSUME RoundInv, DepartInv, PatientUser, Steps
  PROVE  DepartInv'
<1> USE DEF crVars, secretVars, kubeVars
<1>1. CASE \/ Waits \/ StartReconcile \/ UpdateTemplate \/ KeepTemplate \/ RewriteSecret
           \/ DeleteClaim \/ NoScaling \/ PodPassed \/ EditNamespaceSecret
  <2>1. UNCHANGED <<cr, pods, sts.replicas, sts.ready>>
    BY <1>1 DEF Waits, Stops, StartReconcile, Build, UpdateTemplate, KeepTemplate,
                RewriteSecret, DeleteClaim, NoScaling, PodPassed, EditNamespaceSecret,
                RoundInv, PodsInv, TypeOK, StatefulSets
  <2> QED
    BY <2>1, SameDepart
<1>2. CASE CreateStatefulSet
  <2>1. /\ pc = "apply" /\ ~ sts.exists /\ sts'.replicas = req.replicas
        /\ UNCHANGED <<cr, pods>> /\ req.replicas \in Int /\ Wanted \in Int
    BY <1>2, ReplicasAssumption
    DEF CreateStatefulSet, NoStatefulSet, RoundInv, PodsInv, TypeOK, Wanted
  <2>2. Current /\ \A i \in Ordinals : pods[i] = NoPod
    BY <2>1 DEF RoundInv, ChangeInv, Idling, Settled
  <2>3. NoPod.state = "absent"
    BY DEF NoPod
  <2>4. \A i \in Ordinals : pods'[i].state = "absent"
    BY <2>1, <2>2, <2>3
  <2>5. sts'.replicas = Wanted' /\ Wanted' \in Int
    BY <2>1, <2>2 DEF Current, Wanted
  <2> QED
    BY <2>4, <2>5 DEF DepartInv
<1>3. CASE ScaledUp \/ ScaledDown
  BY <1>3, ScaleDepart
<1>4. CASE Recycled
  <2>1. /\ UNCHANGED <<cr, sts>> /\ sts.replicas = Wanted
        /\ sts.replicas \in Int /\ Wanted \in Int
        /\ \A i \in Ordinals : /\ pods'[i].state = pods[i].state
                               /\ pods[i].deleting => pods'[i].deleting
    BY <1>4, RecyclesCurrent DEF Recycled, RoundInv, PodsInv, TypeOK, Pods, StatefulSets
  <2> QED
    BY <2>1 DEF DepartInv, Wanted
<1>5. CASE SyncStatefulSet
  BY <1>5, SyncDepart DEF RoundInv, PodsInv
<1>6. CASE \E i \in Ordinals : PodStarted(i) \/ PodStopped(i) \/ PodGone(i)
  BY <1>6, KubeletDepart DEF RoundInv, PodsInv
<1>7. CASE EditResource
  <2>1. Settled /\ UNCHANGED <<sts, pods>>
    BY <1>7, ConvergedSettled DEF EditResource, Edit
  <2>2. Settled'
    BY <2>1 DEF Settled, AllRun
  <2>4. TypeOK'
    BY <1>7, NextTypes DEF Next, RoundInv, PodsInv
  <2>3. (TypeOK /\ Settled => DepartInv)'
    BY SettledDepart, PTL
  <2> QED
    BY <2>2, <2>3, <2>4
<1> QED
  BY <1>1, <1>2, <1>3, <1>4, <1>5, <1>6, <1>7 DEF Steps

-----------------------------------------------------------------------------
(***************************************************************************)
(* Clean state for a scale up                                              *)
(***************************************************************************)

LEMMA SameClean ==
  ASSUME CleanInv, UNCHANGED <<claims, sts.replicas>>,
         \A i \in Ordinals : pods'[i].state = pods[i].state,
         pc # "claims", pc' # "claims"
  PROVE  CleanInv'
BY DEF CleanInv

\* A reconcile that deletes claims deletes them all.
LEMMA WaitsClean ==
  ASSUME PodsInv, CleanInv, Waits
  PROVE  CleanInv'
<1>1. UNCHANGED <<sts, pods, claims>> /\ pc' = "idle"
  BY DEF Waits, Stops, kubeVars
<1>2. CASE pc # "claims"
  BY <1>1, <1>2, SameClean
<1>3. CASE pc = "claims"
  <2>1. sts.replicas = ord /\ ord \in Ordinals /\ todo \subseteq Claims /\ ~ (ord < ord)
    BY <1>3 DEF PodsInv, ClaimsInv, TypeOK, Ordinals
  <2>2. \A c \in todo : claims[ord][c] = "retired"
    BY <1>3, <2>1 DEF CleanInv
  <2>3. todo = {}
    BY <1>3, <2>2 DEF Waits
  <2> QED
    BY <1>1, <2>3 DEF CleanInv
<1> QED
  BY <1>2, <1>3

LEMMA ScaleClean ==
  ASSUME RoundInv, DepartInv, CleanInv, ScaledUp \/ ScaledDown
  PROVE  CleanInv'
<1>1. /\ pods' = pods /\ pc = "scale" /\ sts.ready = sts.replicas
      /\ sts.replicas \in 0 .. MaxReplicas /\ Ordinals = 0 .. MaxReplicas - 1 /\ MaxReplicas \in Nat
      /\ Wanted \in Int
  BY ReplicasAssumption
  DEF ScaledUp, ScaledDown, Retire, RoundInv, PodsInv, TypeOK, StatefulSets, Ordinals, Wanted
<1>2. req.replicas = Wanted
  BY ScalesCurrent DEF ScaledUp, ScaledDown, Current, RoundInv, PodsInv, TypeOK, StatefulSets
<1>3. \A i \in Ordinals, c \in Claims :
        IF i < sts.replicas
        THEN claims[i][c] = "bound" \/ (claims[i][c] = "none" /\ pods[i].state = "absent")
        ELSE claims[i][c] = "none" \/ (claims[i][c] = "deleting" /\ pods[i].state # "absent")
  BY <1>1 DEF CleanInv
<1>4. CASE ScaledUp
  <2>1. sts'.replicas = Wanted /\ sts.replicas < Wanted /\ claims' = claims /\ pc' = "idle"
    BY <1>2, <1>4 DEF ScaledUp, RoundInv, PodsInv, TypeOK, StatefulSets
  <2>2. \A i \in Ordinals : i >= sts.replicas => pods[i].state = "absent"
    BY <1>1, <2>1 DEF DepartInv
  <2>3. \A i \in Ordinals : i < sts.replicas \/ i >= sts.replicas
    BY <1>1
  <2>4. \A i \in Ordinals : i < sts.replicas => i < sts'.replicas
    BY <1>1, <2>1
  <2> QED
    BY <1>1, <1>3, <2>1, <2>2, <2>3, <2>4 DEF CleanInv
<1>5. CASE ScaledDown
  <2> DEFINE n == sts.replicas - 1
  <2>1. /\ sts'.replicas = n /\ sts.replicas > Wanted /\ Wanted > 0
        /\ pc' = "claims" /\ ord' = n /\ todo' = Claims /\ n \in Ordinals
        /\ \A i \in Ordinals, c \in Claims :
              claims'[i][c] = IF i = n /\ claims[i][c] \in {"bound", "reused"} THEN "retired"
                              ELSE claims[i][c]
    BY <1>1, <1>2, <1>5, ReplicasAssumption
    DEF ScaledDown, Retire, RoundInv, PodsInv, TypeOK, StatefulSets, Wanted
  <2>2. pods[n].state = "ready" /\ n < sts.replicas
    BY <1>1, <2>1 DEF DepartInv
  <2>3. \A c \in Claims : claims'[n][c] = "retired"
    BY <1>3, <2>1, <2>2
  <2>4. \A i \in Ordinals : /\ i < n => i < sts.replicas /\ i # n
                            /\ ~ (i < n) => i = n \/ ~ (i < sts.replicas)
    BY <1>1
  <2> HIDE DEF n
  <2> QED
    BY <1>1, <1>3, <2>1, <2>3, <2>4 DEF CleanInv
<1> QED
  BY <1>4, <1>5

LEMMA DeleteClean ==
  ASSUME PodsInv, CleanInv, DeleteClaim
  PROVE  CleanInv'
<1>1. PICK c \in todo :
        /\ claims[ord][c] # "none"
        /\ claims' = [claims EXCEPT ![ord][c] =
                        IF pods[ord].state = "absent" THEN "none" ELSE "deleting"]
        /\ todo' = todo \ {c}
  BY DEF DeleteClaim
<1>2. /\ pc = "claims" /\ pc' = "claims" /\ UNCHANGED <<sts, pods, ord>>
      /\ sts.replicas = ord /\ ord \in Ordinals /\ ~ (ord < ord) /\ c \in Claims
  BY DEF DeleteClaim, GoTo, PodsInv, ClaimsInv, TypeOK, Ordinals
<1>3. \A i \in Ordinals, d \in Claims :
        claims'[i][d] = IF i = ord /\ d = c
                        THEN IF pods[ord].state = "absent" THEN "none" ELSE "deleting"
                        ELSE claims[i][d]
  BY <1>1, <1>2 DEF PodsInv, TypeOK
<1> QED
  BY <1>1, <1>2, <1>3 DEF CleanInv

LEMMA SyncClean ==
  ASSUME TypeOK, CleanInv, SyncStatefulSet
  PROVE  CleanInv'
<1>1. UNCHANGED <<sts.replicas, pc, ord, todo>>
  BY DEF SyncStatefulSet, opVars, TypeOK, StatefulSets
<1> SUFFICES ASSUME NEW i \in Ordinals, NEW c \in Claims
             PROVE  IF i < sts.replicas
                    THEN \/ claims'[i][c] = "bound"
                         \/ claims'[i][c] = "none" /\ pods'[i].state = "absent"
                    ELSE IF pc = "claims" /\ ord = i /\ c \in todo
                    THEN claims'[i][c] = "retired"
                    ELSE \/ claims'[i][c] = "none"
                         \/ claims'[i][c] = "deleting" /\ pods'[i].state # "absent"
  BY <1>1 DEF CleanInv
<1>2. CASE i \in MissingPods
  <2>1. i < sts.replicas /\ claims[i][c] \in {"none", "bound"}
    BY <1>2 DEF MissingPods, CleanInv
  <2>2. claims'[i][c] = "bound"
    BY <1>2, <2>1 DEF SyncStatefulSet, Bind
  <2> QED
    BY <2>1, <2>2
<1>3. CASE i \notin MissingPods
  <2>1. claims'[i] = claims[i] /\ pods'[i].state = pods[i].state
    BY <1>3 DEF SyncStatefulSet, TypeOK, Pods
  <2> QED
    BY <2>1 DEF CleanInv
<1> QED
  BY <1>2, <1>3

LEMMA KubeletClean ==
  ASSUME TypeOK, CleanInv, NEW i \in Ordinals, PodStarted(i) \/ PodStopped(i) \/ PodGone(i)
  PROVE  CleanInv'
<1>1. UNCHANGED <<sts, pc, ord, todo>> /\ \A j \in Ordinals : j # i => pods'[j] = pods[j]
  BY DEF PodStarted, PodStopped, PodGone, SetPod, opVars, TypeOK
<1>2. \A p : SetPod(i, p) => pods'[i] = p
  BY DEF SetPod, TypeOK
<1>3. CASE PodStarted(i) \/ PodStopped(i)
  <2>1. claims' = claims /\ (pods'[i].state = "absent" <=> pods[i].state = "absent")
    BY <1>2, <1>3 DEF PodStarted, PodStopped, TypeOK, Pods
  <2>2. \A j \in Ordinals : pods'[j].state = "absent" <=> pods[j].state = "absent"
    BY <1>1, <2>1
  <2> QED
    BY <1>1, <2>1, <2>2 DEF CleanInv
<1>4. CASE PodGone(i)
  <2>1. pods'[i].state = "absent" /\ pods[i].state # "absent"
    BY <1>2, <1>4 DEF PodGone, NoPod
  <2>2. \A j \in Ordinals, c \in Claims :
          claims'[j][c] = IF j = i /\ claims[j][c] = "deleting" THEN "none" ELSE claims[j][c]
    BY <1>4 DEF PodGone, TypeOK
  <2> QED
    BY <1>1, <2>1, <2>2 DEF CleanInv
<1> QED
  BY <1>3, <1>4

LEMMA CleanStep ==
  ASSUME RoundInv, DepartInv, CleanInv, Steps
  PROVE  CleanInv'
<1> USE DEF crVars, secretVars, kubeVars
<1>1. CASE \/ StartReconcile \/ UpdateTemplate \/ KeepTemplate \/ NoScaling \/ PodPassed \/ Recycled
  <2>1. /\ pc # "claims" /\ pc' # "claims"
        /\ UNCHANGED <<claims, sts.replicas>>
        /\ \A i \in Ordinals : pods'[i].state = pods[i].state
    <3>1. CASE StartReconcile \/ KeepTemplate \/ NoScaling \/ PodPassed
      BY <3>1 DEF StartReconcile, Build, KeepTemplate, NoScaling, PodPassed, GoTo
    <3>2. CASE UpdateTemplate
      BY <3>2 DEF UpdateTemplate, Finish, End, GoTo, RoundInv, PodsInv, TypeOK, StatefulSets
    <3>3. CASE Recycled
      BY <3>3 DEF Recycled, RoundInv, PodsInv, TypeOK, Pods
    <3> QED
      BY <1>1, <3>1, <3>2, <3>3
  <2> QED
    BY <2>1, SameClean
<1>2. CASE RewriteSecret \/ EditResource \/ EditNamespaceSecret
  BY <1>2 DEF CleanInv, RewriteSecret, EditResource, EditNamespaceSecret, opVars
<1>3. CASE CreateStatefulSet
  <2>1. /\ ~ sts.exists /\ pc = "apply" /\ pc' = "idle" /\ UNCHANGED <<pods, claims>>
    BY <1>3 DEF CreateStatefulSet, Finish, End
  <2>2. sts.replicas = 0 /\ \A i \in Ordinals : pods[i] = NoPod /\ ~ (i < 0)
    BY <2>1 DEF RoundInv, ChangeInv, Ordinals
  <2>3. NoPod.state = "absent"
    BY DEF NoPod
  <2>4. \A i \in Ordinals, c \in Claims : claims[i][c] = "none" /\ pods[i].state = "absent"
    BY <2>1, <2>2, <2>3 DEF CleanInv
  <2> QED
    BY <2>1, <2>4 DEF CleanInv
<1>4. CASE Waits
  BY <1>4, WaitsClean DEF RoundInv
<1>5. CASE ScaledUp \/ ScaledDown
  BY <1>5, ScaleClean
<1>6. CASE DeleteClaim
  BY <1>6, DeleteClean DEF RoundInv
<1>7. CASE SyncStatefulSet
  BY <1>7, SyncClean DEF RoundInv, PodsInv
<1>8. CASE \E i \in Ordinals : PodStarted(i) \/ PodStopped(i) \/ PodGone(i)
  BY <1>8, KubeletClean DEF RoundInv, PodsInv
<1> QED
  BY <1>1, <1>2, <1>3, <1>4, <1>5, <1>6, <1>7, <1>8 DEF Steps

-----------------------------------------------------------------------------
(***************************************************************************)
(* Secret versions in use                                                  *)
(***************************************************************************)

LEMMA SameMount ==
  ASSUME MountInv, UNCHANGED <<secrets, latest, sts.exists, sts.template>>,
         \A i \in Ordinals :
           i < sts'.replicas /\ pods'[i].state # "absent"
           => \/ i < sts.replicas /\ pods[i].state # "absent" /\ pods'[i].rev = pods[i].rev
              \/ sts.exists /\ pods'[i].rev = sts.template
  PROVE  MountInv'
BY DEF MountInv, InUse

\* Pruning spares the versions in use.
LEMMA PruneMount ==
  ASSUME TypeOK, MountInv, UNCHANGED <<latest, sts, pods>>,
         secrets' = secrets \/ secrets' = secrets \ UnwantedSecrets
  PROVE  MountInv'
<1>1. ASSUME NEW s, InUse(s)
      PROVE  InUse(s)'
  <2>1. s \in Nat /\ latest \in Nat /\ s \in secrets /\ s + 1 >= latest
    BY <1>1 DEF InUse, TypeOK
  <2>2. s \notin UnwantedSecrets
    BY <2>1 DEF UnwantedSecrets, MinimumVersionedSecrets
  <2> QED
    BY <2>1, <2>2 DEF InUse
<1> QED
  BY <1>1 DEF MountInv

\* A new version is only created when the last one is mounted everywhere.
LEMMA StartMount ==
  ASSUME RoundInv, MountInv, StartReconcile
  PROVE  MountInv'
<1>1. UNCHANGED <<sts, pods>> /\ latest \in Nat
  BY DEF StartReconcile, Build, kubeVars, RoundInv, PodsInv, TypeOK
<1>2. CASE ~ nsChanged
  BY <1>1, <1>2, PruneMount
  DEF StartReconcile, ApplyVersionedSecret, secretVars, RoundInv, PodsInv
<1>3. CASE nsChanged
  <2>1. latest' = latest + 1 /\ secrets \subseteq secrets'
    BY <1>3 DEF StartReconcile, ApplyVersionedSecret
  <2>2. CASE sts.exists
    <3>1. AllRun(sts.template) /\ sts.template.secret = latest /\ latest \in secrets
      BY <1>3, <2>2 DEF RoundInv, ChangeInv, Settled, MountInv, InUse
    <3>2. NoPod.state = "absent"
      BY DEF NoPod
    <3>3. \A i \in Ordinals : pods[i].state # "absent" => pods[i].rev = sts.template
      BY <3>1, <3>2 DEF AllRun
    <3>4. latest \in secrets' /\ latest + 1 >= latest'
      BY <1>1, <2>1, <3>1
    <3> QED
      BY <1>1, <2>1, <3>1, <3>3 DEF MountInv, InUse
  <2>3. CASE ~ sts.exists
    <3>1. \A i \in Ordinals : ~ (i < sts.replicas)
      BY <2>3 DEF RoundInv, ChangeInv, Ordinals
    <3> QED
      BY <1>1, <2>3, <3>1 DEF MountInv
  <2> QED
    BY <2>2, <2>3
<1> QED
  BY <1>2, <1>3

\* The StatefulSet is created and updated with the latest version.
LEMMA TemplateMount ==
  ASSUME RoundInv, MountInv, CreateStatefulSet \/ UpdateTemplate
  PROVE  MountInv'
<1>1. /\ UNCHANGED <<secrets, latest, pods>> /\ sts'.template = req.template
      /\ pc = "apply" /\ (sts.exists => sts'.replicas = sts.replicas)
  BY DEF CreateStatefulSet, UpdateTemplate, secretVars, RoundInv, PodsInv, TypeOK, StatefulSets,
         NoStatefulSet
<1>2. Current
  BY UpdatesSettled DEF CreateStatefulSet, UpdateTemplate, RoundInv, ChangeInv, Idling, Settled
<1>3. req.template.secret = latest /\ latest \in secrets /\ latest \in Nat
  BY <1>2 DEF Current, Wants, RoundInv, PodsInv, VersionInv, TypeOK
<1>4. InUse(sts.template.secret)'
  BY <1>1, <1>3 DEF InUse
<1>5. ~ sts.exists => \A i \in Ordinals : pods[i].state = "absent"
  <2>1. NoPod.state = "absent"
    BY DEF NoPod
  <2> QED
    BY <2>1 DEF RoundInv, ChangeInv
<1>6. \A i \in Ordinals :
        pods'[i].state # "absent" /\ i < sts'.replicas => InUse(pods[i].rev.secret)
  BY <1>1, <1>5 DEF MountInv
<1> QED
  BY <1>1, <1>4, <1>6 DEF MountInv, InUse

LEMMA MountStep ==
  ASSUME RoundInv, DepartInv, MountInv, Steps
  PROVE  MountInv'
<1> USE DEF crVars, secretVars, kubeVars
<1>1. CASE \/ KeepTemplate \/ RewriteSecret \/ DeleteClaim \/ NoScaling \/ PodPassed
           \/ EditResource \/ EditNamespaceSecret
  BY <1>1, SameMount DEF KeepTemplate, RewriteSecret, DeleteClaim, NoScaling, PodPassed,
     EditResource, EditNamespaceSecret
<1>2. CASE Waits
  BY <1>2, PruneMount DEF Waits, Stops, RoundInv, PodsInv
<1>3. CASE StartReconcile
  BY <1>3, StartMount
<1>4. CASE CreateStatefulSet \/ UpdateTemplate
  BY <1>4, TemplateMount
<1>5. CASE ScaledUp \/ ScaledDown
  <2>1. /\ UNCHANGED <<secrets, latest, pods, sts.exists, sts.template>>
        /\ sts.replicas \in Int /\ Wanted \in Int /\ Ordinals \subseteq Int
        /\ sts.ready = sts.replicas
    BY <1>5, ReplicasAssumption
    DEF ScaledUp, ScaledDown, Retire, RoundInv, PodsInv, TypeOK, StatefulSets, Ordinals, Wanted
  <2>2. req.replicas = Wanted
    BY <1>5, ScalesCurrent
    DEF ScaledUp, ScaledDown, Current, RoundInv, PodsInv, TypeOK, StatefulSets
  <2>3. sts'.replicas <= sts.replicas \/ sts.replicas < Wanted
    BY <1>5, <2>1, <2>2 DEF ScaledUp, ScaledDown, Retire, RoundInv, PodsInv, TypeOK, StatefulSets
  <2>4. sts'.replicas \in Int
    BY <1>5, <2>1, <2>2
    DEF ScaledUp, ScaledDown, Retire, RoundInv, PodsInv, TypeOK, StatefulSets
  <2>5. \A i \in Ordinals :
          i < sts'.replicas /\ pods[i].state # "absent" => i < sts.replicas
    <3>1. \A i \in Ordinals : i >= sts.replicas /\ pods[i].state # "absent" => sts.replicas >= Wanted
      BY DEF DepartInv
    <3> QED
      BY <2>1, <2>3, <2>4, <3>1
  <2> QED
    BY <2>1, <2>5, SameMount
<1>6. CASE Recycled
  <2>1. UNCHANGED <<secrets, latest, sts>>
        /\ \A i \in Ordinals : pods'[i].state = pods[i].state /\ pods'[i].rev = pods[i].rev
    BY <1>6 DEF Recycled, RoundInv, PodsInv, TypeOK, Pods
  <2> QED
    BY <2>1, SameMount
<1>7. CASE SyncStatefulSet
  <2>1. UNCHANGED <<secrets, latest, sts.exists, sts.template, sts.replicas>> /\ sts.exists
    BY <1>7 DEF SyncStatefulSet, RoundInv, PodsInv, TypeOK, StatefulSets
  <2>2. \A i \in Ordinals :
          \/ pods'[i].state = pods[i].state /\ pods'[i].rev = pods[i].rev
          \/ pods'[i].rev = sts.template
    BY <1>7 DEF SyncStatefulSet, RoundInv, PodsInv, TypeOK, Pods
  <2> QED
    BY <2>1, <2>2, SameMount
<1>8. ASSUME NEW i \in Ordinals, PodStarted(i) \/ PodStopped(i) \/ PodGone(i)
      PROVE  MountInv'
  <2>1. UNCHANGED <<secrets, latest, sts>>
    BY <1>8 DEF PodStarted, PodStopped, PodGone, SetPod
  <2>2. NoPod.state = "absent"
    BY DEF NoPod
  <2>3. \A p : SetPod(i, p) => \A j \in Ordinals : pods'[j] = IF j = i THEN p ELSE pods[j]
    BY DEF SetPod, RoundInv, PodsInv, TypeOK
  <2>4. pods[i] \in Pods
    BY DEF RoundInv, PodsInv, TypeOK
  <2>5. \/ pods'[i].state = "absent"
        \/ pods[i].state # "absent" /\ pods'[i].rev = pods[i].rev
    BY <1>8, <2>2, <2>3, <2>4 DEF PodStarted, PodStopped, PodGone, Pods
  <2>6. \A j \in Ordinals : j # i => pods'[j] = pods[j]
    BY <1>8, <2>3 DEF PodStarted, PodStopped, PodGone
  <2> QED
    BY <2>1, <2>5, <2>6, SameMount
<1> QED
  BY <1>1, <1>2, <1>3, <1>4, <1>5, <1>6, <1>7, <1>8 DEF Steps

-----------------------------------------------------------------------------
(***************************************************************************)
(* The theorems                                                            *)
(***************************************************************************)

RolloutInv == RoundInv /\ RecycleInv /\ DepartInv /\ CleanInv /\ MountInv

\* The inductive invariant: it relates the StatefulSet and its pods to what the user asked
\* for last, and to what the reconcile under way has read.
THEOREM RolloutInvariant ==
  ASSUME PatientUser, MaxFaults = 0
  PROVE  Spec => []RolloutInv
<1>1. Init => RolloutInv
  <2> SUFFICES ASSUME Init PROVE RolloutInv
    OBVIOUS
  <2>1. NoPod.state = "absent"
    BY DEF NoPod
  <2>2. \A i \in Ordinals : /\ pods[i].state = "absent" /\ recycling[i] = NoRevision
                            /\ \A c \in Claims : claims[i][c] = "none"
    BY <2>1 DEF Init
  <2>3. ~ sts.exists /\ pc = "idle" /\ sts.replicas = 0 /\ Wanted \in 1 .. MaxReplicas
    BY ReplicasAssumption DEF Init, NoStatefulSet, Wanted
  <2>4. RecycleInv /\ MountInv
    BY <2>2, <2>3 DEF RecycleInv, OnePodAtATime, MountInv
  <2>5. DepartInv /\ CleanInv
    BY <2>2, <2>3 DEF DepartInv, CleanInv
  <2> QED
    BY <2>4, <2>5, InitRound DEF RolloutInv
<1>2. RolloutInv /\ [Next]_vars => RolloutInv'
  <2> SUFFICES ASSUME RolloutInv, [Next]_vars PROVE RolloutInv'
    OBVIOUS
  <2>1. RoundInv'
    BY RoundStep DEF RolloutInv
  <2>2. CASE Next
    <3>1. Steps
      BY <2>2, EveryStep DEF RolloutInv, RoundInv, PodsInv
    <3> QED
      BY <2>1, <3>1, RecycleStep, DepartStep, CleanStep, MountStep DEF RolloutInv
  <2>3. CASE UNCHANGED vars
    BY <2>1, <2>3
    DEF RolloutInv, vars, crVars, secretVars, kubeVars, opVars, RecycleInv, RolledOutFrom,
        OnePodAtATime, DepartInv, Wanted, CleanInv, MountInv, InUse
  <2> QED
    BY <2>2, <2>3
<1> QED
  BY <1>1, <1>2, PTL DEF Spec

\* One change at a time takes down one pod at a time: the loop over the pods deletes a pod of
\* an old revision and returns, and no later reconcile deletes another before the first is
\* back, however old the status it read.
THEOREM OnePodAtATimeCorrect ==
  ASSUME PatientUser, MaxFaults = 0
  PROVE  Spec => []OnePodAtATime
<1>1. RolloutInv => OnePodAtATime
  BY DEF RolloutInv, RecycleInv
<1> QED
  BY <1>1, RolloutInvariant, PTL

\* A scale down of any number of replicas gives up one pod, and the next only after the one
\* before has stopped: comparing readyReplicas with replicas is enough for that.
THEOREM OneDepartureCorrect ==
  ASSUME PatientUser, MaxFaults = 0
  PROVE  Spec => []OneDepartureAtATime
<1>1. RolloutInv => OneDepartureAtATime
  <2> SUFFICES ASSUME RolloutInv PROVE OneDepartureAtATime
    OBVIOUS
  <2> DEFINE Leaving == {i \in ReadyPods : i >= sts.replicas}
  <2>1. \A i, j \in Leaving : i = j
    BY DEF RolloutInv, DepartInv, ReadyPods
  <2>2. CASE Leaving = {}
    BY <2>2, FS_EmptySet DEF OneDepartureAtATime
  <2>3. CASE Leaving # {}
    <3>1. PICK k : Leaving = {k}
      BY <2>1, <2>3
    <3>2. Cardinality(Leaving) = 1
      BY <3>1, FS_Singleton
    <3> QED
      BY <3>2 DEF OneDepartureAtATime
  <2> QED
    BY <2>2, <2>3
<1> QED
  BY <1>1, RolloutInvariant, PTL

\* No pod is ever created over claims that a scale down left behind: the reconcile that gave
\* up an ordinal deletes all its claims, and the ordinal comes back only when its pod is gone.
THEOREM CleanScaleUpCorrect ==
  ASSUME PatientUser, MaxFaults = 0
  PROVE  Spec => []CleanScaleUp
<1>1. RolloutInv => CleanScaleUp
  BY DEF RolloutInv, CleanInv, CleanScaleUp
<1> QED
  BY <1>1, RolloutInvariant, PTL

\* A pod of the StatefulSet mounts a version that exists: RemoveUnwantedSecrets keeps the last
\* three, and no more than two are in use.
THEOREM MountedSecretsCorrect ==
  ASSUME PatientUser, MaxFaults = 0
  PROVE  Spec => []MountedSecretsKept
<1>1. RolloutInv => MountedSecretsKept
  BY DEF RolloutInv, MountInv, InUse, MountedSecretsKept
<1> QED
  BY <1>1, RolloutInvariant, PTL
=============================================================================
