-------------------------- MODULE IdxcSecret_proofs --------------------------
(***************************************************************************)
(* What ApplyIdxcSecret does beside UpdateStatefulSetPods leaves the       *)
(* guarantees of StatefulSetPods alone: it rewrites secrets that pods      *)
(* mount, and ends reconciles early, only as StatefulSetPods allows.  And  *)
(* when changes of the key come one at a time, it misses no peer and no    *)
(* mounted secret, and restarts peers in maintenance mode only, whatever   *)
(* fails meanwhile.                                                        *)
(***************************************************************************)
EXTENDS IdxcSecret, StatefulSetPods_proofs

\* The steps before UpdateStatefulSetPods.
Early == {"revision", "peers", "rewrite", "status"}

Places ==
  [step : Early \union {"apply", "pods"}, at : Int, key : Int, nsRead : {"seen", "old"},
   cmSeen : BOOLEAN]

\* ApplyIdxcSecret is under way only while the reconcile may still stop, or go on to
\* UpdateStatefulSetPods.
WhereInv ==
  /\ nsKey \in Keys /\ cmReady \in BOOLEAN
  /\ walk \in Places
  /\ pc = "idle" => walk.step = "apply"
  /\ walk.step \in Early => pc \in {"apply", "scale"}

LEMMA WalkInit == RotationInit => WhereInv
BY RotationAssumption
   DEF RotationInit, WhereInv, Places, NoWalk, Early, Keys, Init

\* What a step that ends the reconcile, or leaves walk alone, does to WhereInv.
LEMMA HaveKeepsWalk ==
  ASSUME WhereInv, walk' \in {walk, NoWalk}, UNCHANGED <<nsKey, cmReady>>,
         pc' = "idle" => walk' = NoWalk,
         walk.step \notin Early \/ pc' \in {pc, "idle"}
  PROVE  WhereInv'
<1>1. CASE walk' = NoWalk
  BY <1>1 DEF WhereInv, Places, NoWalk, Early, Keys
<1>2. CASE walk' = walk /\ pc' # "idle"
  BY <1>2 DEF WhereInv, Places, Early, Keys
<1> QED
  BY <1>1, <1>2

\* Where the steps of the other parties leave pc.
LEMMA SurroundingsWalk ==
  ASSUME WhereInv, EditSecret \/ Elsewhere \/ Fails \/ Crashes
                  \/ ClusterMasterRecycled \/ ClusterMasterReturns
                  \/ \E i \in Ordinals : SplunkStarted(i) \/ PodsGo(i)
  PROVE  WhereInv'
<1>1. CASE EditSecret
  <2>1. pc' = pc /\ cmReady' = cmReady /\ nsKey' \in Keys
    BY <1>1, RotationAssumption
       DEF EditSecret, EditNamespaceSecret, opVars, cmVars, WhereInv, Keys
  <2>2. walk' = [walk EXCEPT !.nsRead = IF pc = "idle" THEN @ ELSE "old"]
    BY <1>1 DEF EditSecret
  <2> QED
    BY <2>1, <2>2 DEF WhereInv, Places, Early, Keys
<1>2. CASE Elsewhere
  <2>1. pc' = pc
    BY <1>2 DEF Elsewhere, SyncStatefulSet, EditResource, opVars
  <2> QED
    BY <1>2, <2>1, HaveKeepsWalk DEF Elsewhere, rotVars, nsVars, cmVars, WhereInv, Places, Early, Keys
<1>3. CASE Fails
  <2>1. pc' \in {pc, "idle"}
    <3>1. CASE ApiError \/ PruneError \/ PublishError
      BY <3>1 DEF ApiError, PruneError, PublishError, Finish, End
    <3>2. CASE \E i \in Ordinals : PodFails(i) \/ PodEvicted(i)
      BY <3>2 DEF PodFails, PodEvicted, SetPod, opVars
    <3> QED
      BY <1>3, <3>1, <3>2 DEF Fails
  <2>2. Have(mem, walk) /\ UNCHANGED <<nsKey, cmReady>>
    BY <1>3 DEF Fails, nsVars, cmVars
  <2> QED
    BY <2>1, <2>2, HaveKeepsWalk DEF Have
<1>4. CASE Crashes
  BY <1>4, HaveKeepsWalk DEF Crashes, Crash, nsVars, cmVars
<1>5. CASE ClusterMasterRecycled \/ ClusterMasterReturns
  BY <1>5 DEF ClusterMasterRecycled, ClusterMasterReturns, vars, opVars, nsVars, WhereInv,
              Places, Early, Keys
<1>6. CASE \E i \in Ordinals : SplunkStarted(i) \/ PodsGo(i)
  <2>1. pc' = pc
    BY <1>6 DEF SplunkStarted, PodsGo, PodStarted, PodStopped, PodGone, SetPod, opVars
  <2>2. UNCHANGED <<nsKey, cmReady, walk>>
    BY <1>6 DEF SplunkStarted, PodsGo, nsVars, cmVars
  <2> QED
    BY <2>1, <2>2 DEF WhereInv, Places, Early, Keys
<1> QED
  BY <1>1, <1>2, <1>3, <1>4, <1>5, <1>6

\* A step of ApplyIdxcSecret that goes on goes to a place where it may be.
LEMMA RotateToWalk ==
  ASSUME WhereInv, NEW m, NEW w, RotateTo(m, w), cmReady' = cmReady,
         w \in Places,
         pc = "idle" => w.step = "apply",
         w.step \in Early => pc \in {"apply", "scale"}
  PROVE  WhereInv'
BY DEF WhereInv, RotateTo, vars, opVars, nsVars, Early, Keys

LEMMA StopWithWalk ==
  ASSUME WhereInv, NEW m, NEW p, StopWith(p, m)
  PROVE  WhereInv'
BY HaveKeepsWalk DEF StopWith, Finish, End, Have, nsVars, cmVars

LEMMA OperatorWalk ==
  ASSUME WhereInv, Operator
  PROVE  WhereInv'
<1>1. CASE Start
  <2>1. /\ pc' = "apply" /\ walk' = [walk EXCEPT !.cmSeen = cmReady]
        /\ UNCHANGED <<nsKey, cmReady>>
    BY <1>1 DEF Start, StartReconcile, Build, cmVars
  <2>2. walk.step = "apply"
    BY <1>1 DEF Start, StartReconcile, Build, WhereInv
  <2> QED
    BY <2>1, <2>2 DEF WhereInv, Places, Early, Keys
<1>2. CASE NoReplicationFactor
  BY <1>2, StopWithWalk DEF NoReplicationFactor
<1>3. CASE Create
  <2>1. pc' = "idle"
    BY <1>3 DEF Create, CreateStatefulSet, Finish, End
  <2> QED
    BY <1>3, <2>1, HaveKeepsWalk DEF Create, Have, nsVars, cmVars
<1>4. CASE Apply
  <2>1. pc' = "scale"
    BY <1>4, RotationAssumption
       DEF Apply, UpdateTemplate, KeepTemplate, GoTo
  <2>2. walk' = [walk EXCEPT !.step = "revision"] /\ UNCHANGED <<nsKey, cmReady>>
    BY <1>4, <2>1 DEF Apply, Have, nsVars, cmVars
  <2> QED
    BY <2>1, <2>2 DEF WhereInv, Places, Early, Keys
<1>5. CASE SkipApply
  BY <1>5 DEF SkipApply, vars, opVars, nsVars, cmVars, WhereInv, Places, Early, Keys
<1>6. CASE CheckRevision
  <2>1. cmReady' = cmReady /\ walk.step = "revision" /\ walk.step \in Early
    BY <1>6 DEF CheckRevision, cmVars, Early
  <2>2. CASE mem.rev = "old"
    <3>1. RotateTo(mem, [walk EXCEPT !.step = "peers", !.key = nsKey])
      BY <1>6, <2>2 DEF CheckRevision
    <3> DEFINE w == [walk EXCEPT !.step = "peers", !.key = nsKey]
    <3>2. nsKey \in Int
      BY RotationAssumption DEF WhereInv, Keys
    <3>3. /\ w.step = "peers" /\ pc # "idle"
          /\ w \in Places
      BY <2>1, <3>2 DEF WhereInv, Places, Early
    <3>4. pc \in {"apply", "scale"}
      BY <2>1 DEF WhereInv
    <3> HIDE DEF w
    <3>5. RotateTo(mem, w)
      BY <3>1 DEF w
    <3> QED
      BY <2>1, <3>3, <3>4, <3>5, RotateToWalk
  <2>3. CASE mem.rev # "old"
    <3>1. RotateTo([mem EXCEPT !.rev = "seen"], [walk EXCEPT !.step = "status"])
      BY <1>6, <2>3 DEF CheckRevision
    <3> QED
      BY <2>1, <3>1, RotateToWalk DEF WhereInv, Places, Early
  <2> QED
    BY <2>2, <2>3
<1>7. CASE RotatePeers
  <2>1. PICK i \in Ordinals :
          \/ PeerMissing(i) \/ PeerMatches(i) \/ EnableMaintenance(i)
          \/ SkipPeer(i) \/ ChangePeer(i)
    BY <1>7 DEF RotatePeers
  <2>2. walk.step = "peers" /\ walk.step \in Early
    BY <2>1 DEF PeerMissing, PeerMatches, EnableMaintenance, SkipPeer, ChangePeer,
                Mismatch, AtPeer, Early
  <2>3. ASSUME NEW m, RotateTo(m, walk), cmReady' = cmReady PROVE WhereInv'
    BY <2>2, <2>3, RotateToWalk DEF WhereInv
  <2>4. ASSUME NEW m, RotateTo(m, NextPeer), cmReady' = cmReady PROVE WhereInv'
    BY <2>2, <2>4, RotateToWalk DEF NextPeer, WhereInv, Places
  <2>5. CASE PeerMissing(i)
    BY <2>5, StopWithWalk DEF PeerMissing
  <2>6. CASE PeerMatches(i) \/ SkipPeer(i)
    BY <2>6, <2>4 DEF PeerMatches, SkipPeer, cmVars
  <2>7. CASE EnableMaintenance(i)
    BY <2>7, <2>3, StopWithWalk DEF EnableMaintenance
  <2>8. CASE ChangePeer(i)
    BY <2>8, <2>4, StopWithWalk DEF ChangePeer, cmVars
  <2> QED
    BY <2>1, <2>5, <2>6, <2>7, <2>8
<1>8. CASE PeersChanged
  BY <1>8, RotateToWalk DEF PeersChanged, cmVars, WhereInv, Places, Early
<1>9. CASE RewriteVersion
  <2>1. CASE UNCHANGED <<nsVars, run, cmVars, status, walk>> /\ pc' = pc
    BY <2>1 DEF nsVars, cmVars, WhereInv, Places, Early, Keys
  <2>2. ASSUME StopWith("Error", mem) PROVE WhereInv'
    BY <2>2, StopWithWalk
  <2>3. \/ StopWith("Error", mem)
        \/ UNCHANGED <<nsVars, run, cmVars, status, walk>> /\ pc' = pc
    BY <1>9 DEF RewriteVersion, RewriteSecret, vars, opVars
  <2> QED
    BY <2>1, <2>2, <2>3
<1>10. CASE VersionsRewritten
  BY <1>10, RotateToWalk DEF VersionsRewritten, cmVars, WhereInv, Places, Early
<1>11. CASE UpdateStatus
  <2>1. \/ \E m : StopWith("Pending", m)
        \/ /\ \E m : RotateTo(m, [walk EXCEPT !.step = "pods"])
           /\ cmReady' = cmReady /\ walk.step = "status"
    BY <1>11 DEF UpdateStatus, cmVars
  <2> QED
    BY <2>1, StopWithWalk, RotateToWalk DEF WhereInv, Places, Early
<1>12. CASE ManagePods
  BY <1>12, HaveKeepsWalk DEF ManagePods, Have, nsVars, cmVars, Early
<1>13. CASE AllReady \/ AllReadyButMaintenance
  <2>1. pc' = "idle"
    BY <1>13 DEF AllReady, AllReadyButMaintenance, RemoveUnwantedSecrets, PublishError,
                 ReadyStepFails, Finish, End
  <2> QED
    BY <1>13, <2>1, HaveKeepsWalk DEF AllReady, AllReadyButMaintenance, Have, nsVars, cmVars
<1> QED
  BY <1>1, <1>2, <1>3, <1>4, <1>5, <1>6, <1>7, <1>8, <1>9, <1>10, <1>11, <1>12, <1>13
     DEF Operator

LEMMA WalkStep == WhereInv /\ [RotationNext]_idxcVars => WhereInv'
<1>1. WhereInv /\ UNCHANGED idxcVars => WhereInv'
  BY DEF WhereInv, idxcVars, vars, opVars, rotVars, nsVars, cmVars, Early, Keys
<1> QED
  BY <1>1, OperatorWalk, SurroundingsWalk DEF RotationNext

\* Where Update returns before UpdateStatefulSetPods, ManagerStops allows it.
LEMMA StopWithStep ==
  ASSUME NEW m, NEW p \in {"Pending", "Error"}, StopWith(p, m),
         pc \in {"apply", "scale"}
  PROVE  Reconcile
BY RotationAssumption DEF StopWith, ManagerStops, Reconcile

LEMMA OperatorStep ==
  ASSUME WhereInv, Operator
  PROVE  Next \/ UNCHANGED vars
<1>1. walk.step \in Early => pc \in {"apply", "scale"}
  BY DEF WhereInv
<1>2. CASE Start \/ Create \/ Apply
  BY <1>2 DEF Start, Create, Apply, Reconcile, Next
<1>3. CASE NoReplicationFactor
  BY <1>3, StopWithStep DEF NoReplicationFactor, Next
<1>4. CASE SkipApply \/ CheckRevision \/ PeersChanged \/ VersionsRewritten
  BY <1>4 DEF SkipApply, CheckRevision, PeersChanged, VersionsRewritten, RotateTo
<1>5. CASE RotatePeers
  <2>1. PICK i \in Ordinals :
          \/ PeerMissing(i) \/ PeerMatches(i) \/ EnableMaintenance(i)
          \/ SkipPeer(i) \/ ChangePeer(i)
    BY <1>5 DEF RotatePeers
  <2>2. pc \in {"apply", "scale"}
    BY <1>1, <2>1 DEF PeerMissing, PeerMatches, EnableMaintenance, SkipPeer, ChangePeer,
                      Mismatch, AtPeer, Early
  <2>3. CASE PeerMissing(i)
    BY <2>2, <2>3, StopWithStep DEF PeerMissing, Next
  <2>4. CASE PeerMatches(i) \/ SkipPeer(i)
    BY <2>4 DEF PeerMatches, SkipPeer, RotateTo
  <2>5. CASE EnableMaintenance(i)
    BY <2>2, <2>5, StopWithStep DEF EnableMaintenance, RotateTo, Next
  <2>6. CASE ChangePeer(i)
    BY <2>2, <2>6, StopWithStep DEF ChangePeer, RotateTo, Next
  <2> QED
    BY <2>1, <2>3, <2>4, <2>5, <2>6
<1>6. CASE RewriteVersion
  <2>1. pc \in {"apply", "scale"}
    BY <1>1, <1>6 DEF RewriteVersion, Early
  <2>2. UNCHANGED vars \/ RewriteSecret \/ StopWith("Error", mem)
    BY <1>6 DEF RewriteVersion
  <2> QED
    BY <2>1, <2>2, StopWithStep DEF Reconcile, Next
<1>7. CASE UpdateStatus
  <2>1. pc \in {"apply", "scale"}
    BY <1>1, <1>7 DEF UpdateStatus, Early
  <2> QED
    BY <1>7, <2>1, StopWithStep DEF UpdateStatus, RotateTo, Next
<1>8. CASE ManagePods
  BY <1>8, RotationAssumption DEF ManagePods, Reconcile, Next
<1>9. CASE AllReady \/ AllReadyButMaintenance
  BY <1>9 DEF AllReady, AllReadyButMaintenance, Reconcile, Failure, Next
<1> QED
  BY <1>2, <1>3, <1>4, <1>5, <1>6, <1>7, <1>8, <1>9 DEF Operator

\* Of what happens besides, StatefulSetPods sees all but the cluster master.
LEMMA SurroundingsStep ==
  ASSUME EditSecret \/ Elsewhere \/ Fails \/ Crashes
         \/ ClusterMasterRecycled \/ ClusterMasterReturns
         \/ \E i \in Ordinals : SplunkStarted(i) \/ PodsGo(i)
  PROVE  Next \/ UNCHANGED vars
<1>1. CASE EditSecret \/ Elsewhere
  BY <1>1 DEF EditSecret, Elsewhere, Kubernetes, Next
<1>2. CASE Fails \/ Crashes
  BY <1>2 DEF Fails, Crashes, Failure, Next
<1>3. CASE ClusterMasterRecycled \/ ClusterMasterReturns
  BY <1>3 DEF ClusterMasterRecycled, ClusterMasterReturns
<1>4. CASE \E i \in Ordinals : SplunkStarted(i) \/ PodsGo(i)
  BY <1>4 DEF SplunkStarted, PodsGo, Kubernetes, Next
<1> QED
  BY <1>1, <1>2, <1>3, <1>4

\* Whatever ApplyIdxcSecret finds, changes, or fails at, a behaviour of an indexer
\* cluster that rotates its idxc_secret is one of StatefulSetPods.
THEOREM RotationImplementsPods == RotationSpec => ImplementsPods
<1>1. RotationInit => Init
  BY DEF RotationInit
<1>2. WhereInv /\ [RotationNext]_idxcVars => [Next]_vars
  <2>1. UNCHANGED idxcVars => UNCHANGED vars
    BY DEF idxcVars
  <2> QED
    BY <2>1, OperatorStep, SurroundingsStep DEF RotationNext
<1> QED
  BY <1>1, <1>2, WalkInit, WalkStep, PTL DEF RotationSpec, ImplementsPods, Spec

\* While idxc_secret is rotated, with pods that restart and mounted secrets that change,
\* the template never goes back to an older version.
THEOREM RotationSecretNeverOlder == RotationSpec => SecretNeverOlder
<1>1. ~ DropsErrors
  BY RotationAssumption
<1> QED
  BY <1>1, RotationImplementsPods, SecretNeverOlderCorrect, PTL DEF ImplementsPods

-----------------------------------------------------------------------------
(***************************************************************************)
(* The versions that exist, and those in play                              *)
(***************************************************************************)

\* Versions are numbered from 1.
BoundInv ==
  /\ secrets \subseteq 1 .. latest /\ latest <= MaxSecrets
  /\ nsChanged => latest < MaxSecrets

\* Every pod mounts a version, which is not newer than that of the template.
MountsInv ==
  /\ sts.exists => sts.template \in Templates /\ sts.template.secret \in 1 .. latest
  /\ pc = "apply" => req.template.secret = latest /\ latest # 0
  /\ \A i \in Ordinals :
       IF pods[i].state = "absent" THEN pods[i] = NoPod
       ELSE /\ sts.exists /\ pods[i].rev \in Templates
            /\ pods[i].rev.secret \in 1 .. sts.template.secret

LEMMA BoundStep ==
  ASSUME TypeOK, BoundInv, [Next]_vars
  PROVE  BoundInv'
<1> USE DEF crVars, secretVars, kubeVars, opVars
<1>0. latest \in Nat /\ MaxSecrets \in Nat /\ ~ DropsErrors
  BY RotationAssumption DEF TypeOK
<1> DEFINE Kept == /\ latest' = latest /\ secrets' \subseteq secrets
                   /\ nsChanged' => nsChanged \/ latest < MaxSecrets
<1>1. ASSUME Kept PROVE BoundInv'
  BY <1>0, <1>1 DEF BoundInv
<1>2. CASE StartReconcile
  <2>1. CASE nsChanged
    <3>1. /\ latest' = latest + 1 /\ secrets' = secrets \union {latest + 1}
          /\ ~ nsChanged' /\ latest < MaxSecrets /\ secrets \subseteq 1 .. latest
      BY <1>2, <2>1 DEF StartReconcile, ApplyVersionedSecret, BoundInv
    <3>2. 1 .. latest \subseteq 1 .. (latest + 1) /\ latest + 1 \in 1 .. (latest + 1)
      BY <1>0
    <3> QED
      BY <1>0, <3>1, <3>2 DEF BoundInv
  <2>2. CASE ~ nsChanged
    BY <1>2, <2>2, <1>1 DEF StartReconcile, ApplyVersionedSecret
  <2> QED
    BY <2>1, <2>2
<1>3. CASE CreateStatefulSet \/ UpdateTemplate \/ KeepTemplate \/ RewriteSecret \/ ManagerStops
  BY <1>1, <1>3 DEF CreateStatefulSet, UpdateTemplate, KeepTemplate, RewriteSecret, ManagerStops
<1>4. CASE WaitForReplicas \/ ScaleUp \/ NoScaling \/ DeleteClaim \/ ClaimNotFound
           \/ ClaimsDeleted \/ WaitForPod
  BY <1>1, <1>4 DEF WaitForReplicas, ScaleUp, NoScaling, DeleteClaim, ClaimNotFound,
                    ClaimsDeleted, WaitForPod
<1>5. CASE \E v \in Verdicts : ScaleDown(v) \/ RecyclePod(v) \/ FinishPod(v)
  <2>1. UNCHANGED <<secrets, latest, nsChanged>>
    BY <1>5 DEF ScaleDown, RecyclePod, FinishPod
  <2> QED
    BY <1>1, <2>1
<1>6. CASE RemoveUnwantedSecrets \/ ReadyStepFails \/ PublishError \/ PruneError
  BY <1>1, <1>6 DEF RemoveUnwantedSecrets, ReadyStepFails, PublishError, PruneError
<1>7. CASE Kubernetes
  BY <1>1, <1>7 DEF Kubernetes, SyncStatefulSet, PodStarted, PodStopped, PodGone, SetPod
<1>8. CASE EditResource \/ EditNamespaceSecret
  BY <1>1, <1>8 DEF EditResource, EditNamespaceSecret
<1>9. CASE ApiError \/ Crash \/ \E i \in Ordinals : PodFails(i) \/ PodEvicted(i)
  BY <1>1, <1>9 DEF ApiError, Crash, PodFails, PodEvicted, SetPod
<1>10. CASE UNCHANGED vars
  BY <1>1, <1>10 DEF vars
<1>11. ~ DropCreateError /\ ~ DropListError /\ ~ DropPruneError
  BY <1>0 DEF DropCreateError, DropListError, DropPruneError
<1> QED
  BY <1>2, <1>3, <1>4, <1>5, <1>6, <1>7, <1>8, <1>9, <1>10, <1>11
     DEF Next, Reconcile, Failure

\* Pods go, or change but for what they mount, or are created from the template; the
\* template changes only to what the reconcile has built.
PodsFollow ==
  \A i \in Ordinals :
    \/ pods'[i] \in {NoPod, pods[i]}
    \/ /\ pods[i].state # "absent" /\ pods'[i].state # "absent"
       /\ pods'[i].rev = pods[i].rev
    \/ /\ sts.exists
       /\ pods'[i].state # "absent" /\ pods'[i].rev = sts.template

TemplateFollows ==
  \/ UNCHANGED <<sts.exists, sts.template>>
  \/ pc = "apply" /\ pc' # "apply" /\ sts'.exists /\ sts'.template = req.template /\ pods' = pods

LatestFollows ==
  \/ latest' = latest /\ (pc' = "apply" => pc = "apply" /\ req' = req)
  \/ /\ latest' \in {latest, latest + 1} /\ latest' # 0 /\ req'.template.secret = latest'
     /\ latest' # latest => ~ nsChanged'
     /\ pc = "idle" /\ UNCHANGED <<sts, pods>>

LEMMA WhatChanges ==
  ASSUME PodsInv, [Next]_vars
  PROVE  PodsFollow /\ TemplateFollows /\ LatestFollows
<1> USE DEF crVars, secretVars, kubeVars, opVars
<1>0. /\ latest \in Nat /\ ~ DropsErrors /\ sts \in StatefulSets /\ pods \in [Ordinals -> Pods]
      /\ nsChanged \/ latest # 0
  BY RotationAssumption DEF PodsInv, TypeOK, VersionInv
<1> DEFINE Goal == PodsFollow /\ TemplateFollows /\ LatestFollows
<1>1. ASSUME PodsFollow, UNCHANGED <<sts.exists, sts.template, latest>>,
             pc' = "apply" => pc = "apply" /\ req' = req
      PROVE  Goal
  BY <1>1 DEF TemplateFollows, LatestFollows
<1>2. ASSUME UNCHANGED <<sts, pods, latest>>, pc' = "apply" => pc = "apply" /\ req' = req
      PROVE  Goal
  BY <1>1, <1>2 DEF PodsFollow
<1>3. CASE StartReconcile
  <2>1. /\ UNCHANGED <<sts, pods>> /\ req'.template.secret = latest' /\ pc = "idle"
        /\ latest' \in {latest, latest + 1} /\ latest' # 0 /\ (latest' # latest => ~ nsChanged')
    BY <1>0, <1>3 DEF StartReconcile, Build, ApplyVersionedSecret
  <2> QED
    BY <2>1 DEF PodsFollow, TemplateFollows, LatestFollows
<1>4. CASE CreateStatefulSet \/ UpdateTemplate
  <2>1. /\ sts'.template = req.template /\ pc = "apply" /\ sts'.exists
        /\ UNCHANGED <<pods, latest>> /\ pc' # "apply"
    BY <1>0, <1>4 DEF CreateStatefulSet, UpdateTemplate, Finish, End, GoTo, NoStatefulSet,
                      StatefulSets
  <2> QED
    BY <2>1 DEF PodsFollow, TemplateFollows, LatestFollows
<1>5. CASE KeepTemplate \/ RewriteSecret \/ ManagerStops \/ WaitForReplicas \/ NoScaling
           \/ DeleteClaim \/ ClaimNotFound \/ ClaimsDeleted \/ WaitForPod
  BY <1>2, <1>5 DEF KeepTemplate, RewriteSecret, ManagerStops, WaitForReplicas, NoScaling,
                    DeleteClaim, ClaimNotFound, ClaimsDeleted, WaitForPod, Finish, End, GoTo
<1>6. CASE ScaleUp \/ \E v \in Verdicts : ScaleDown(v)
  <2>1. UNCHANGED <<sts.exists, sts.template, pods, latest>>
    BY <1>0, <1>6 DEF ScaleUp, ScaleDown, Retire, StatefulSets
  <2>2. pc' # "apply"
    BY <1>6 DEF ScaleUp, ScaleDown, Finish, End, GoTo
  <2> QED
    BY <1>1, <2>1, <2>2 DEF PodsFollow
<1>7. CASE \E v \in Verdicts : RecyclePod(v)
  <2>1. UNCHANGED <<sts, latest>> /\ pc' # "apply" /\ ord \in Ordinals
        /\ (pods' = pods \/ pods' = [pods EXCEPT ![ord].deleting = TRUE])
    BY <1>7 DEF RecyclePod, Finish, End, PodsInv, TypeOK
  <2>2. pods[ord].state = "ready" /\ pods[ord] \in Pods
    BY <1>0, <1>7, <2>1 DEF RecyclePod
  <2>3. PodsFollow
    BY <1>0, <2>1, <2>2 DEF Pods, PodsFollow
  <2> QED
    BY <1>1, <2>1, <2>3
<1>8. CASE \E v \in Verdicts : FinishPod(v)
  BY <1>2, <1>8 DEF FinishPod, Finish, End, GoTo
<1>9. CASE RemoveUnwantedSecrets \/ ReadyStepFails \/ PublishError \/ PruneError \/ ApiError \/ Crash
  BY <1>2, <1>9 DEF RemoveUnwantedSecrets, ReadyStepFails, PublishError, PruneError, ApiError,
                    Crash, Finish, End
<1>10. CASE SyncStatefulSet
  <2>1. UNCHANGED <<sts.exists, sts.template, latest, pc, req>> /\ sts.exists
    BY <1>0, <1>10 DEF SyncStatefulSet, StatefulSets
  <2>2. ASSUME NEW i \in Ordinals, i \in MissingPods
        PROVE  pods'[i].state # "absent" /\ pods'[i].rev = sts.template
    BY <1>10, <2>2 DEF SyncStatefulSet
  <2>3. ASSUME NEW i \in Ordinals, i \notin MissingPods
        PROVE  /\ pods'[i].state = pods[i].state /\ pods'[i].rev = pods[i].rev
               /\ pods[i].state = "absent" => pods'[i] = pods[i]
    <3>1. pods[i].state = "absent" => i \notin SurplusPods
      BY DEF SurplusPods
    <3>2. pods[i] \in Pods
      BY <1>0
    <3> QED
      BY <1>10, <2>3, <3>1, <3>2 DEF SyncStatefulSet, Pods
  <2>4. PodsFollow
    BY <2>1, <2>2, <2>3 DEF PodsFollow
  <2> QED
    BY <1>1, <2>1, <2>4
<1>11. ASSUME NEW i \in Ordinals,
              PodStarted(i) \/ PodStopped(i) \/ PodGone(i) \/ PodFails(i) \/ PodEvicted(i)
       PROVE  Goal
  <2>1. UNCHANGED <<sts, latest, pc, req>>
    BY <1>11 DEF PodStarted, PodStopped, PodGone, PodFails, PodEvicted, SetPod
  <2>2. pods[i] \in Pods /\ pods[i].state # "absent"
    BY <1>0, <1>11 DEF PodStarted, PodStopped, PodGone, PodFails, PodEvicted
  <2>3. \/ pods'[i] = NoPod
        \/ pods'[i].state # "absent" /\ pods'[i].rev = pods[i].rev
    BY <1>0, <1>11, <2>2 DEF PodStarted, PodStopped, PodGone, PodFails, PodEvicted, SetPod, Pods
  <2>4. \A j \in Ordinals : j # i => pods'[j] = pods[j]
    BY <1>0, <1>11 DEF PodStarted, PodStopped, PodGone, PodFails, PodEvicted, SetPod
  <2>5. PodsFollow
    BY <2>2, <2>3, <2>4 DEF PodsFollow
  <2> QED
    BY <1>1, <2>1, <2>5
<1>12. CASE EditResource \/ EditNamespaceSecret \/ UNCHANGED vars
  BY <1>2, <1>12 DEF EditResource, EditNamespaceSecret, vars
<1>13. ~ DropCreateError /\ ~ DropListError /\ ~ DropPruneError
  BY <1>0 DEF DropCreateError, DropListError, DropPruneError
<1> QED
  BY <1>3, <1>4, <1>5, <1>6, <1>7, <1>8, <1>9, <1>10, <1>11, <1>12, <1>13
     DEF Next, Reconcile, Kubernetes, Failure

LEMMA MountsStep ==
  ASSUME PodsInv, MountsInv, [Next]_vars
  PROVE  MountsInv'
<1>1. PodsFollow /\ TemplateFollows /\ LatestFollows
  BY WhatChanges
<1>2. latest \in Nat /\ NoPod.state = "absent" /\ (pc = "apply" => req.template \in Templates)
  BY DEF PodsInv, TypeOK, ViewInv, NoPod
<1>3. latest' \in Nat /\ latest <= latest'
  BY <1>1, <1>2 DEF LatestFollows
<1>4. sts'.exists => sts'.template \in Templates /\ sts'.template.secret \in 1 .. latest'
  <2>1. CASE UNCHANGED <<sts.exists, sts.template>>
    BY <1>2, <1>3, <2>1 DEF MountsInv
  <2>2. CASE pc = "apply" /\ sts'.exists /\ sts'.template = req.template
    BY <1>2, <1>3, <2>2 DEF MountsInv
  <2> QED
    BY <1>1, <2>1, <2>2 DEF TemplateFollows
<1>5. sts.exists
      => sts'.exists /\ sts.template.secret \in 1 .. sts'.template.secret
  <2>1. CASE UNCHANGED <<sts.exists, sts.template>>
    BY <1>2, <2>1 DEF MountsInv
  <2>2. CASE pc = "apply" /\ sts'.exists /\ sts'.template = req.template
    BY <1>2, <2>2 DEF MountsInv
  <2> QED
    BY <1>1, <2>1, <2>2 DEF TemplateFollows
<1>6. ASSUME NEW i \in Ordinals
      PROVE  IF pods'[i].state = "absent" THEN pods'[i] = NoPod
             ELSE /\ sts'.exists /\ pods'[i].rev \in Templates
                  /\ pods'[i].rev.secret \in 1 .. sts'.template.secret
  <2>1. IF pods'[i].state = "absent" THEN pods'[i] = NoPod
        ELSE /\ sts.exists /\ pods'[i].rev \in Templates
             /\ pods'[i].rev.secret \in 1 .. sts.template.secret
    <3>1. sts.exists => sts.template \in Templates
                        /\ sts.template.secret \in 1 .. sts.template.secret
      BY <1>2 DEF MountsInv
    <3>2. PodsFollow /\ MountsInv
      BY <1>1
    <3> QED
      BY <1>2, <3>1, <3>2 DEF PodsFollow, MountsInv
  <2>2. sts.exists => sts'.template.secret \in Int /\ sts.template.secret \in Int
    BY <1>2, <1>3, <1>4, <1>5 DEF MountsInv
  <2> QED
    BY <1>5, <2>1, <2>2
<1>7. pc' = "apply" => req'.template.secret = latest' /\ latest' # 0
  BY <1>1 DEF LatestFollows, MountsInv
<1> QED
  BY <1>4, <1>6, <1>7 DEF MountsInv

-----------------------------------------------------------------------------
(***************************************************************************)
(* What the reconcile remembers of a rotation                              *)
(***************************************************************************)

\* Versions are to be rewritten only when peers were changed, which happens only when
\* a change of the namespace secret was noticed.
Remembered ==
  {m \in Statuses : /\ m.flags = << >> => m.rewrite = {}
                    /\ m.flags # << >> => m.rev = "old"}

\* Where the loops of ApplyIdxcSecret are.
Shape(w, m) ==
  /\ w.step \in {"apply", "revision"} => w.at = 0 /\ w.key = 0
  /\ w.step = "peers" => w.key \in Keys
  /\ w.step \in {"peers", "rewrite"} => m.rev = "old"
  /\ w.step \in {"status", "pods"} => m.rewrite = {}

BookInv ==
  /\ {status, mem} \subseteq Remembered /\ walk \in Walks
  /\ pc = "idle" => mem = status /\ walk = NoWalk
  /\ Shape(walk, mem)

KeysInv ==
  /\ nsKey \in Keys /\ nsOther \in BOOLEAN
  /\ data \in [Versions -> {0} \union Keys]
  /\ run \in [Ordinals -> {0} \union Keys]
  /\ cmKey \in Keys /\ cmReady \in BOOLEAN /\ maint \in BOOLEAN
  /\ nsChanged <=> latest = 0 \/ nsOther \/ data[latest] # nsKey

LEMMA FreshWalk == NoWalk \in Walks /\ \A m : Shape(NoWalk, m)
BY ReplicasAssumption DEF NoWalk, Walks, Shape

LEMMA HaveBook ==
  ASSUME BookInv, NEW m \in Remembered, NEW w \in Walks, Have(m, w), Shape(w, m)
  PROVE  BookInv'
<1>1. CASE pc' = "idle"
  BY <1>1, FreshWalk DEF Have, BookInv, Shape
<1>2. CASE pc' # "idle"
  BY <1>2 DEF Have, BookInv, Shape
<1> QED
  BY <1>1, <1>2

LEMMA StopBook ==
  ASSUME BookInv, NEW m \in Remembered, NEW p, StopWith(p, m)
  PROVE  BookInv'
BY FreshWalk, HaveBook DEF StopWith

LEMMA RotateToBook ==
  ASSUME BookInv, WhereInv, NEW m \in Remembered, NEW w \in Walks, RotateTo(m, w), Shape(w, m),
         walk.step \in Early
  PROVE  BookInv'
BY DEF BookInv, RotateTo, vars, opVars, Shape, WhereInv

LEMMA MountedVersions ==
  ASSUME TypeOK, BoundInv, NEW i \in Ordinals, HasSecret(i)
  PROVE  Mounted(i) \in Versions
<1>1. latest \in Nat /\ MaxSecrets \in Nat /\ latest <= MaxSecrets
  BY RotationAssumption DEF TypeOK, BoundInv
<1>2. 1 .. latest \subseteq 1 .. MaxSecrets
  BY <1>1
<1> QED
  BY <1>2 DEF HasSecret, BoundInv, Versions

\* Changing a peer: what is remembered grows by it.
LEMMA PeersBook ==
  ASSUME TypeOK, BoundInv, KeysInv, WhereInv, BookInv, RotatePeers
  PROVE  BookInv'
<1>1. PICK i \in Ordinals :
        \/ PeerMissing(i) \/ PeerMatches(i) \/ EnableMaintenance(i)
        \/ SkipPeer(i) \/ ChangePeer(i)
  BY DEF RotatePeers
<1>2. /\ walk.step = "peers" /\ walk.step \in Early /\ walk.at = i /\ i < req.replicas
      /\ walk \in Walks /\ mem \in Remembered /\ mem \in Statuses /\ walk.key \in Keys
      /\ mem.rev = "old"
  BY <1>1 DEF PeerMissing, PeerMatches, EnableMaintenance, SkipPeer, ChangePeer, Mismatch,
              AtPeer, Early, BookInv, Shape, Remembered
<1>3. NextPeer \in Walks /\ NextPeer.step = "peers" /\ NextPeer.key = walk.key
  <2>1. walk.at + 1 \in 0 .. MaxReplicas
    BY <1>2, ReplicasAssumption DEF TypeOK, Ordinals
  <2> QED
    BY <1>2, <2>1 DEF NextPeer, Walks
<1>4. \A w : \A m : w.step = "peers" /\ w.key \in Keys /\ m.rev = "old" => Shape(w, m)
  BY DEF Shape
<1>5. CASE PeerMissing(i)
  BY <1>2, <1>5, StopBook DEF PeerMissing
<1>6. CASE PeerMatches(i) \/ SkipPeer(i)
  BY <1>2, <1>3, <1>4, <1>6, RotateToBook DEF PeerMatches, SkipPeer
<1>7. CASE EnableMaintenance(i)
  <2>1. [mem EXCEPT !.maint = TRUE] \in Remembered
    BY <1>2 DEF Remembered, Statuses
  <2>2. Shape(walk, [mem EXCEPT !.maint = TRUE])
    BY <1>2, <1>4, <2>1 DEF Statuses
  <2> QED
    BY <1>2, <1>7, <2>1, <2>2, RotateToBook, StopBook DEF EnableMaintenance
<1>8. CASE ChangePeer(i)
  <2> DEFINE f == IF i < Len(mem.flags) THEN [mem.flags EXCEPT ![i + 1] = TRUE]
                  ELSE Append(mem.flags, TRUE)
             m == [mem EXCEPT !.rewrite = @ \union {Mounted(i)}, !.flags = f]
  <2>1. Mounted(i) \in Versions
    BY <1>8, MountedVersions DEF ChangePeer, Mismatch
  <2>2. ~ NeedsMaintenance /\ walk.step = "peers"
    BY <1>8, <1>2 DEF ChangePeer
  <2>3. f \in Seq(BOOLEAN) /\ f # << >>
    <3>1. mem.flags \in Seq(BOOLEAN) /\ i \in Nat /\ Len(mem.flags) \in Nat
      BY <1>2 DEF Statuses, Ordinals
    <3>2. f \in Seq(BOOLEAN) /\ Len(f) > 0
      <4>1. CASE i < Len(mem.flags)
        BY <3>1, <4>1
      <4>2. CASE ~ (i < Len(mem.flags))
        <5>1. f = Append(mem.flags, TRUE)
          BY <4>2
        <5> HIDE DEF f
        <5> QED
          BY <3>1, <5>1
      <4> QED
        BY <4>1, <4>2
    <3> HIDE DEF f
    <3>3. Len(<< >>) = 0
      OBVIOUS
    <3> QED
      BY <3>2, <3>3
  <2> HIDE DEF f
  <2>4. m \in Statuses /\ m.flags # << >> /\ m.rev = mem.rev
    BY <1>2, <2>1, <2>3 DEF Statuses
  <2>5. RotateTo(m, NextPeer) \/ StopWith("Error", mem)
    BY <1>8 DEF ChangePeer, f
  <2> HIDE DEF m
  <2>6. m.rev = "old" /\ m \in Remembered
    BY <1>2, <2>4 DEF Remembered
  <2> QED
    BY <1>2, <1>3, <1>4, <2>5, <2>6, RotateToBook, StopBook
<1> QED
  BY <1>1, <1>5, <1>6, <1>7, <1>8

LEMMA BookStep ==
  ASSUME TypeOK, BoundInv, KeysInv, WhereInv, BookInv, RotationNext
  PROVE  BookInv'
<1>0. /\ {status, mem} \subseteq Remembered /\ walk \in Walks /\ Shape(walk, mem)
      /\ mem \in Statuses /\ status \in Statuses /\ nsKey \in Keys
      /\ pc = "idle" => walk = NoWalk /\ mem = status
  BY DEF BookInv, KeysInv, Remembered
<1>1. CASE Start
  <2>1. /\ walk = NoWalk /\ pc' # "idle" /\ UNCHANGED <<mem, status>>
        /\ walk' = [walk EXCEPT !.cmSeen = cmReady] /\ cmReady \in BOOLEAN
    BY <1>0, <1>1 DEF Start, StartReconcile, Build, KeysInv
  <2> QED
    BY <1>0, <2>1 DEF BookInv, Shape, NoWalk, Walks
<1>2. CASE NoReplicationFactor
  BY <1>0, <1>2, StopBook DEF NoReplicationFactor
<1>3. CASE Create
  <2>1. [mem EXCEPT !.rev = IF @ = "none" THEN "seen" ELSE @] \in Remembered
    BY <1>0 DEF Remembered, Statuses
  <2> QED
    BY <1>3, <2>1, FreshWalk, HaveBook DEF Create
<1>4. CASE Apply \/ SkipApply
  <2> DEFINE w == [walk EXCEPT !.step = "revision"]
  <2>1. w \in Walks /\ Shape(w, mem)
    BY <1>4, <1>0 DEF Apply, SkipApply, Walks, Shape
  <2>2. CASE Apply
    BY <1>0, <2>1, <2>2, HaveBook DEF Apply
  <2>3. CASE SkipApply
    BY <1>0, <2>1, <2>3 DEF SkipApply, BookInv, vars, opVars
  <2> QED
    BY <1>4, <2>2, <2>3
<1>5. CASE CheckRevision
  <2>1. walk.step = "revision" /\ walk.step \in Early
    BY <1>5 DEF CheckRevision, Early
  <2>2. CASE mem.rev = "old"
    <3> DEFINE w == [walk EXCEPT !.step = "peers", !.key = nsKey]
    <3>1. w \in Walks /\ Shape(w, mem)
      BY <1>0, <2>1, <2>2 DEF Walks, Shape
    <3>2. RotateTo(mem, w)
      BY <1>5, <2>2 DEF CheckRevision
    <3> HIDE DEF w
    <3> QED
      BY <1>0, <2>1, <3>1, <3>2, RotateToBook
  <2>3. CASE mem.rev # "old"
    <3> DEFINE w == [walk EXCEPT !.step = "status"]
               m == [mem EXCEPT !.rev = "seen"]
    <3>1. w \in Walks /\ m \in Remembered /\ Shape(w, m)
      BY <1>0, <2>1, <2>3 DEF Walks, Statuses, Shape, Remembered
    <3>2. RotateTo(m, w)
      BY <1>5, <2>3 DEF CheckRevision
    <3> HIDE DEF w, m
    <3> QED
      BY <2>1, <3>1, <3>2, RotateToBook
  <2> QED
    BY <2>2, <2>3
<1>6. CASE RotatePeers
  BY <1>6, PeersBook
<1>7. CASE PeersChanged
  <2> DEFINE w == [walk EXCEPT !.step = "rewrite"]
  <2>1. w \in Walks /\ Shape(w, mem) /\ walk.step \in Early
    BY <1>0, <1>7 DEF PeersChanged, Walks, Shape, Early
  <2>2. RotateTo(mem, w)
    BY <1>7 DEF PeersChanged
  <2> HIDE DEF w
  <2> QED
    BY <1>0, <2>1, <2>2, RotateToBook
<1>8. CASE RewriteVersion
  <2>1. CASE StopWith("Error", mem)
    BY <1>0, <2>1, StopBook
  <2>2. CASE ~ StopWith("Error", mem)
    <3>1. PICK v : mem' = [mem EXCEPT !.rewrite = @ \ {v}]
      BY <1>8, <2>2 DEF RewriteVersion
    <3>2. pc' = pc /\ UNCHANGED <<status, walk>> /\ walk.step = "rewrite"
      BY <1>8, <2>2 DEF RewriteVersion, RewriteSecret, vars, opVars
    <3>3. mem' \in Remembered /\ mem'.rev = mem.rev
      BY <1>0, <3>1 DEF Remembered, Statuses
    <3>4. pc # "idle"
      BY <3>2 DEF WhereInv, Early
    <3> QED
      BY <1>0, <3>2, <3>3, <3>4 DEF BookInv, Shape
  <2> QED
    BY <2>1, <2>2
<1>9. CASE VersionsRewritten
  <2> DEFINE w == [walk EXCEPT !.step = "status"]
  <2>1. w \in Walks /\ Shape(w, mem) /\ walk.step \in Early
    BY <1>0, <1>9 DEF VersionsRewritten, Walks, Shape, Early
  <2>2. RotateTo(mem, w)
    BY <1>9 DEF VersionsRewritten
  <2> HIDE DEF w
  <2> QED
    BY <1>0, <2>1, <2>2, RotateToBook
<1>10. CASE UpdateStatus
  <2> DEFINE w == [walk EXCEPT !.step = "pods"]
             b == IF ~ walk.cmSeen THEN FALSE ELSE IF cmReady THEN maint ELSE mem.maint
             m == [mem EXCEPT !.maint = b]
  <2>1. w \in Walks /\ Shape(w, mem) /\ walk.step \in Early /\ walk.step = "status"
    BY <1>0, <1>10 DEF UpdateStatus, Walks, Shape, Early
  <2>2. b \in BOOLEAN
    BY <1>0 DEF KeysInv, Statuses
  <2>3. RotateTo(m, w) \/ StopWith("Pending", m)
    BY <1>10 DEF UpdateStatus
  <2> HIDE DEF w, b
  <2>4. m \in Remembered /\ m.rewrite = mem.rewrite /\ m.rev = mem.rev
    BY <1>0, <2>2 DEF Remembered, Statuses
  <2> HIDE DEF m
  <2>5. Shape(w, m)
    BY <2>1, <2>4 DEF Shape
  <2> QED
    BY <1>0, <2>1, <2>3, <2>4, <2>5, RotateToBook, StopBook
<1>11. CASE ManagePods
  BY <1>0, <1>11, HaveBook DEF ManagePods
<1>12. CASE AllReady
  <2>1. [rev |-> walk.nsRead, flags |-> << >>, rewrite |-> {},
         maint |-> mem.maint /\ mem.flags = << >>] \in Remembered
    <3>1. << >> \in Seq(BOOLEAN) /\ walk.nsRead \in {"seen", "old"}
      BY <1>0 DEF Walks
    <3> QED
      BY <3>1 DEF Remembered, Statuses
  <2> QED
    BY <1>12, <2>1, FreshWalk, HaveBook DEF AllReady
<1>13. CASE AllReadyButMaintenance
  BY <1>0, <1>13, FreshWalk, HaveBook DEF AllReadyButMaintenance
<1>14. CASE EditSecret
  <2>1. /\ pc' = pc
        /\ walk' = [walk EXCEPT !.nsRead = IF pc = "idle" THEN @ ELSE "old"]
        /\ status' = [status EXCEPT !.rev = IF @ = "seen" THEN "old" ELSE @]
        /\ mem' = [mem EXCEPT !.rev = IF @ = "seen" THEN "old" ELSE @]
    BY <1>14 DEF EditSecret, EditNamespaceSecret, opVars
  <2>2. {status', mem'} \subseteq Remembered
    BY <1>0, <2>1 DEF Remembered, Statuses
  <2>3. walk' \in Walks /\ (pc = "idle" => walk' = NoWalk)
    BY <1>0, <2>1 DEF Walks, NoWalk
  <2>4. Shape(walk', mem')
    BY <1>0, <2>1 DEF Shape, Walks, Statuses
  <2> QED
    BY <1>0, <2>1, <2>2, <2>3, <2>4 DEF BookInv, Shape
<1>15. CASE Elsewhere
  BY <1>15 DEF Elsewhere, SyncStatefulSet, EditResource, rotVars, opVars, BookInv, Shape
<1>16. CASE Fails
  BY <1>0, <1>16, HaveBook DEF Fails
<1>17. CASE Crashes
  BY <1>0, <1>17, FreshWalk DEF Crashes, Crash, BookInv, Shape
<1>18. CASE \/ ClusterMasterRecycled \/ ClusterMasterReturns
            \/ \E i \in Ordinals : SplunkStarted(i) \/ PodsGo(i)
  <2>1. pc' = pc /\ UNCHANGED <<status, mem, walk>>
    BY <1>18 DEF ClusterMasterRecycled, ClusterMasterReturns, SplunkStarted, PodsGo,
                 PodStarted, PodStopped, PodGone, SetPod, vars, opVars
  <2> QED
    BY <2>1 DEF BookInv, Shape
<1> QED
  BY <1>1, <1>2, <1>3, <1>4, <1>5, <1>6, <1>7, <1>8, <1>9, <1>10, <1>11, <1>12, <1>13, <1>14,
     <1>15, <1>16, <1>17, <1>18 DEF RotationNext, Operator

LEMMA KeysKept ==
  ASSUME KeysInv, UNCHANGED <<nsVars, data, latest, nsChanged, cmVars>>, run' \in {run, Running}
  PROVE  KeysInv'
BY DEF KeysInv, Running, nsVars, cmVars

LEMMA KeysStep ==
  ASSUME TypeOK, BoundInv, MountsInv, KeysInv, BookInv, RotationNext
  PROVE  KeysInv'
<1> USE DEF crVars, secretVars, kubeVars, opVars
<1>0. /\ nsKey \in Keys /\ nsOther \in BOOLEAN /\ cmKey \in Keys
      /\ cmReady \in BOOLEAN /\ maint \in BOOLEAN
      /\ data \in [Versions -> {0} \union Keys] /\ run \in [Ordinals -> {0} \union Keys]
      /\ nsChanged <=> latest = 0 \/ nsOther \/ data[latest] # nsKey
      /\ latest \in Nat /\ latest <= MaxSecrets /\ MaxSecrets \in Nat
      /\ Keys \subseteq {0} \union Keys
  BY RotationAssumption DEF KeysInv, TypeOK, BoundInv
<1>1. CASE Start
  <2>1. CASE nsChanged
    <3>1. /\ UNCHANGED <<nsKey, run, cmVars>> /\ nsOther' = FALSE /\ ~ nsChanged'
          /\ latest' = latest + 1 /\ data' = [data EXCEPT ![latest'] = nsKey]
      BY <1>1, <2>1 DEF Start, StartReconcile, ApplyVersionedSecret
    <3>2. latest' \in Versions /\ latest' # 0
      BY <1>0, <2>1, <3>1 DEF BoundInv, Versions
    <3>3. data' \in [Versions -> {0} \union Keys] /\ data'[latest'] = nsKey
      BY <1>0, <3>1, <3>2
    <3> QED
      BY <1>0, <3>1, <3>2, <3>3 DEF KeysInv, cmVars
  <2>2. CASE ~ nsChanged
    BY <1>0, <1>1, <2>2 DEF Start, StartReconcile, ApplyVersionedSecret, KeysInv, cmVars
  <2> QED
    BY <2>1, <2>2
<1>2. CASE NoReplicationFactor \/ Create \/ Apply \/ SkipApply
  <2>1. UNCHANGED <<nsVars, data, run, cmVars, latest, nsChanged>>
    BY <1>2 DEF NoReplicationFactor, StopWith, Create, CreateStatefulSet, Apply, UpdateTemplate,
                KeepTemplate, SkipApply, vars
  <2> QED
    BY <2>1, KeysKept
<1>3. CASE CheckRevision \/ PeersChanged \/ VersionsRewritten
  BY <1>3, KeysKept DEF CheckRevision, PeersChanged, VersionsRewritten, RotateTo, vars
<1>4. CASE RotatePeers
  <2>1. PICK i \in Ordinals :
          \/ PeerMissing(i) \/ PeerMatches(i) \/ EnableMaintenance(i)
          \/ SkipPeer(i) \/ ChangePeer(i)
    BY <1>4 DEF RotatePeers
  <2>2. ASSUME NEW m, NEW p, StopWith(p, m) PROVE KeysInv'
    BY <2>2, KeysKept DEF StopWith
  <2>3. CASE PeerMissing(i) \/ PeerMatches(i) \/ SkipPeer(i)
    BY <2>2, <2>3, KeysKept DEF PeerMissing, PeerMatches, SkipPeer, RotateTo, vars
  <2>4. CASE EnableMaintenance(i)
    <3>1. CASE UNCHANGED <<run, cmKey, cmReady, nsVars, data, latest, nsChanged>> /\ maint' = TRUE
      BY <1>0, <3>1 DEF KeysInv, nsVars
    <3> QED
      BY <2>2, <2>4, <3>1 DEF EnableMaintenance, RotateTo, vars
  <2>5. CASE ChangePeer(i)
    <3>1. walk.key \in {0} \union Keys
      BY <2>5 DEF ChangePeer, Mismatch, AtPeer, BookInv, Shape
    <3>2. CASE /\ run' = [run EXCEPT ![i] = walk.key]
               /\ UNCHANGED <<cmVars, nsVars, data, latest, nsChanged>>
      <4>1. run' \in [Ordinals -> {0} \union Keys]
        BY <1>0, <3>1, <3>2
      <4> QED
        BY <1>0, <3>2, <4>1 DEF KeysInv, nsVars, cmVars
    <3> QED
      BY <2>2, <2>5, <3>2 DEF ChangePeer, RotateTo, vars
  <2> QED
    BY <2>1, <2>3, <2>4, <2>5
<1>5. CASE RewriteVersion
  <2>1. CASE StopWith("Error", mem)
    BY <2>1, KeysKept DEF StopWith
  <2>2. CASE ~ StopWith("Error", mem)
    <3>1. PICK v \in secrets :
            /\ data' = [data EXCEPT ![v] = nsKey]
            /\ IF data' = data THEN UNCHANGED vars
               ELSE RewriteSecret /\ nsChanged' = IF v = latest THEN nsOther ELSE nsChanged
            /\ UNCHANGED <<nsVars, run, cmVars>>
      BY <1>5, <2>2 DEF RewriteVersion
    <3>2. v \in Versions /\ latest' = latest
      <4>1. 1 .. latest \subseteq 1 .. MaxSecrets
        BY <1>0
      <4> QED
        BY <3>1, <4>1 DEF BoundInv, Versions, RewriteSecret, vars
    <3>3. /\ data' \in [Versions -> {0} \union Keys]
          /\ data'[latest] = IF v = latest THEN nsKey ELSE data[latest]
      BY <1>0, <3>1, <3>2
    <3>4. nsChanged' <=> latest' = 0 \/ nsOther \/ data'[latest] # nsKey
      <4>1. CASE data' = data
        BY <1>0, <3>1, <3>2, <4>1 DEF vars
      <4>2. CASE data' # data
        <5>1. /\ latest # 0 /\ nsChanged' \in BOOLEAN
              /\ nsChanged' = IF v = latest THEN nsOther ELSE nsChanged
          BY <1>0, <3>1, <4>2 DEF RewriteSecret, TypeOK
        <5> QED
          BY <1>0, <3>2, <3>3, <5>1
      <4> QED
        BY <4>1, <4>2
    <3> QED
      BY <1>0, <3>1, <3>2, <3>3, <3>4 DEF KeysInv, nsVars, cmVars
  <2> QED
    BY <2>1, <2>2
<1>6. CASE UpdateStatus
  BY <1>6, KeysKept DEF UpdateStatus, RotateTo, StopWith, vars
<1>7. CASE ManagePods
  <2>1. UNCHANGED <<latest, nsChanged>>
    BY <1>7 DEF ManagePods, WaitForReplicas, ScaleUp, NoScaling, WaitForPod, DeleteClaim,
                ClaimNotFound, ClaimsDeleted, ScaleDown, RecyclePod, FinishPod
  <2> QED
    BY <1>7, <2>1, KeysKept DEF ManagePods
<1>8. CASE AllReady \/ AllReadyButMaintenance
  <2>1. UNCHANGED <<latest, nsChanged, nsVars, data, run, cmKey, cmReady>>
    BY <1>8 DEF AllReady, AllReadyButMaintenance, RemoveUnwantedSecrets, PublishError,
                ReadyStepFails, cmVars
  <2>2. maint' \in BOOLEAN
    BY <1>0, <1>8 DEF AllReady, AllReadyButMaintenance, cmVars
  <2> QED
    BY <1>0, <2>1, <2>2 DEF KeysInv, nsVars
<1>9. CASE EditSecret
  <2>1. /\ ~ nsChanged /\ nsChanged' /\ UNCHANGED <<latest, data, run, cmVars>>
        /\ \/ nsKey < MaxKeys /\ nsKey' = nsKey + 1 /\ UNCHANGED nsOther
           \/ nsOther' = TRUE /\ UNCHANGED nsKey
    BY <1>9 DEF EditSecret, EditNamespaceSecret
  <2>2. /\ nsKey' \in Keys /\ nsOther' \in BOOLEAN
        /\ nsOther' \/ data[latest] # nsKey'
    <3>1. data[latest] = nsKey /\ nsKey \in Int /\ MaxKeys \in Int /\ 1 <= nsKey
      BY <1>0, <2>1, RotationAssumption DEF Keys
    <3>2. CASE nsKey < MaxKeys /\ nsKey' = nsKey + 1 /\ UNCHANGED nsOther
      <4>1. nsKey' \in Keys /\ data[latest] # nsKey'
        BY <3>1, <3>2 DEF Keys
      <4> QED
        BY <1>0, <3>2, <4>1
    <3>3. CASE nsOther' = TRUE /\ UNCHANGED nsKey
      BY <1>0, <3>3
    <3> QED
      BY <2>1, <3>2, <3>3
  <2>3. nsChanged' <=> latest' = 0 \/ nsOther' \/ data'[latest'] # nsKey'
    BY <2>1, <2>2
  <2> QED
    BY <1>0, <2>1, <2>2, <2>3 DEF KeysInv, cmVars
<1>10. CASE Elsewhere
  BY <1>10, KeysKept DEF Elsewhere, SyncStatefulSet, EditResource, rotVars
<1>11. CASE Fails
  <2>1. UNCHANGED <<latest, nsChanged>>
    BY <1>11 DEF Fails, ApiError, PruneError, PublishError, PodFails, PodEvicted, SetPod
  <2> QED
    BY <1>11, <2>1, KeysKept DEF Fails
<1>12. CASE Crashes
  BY <1>12, KeysKept DEF Crashes, Crash
<1>13. CASE ClusterMasterRecycled \/ ClusterMasterReturns
  <2>1. /\ UNCHANGED <<latest, nsChanged, nsKey, nsOther, data, run, maint>>
        /\ cmKey' \in {cmKey, nsKey} /\ cmReady' \in BOOLEAN
    BY <1>13 DEF ClusterMasterRecycled, ClusterMasterReturns, vars, nsVars
  <2> QED
    BY <1>0, <2>1 DEF KeysInv
<1>14. ASSUME NEW i \in Ordinals, SplunkStarted(i) PROVE KeysInv'
  <2>1. /\ UNCHANGED <<latest, nsChanged, nsVars, data, cmVars>> /\ pods[i].state # "absent"
        /\ run' = [run EXCEPT ![i] = data[Mounted(i)]]
    BY <1>14 DEF SplunkStarted, PodStarted, SetPod
  <2>2. Mounted(i) \in Versions
    <3>1. sts.template.secret \in 1 .. latest /\ Mounted(i) \in 1 .. sts.template.secret
      BY <2>1 DEF MountsInv, Mounted
    <3> QED
      BY <1>0, <3>1 DEF Versions
  <2>3. run' \in [Ordinals -> {0} \union Keys]
    BY <1>0, <2>1, <2>2
  <2> QED
    BY <1>0, <2>1, <2>3 DEF KeysInv, nsVars, cmVars
<1>15. ASSUME NEW i \in Ordinals, PodsGo(i) PROVE KeysInv'
  BY <1>15, KeysKept DEF PodsGo, PodStopped, PodGone, SetPod
<1> QED
  BY <1>1, <1>2, <1>3, <1>4, <1>5, <1>6, <1>7, <1>8, <1>9, <1>10, <1>11, <1>12, <1>13, <1>14,
     <1>15 DEF RotationNext, Operator

\* What holds of every behaviour, whatever fails and whatever the user does.
RotationInv ==
  PodsInv /\ WhereInv /\ BoundInv /\ MountsInv /\ KeysInv /\ BookInv

LEMMA RotationInvInit == RotationInit => BoundInv /\ MountsInv /\ KeysInv /\ BookInv
<1> SUFFICES ASSUME RotationInit PROVE BoundInv /\ MountsInv /\ KeysInv /\ BookInv
  OBVIOUS
<1>1. BoundInv
  BY RotationAssumption DEF RotationInit, Init, BoundInv
<1>2. MountsInv
  BY DEF RotationInit, Init, MountsInv, NoStatefulSet, NoPod
<1>3. KeysInv
  <2>1. 1 \in Keys
    BY RotationAssumption DEF Keys
  <2>2. nsChanged <=> latest = 0 \/ nsOther \/ data[latest] # nsKey
    BY DEF RotationInit, Init
  <2> QED
    BY <2>1, <2>2 DEF RotationInit, KeysInv
<1>4. status \in Remembered
  <2>1. << >> \in Seq(BOOLEAN)
    OBVIOUS
  <2> QED
    BY <2>1 DEF RotationInit, Remembered, Statuses
<1>5. BookInv
  BY <1>4, FreshWalk DEF RotationInit, BookInv
<1> QED
  BY <1>1, <1>2, <1>3, <1>5

LEMMA RotationInvStutters ==
  ASSUME KeysInv, BookInv, UNCHANGED idxcVars
  PROVE  KeysInv' /\ BookInv'
<1>1. UNCHANGED <<latest, nsChanged, pc, nsKey, nsOther, data, run, cmKey, cmReady, maint>>
      /\ UNCHANGED <<status, mem, walk>>
  BY DEF idxcVars, vars, rotVars, crVars, secretVars, opVars, nsVars, cmVars
<1> QED
  BY <1>1 DEF KeysInv, BookInv, Shape

\* For any number of replicas, versions, keys and faults, the reconcile and the objects it
\* writes stay as these invariants describe them.
THEOREM RotationInvariant == RotationSpec => []RotationInv
<1>1. RotationSpec => []PodsInv
  BY RotationImplementsPods, PodsInvariant, PTL DEF ImplementsPods
<1>2. RotationSpec => [][Next]_vars
  BY RotationImplementsPods, PTL DEF ImplementsPods, Spec
<1>3. RotationSpec => []WhereInv
  BY WalkInit, WalkStep, PTL DEF RotationSpec
<1> DEFINE J == BoundInv /\ MountsInv /\ KeysInv /\ BookInv
<1>4. PodsInv /\ WhereInv /\ J /\ [Next]_vars /\ [RotationNext]_idxcVars => J'
  <2> SUFFICES ASSUME PodsInv, WhereInv, J, [Next]_vars, [RotationNext]_idxcVars PROVE J'
    OBVIOUS
  <2>1. TypeOK
    BY DEF PodsInv
  <2>2. BoundInv' /\ MountsInv'
    BY <2>1, BoundStep, MountsStep
  <2>3. KeysInv' /\ BookInv'
    BY <2>1, KeysStep, BookStep, RotationInvStutters
  <2> QED
    BY <2>2, <2>3
<1>5. RotationInit => J
  BY RotationInvInit
<1>6. RotationSpec => []J
  <2> HIDE DEF J
  <2> QED
    BY <1>1, <1>2, <1>3, <1>4, <1>5, PTL DEF RotationSpec
<1> QED
  BY <1>1, <1>3, <1>6, PTL DEF RotationInv

\* Types, and the resource is up to date with the namespace secret exactly when the latest
\* version has its tokens: whatever fails and whatever the user does.
THEOREM RotationTypeCorrect == RotationSpec => []RotationTypeOK
<1>1. RotationInv => RotationTypeOK
  BY DEF RotationInv, KeysInv, BookInv, Remembered, RotationTypeOK
<1> QED
  BY <1>1, RotationInvariant, PTL

-----------------------------------------------------------------------------
(***************************************************************************)
(* The course of a rotation, for a user who waits for the last change      *)
(***************************************************************************)

\* What is remembered of a rotation is forgotten in memory and in the status.
Cleared(m) == m.flags = << >> /\ m.rewrite = {} /\ ~ m.maint

\* The user gives idxc_secret another value only after that.
AfterTheLast == nsKey' # nsKey => Cleared(status) /\ Cleared(mem)

\* The versions that pods mount, or will.
InPlay ==
  {s \in 1 .. latest :
     \/ s = latest
     \/ sts.exists /\ s = sts.template.secret
     \/ \E i \in Ordinals : pods[i].state # "absent" /\ s = Mounted(i)}

Stale(s) == data[s] # nsKey

Outstanding == \E s \in InPlay : Stale(s)

\* A pod that is not ready has no splunkd.
RunInv == \A i \in Ordinals : pods[i].state # "ready" => run[i] = 0

\* Only the oldest version in play can have an old key.
OldestInv == \A s, t \in InPlay : s < t => ~ Stale(t)

\* Once a peer was changed, the version with the old key is to be rewritten; and while
\* there is one, maintenance mode is what the operator believes.
KnownInv ==
  \A m \in {mem, status} :
    /\ m.flags # << >> => \A s \in InPlay : Stale(s) => s \in m.rewrite
    /\ Outstanding /\ (m.flags # << >> \/ m.maint) => maint

\* The first n pods mount the namespace secret's key, and so will their successors.
Passed(n) ==
  /\ sts.exists /\ ~ Stale(sts.template.secret)
  /\ \A i \in Ordinals : i < n /\ pods[i].state # "absent" => ~ Stale(Mounted(i))

Covered ==
  \/ \A s \in InPlay : Stale(s) => s \in mem.rewrite
  \/ Passed(walk.at)

\* What the loops of ApplyIdxcSecret have seen to.  A key that was read before the last
\* change is the one that every pod mounts.
CourseInv ==
  /\ walk.key <= nsKey
  /\ walk.step \in {"rewrite", "status"} /\ walk.key # 0 => walk.at = req.replicas
  /\ walk.step \in {"peers", "rewrite"} /\ walk.key # nsKey
     => mem.flags = << >> /\ \A s \in InPlay : data[s] = walk.key
  /\ walk.step \in {"peers", "rewrite", "status"} /\ walk.key = nsKey /\ walk.at > 0 => Covered

PassInv == RunInv /\ OldestInv /\ KnownInv /\ CourseInv

\* No version in play becomes stale, and none but the latest comes into play.
Calm ==
  \A s \in InPlay' :
    /\ s \in InPlay \/ s = latest'
    /\ data'[s] # nsKey' => s \in InPlay /\ Stale(s)

LEMMA InPlayMembers ==
  ASSUME TypeOK, MountsInv
  PROVE  /\ latest # 0 => latest \in InPlay
         /\ sts.exists => sts.template.secret \in InPlay
         /\ \A i \in Ordinals : pods[i].state # "absent" => Mounted(i) \in InPlay
         /\ InPlay \subseteq Int
<1>1. latest \in Nat /\ InPlay \subseteq 1 .. latest
  BY DEF TypeOK, InPlay
<1>2. sts.exists => 1 .. sts.template.secret \subseteq 1 .. latest
  BY <1>1 DEF MountsInv
<1>3. \A i \in Ordinals : pods[i].state # "absent" => Mounted(i) \in 1 .. latest
  BY <1>2 DEF MountsInv, Mounted
<1> QED
  BY <1>1, <1>3 DEF InPlay, MountsInv

\* What pods mount after a step was in play before it.
LEMMA PlayStep ==
  ASSUME PodsInv, MountsInv, [Next]_vars
  PROVE  /\ \A s \in InPlay' : s \in InPlay \/ s = latest'
         /\ latest' # latest => latest' = latest + 1 /\ pc = "idle" /\ ~ nsChanged'
<1>1. PodsFollow /\ TemplateFollows /\ LatestFollows
  BY WhatChanges
<1>2. TypeOK
  BY DEF PodsInv
<1>3. latest' \in {latest, latest + 1} /\ (latest' # latest => pc = "idle" /\ ~ nsChanged')
  BY <1>1 DEF LatestFollows
<1>4. ASSUME NEW s \in InPlay' PROVE s \in InPlay \/ s = latest'
  <2>1. \/ s = latest'
        \/ sts'.exists /\ s = sts'.template.secret
        \/ \E i \in Ordinals : pods'[i].state # "absent" /\ s = pods'[i].rev.secret
    BY <1>4 DEF InPlay, Mounted
  <2>2. CASE sts'.exists /\ s = sts'.template.secret
    <3>1. CASE UNCHANGED <<sts.exists, sts.template>>
      BY <1>2, <2>2, <3>1, InPlayMembers
    <3>2. CASE pc = "apply" /\ sts'.template = req.template /\ pc' # "apply"
      <4>1. latest' = latest
        BY <1>1, <3>2 DEF LatestFollows
      <4> QED
        BY <2>2, <3>2, <4>1 DEF MountsInv
    <3> QED
      BY <1>1, <3>1, <3>2 DEF TemplateFollows
  <2>3. ASSUME NEW i \in Ordinals, pods'[i].state # "absent", s = pods'[i].rev.secret
        PROVE  s \in InPlay
    <3>1. \/ pods[i].state # "absent" /\ pods'[i].rev = pods[i].rev
          \/ sts.exists /\ pods'[i].rev = sts.template
      BY <1>1, <2>3 DEF PodsFollow, NoPod
    <3> QED
      BY <1>2, <2>3, <3>1, InPlayMembers DEF Mounted
  <2> QED
    BY <2>1, <2>2, <2>3
<1> QED
  BY <1>3, <1>4

\* Versions get the key of the namespace secret, if another.
LEMMA DataStep ==
  ASSUME TypeOK, BoundInv, KeysInv, RotationNext
  PROVE  \A s \in Versions : data'[s] = data[s] \/ (data'[s] = nsKey /\ nsKey' = nsKey)
<1>0. data \in [Versions -> {0} \union Keys]
  BY DEF KeysInv
<1>1. CASE Start
  BY <1>0, <1>1 DEF Start
<1>2. CASE RewriteVersion
  <2>1. CASE StopWith("Error", mem)
    BY <2>1 DEF StopWith
  <2>2. CASE ~ StopWith("Error", mem)
    <3>1. nsKey' = nsKey /\ \E v \in mem.rewrite : data' = [data EXCEPT ![v] = nsKey]
      BY <1>2, <2>2 DEF RewriteVersion, nsVars
    <3> QED
      BY <1>0, <3>1
  <2> QED
    BY <2>1, <2>2
<1>3. CASE RotatePeers
  BY <1>3 DEF RotatePeers, PeerMissing, PeerMatches, EnableMaintenance, SkipPeer, ChangePeer,
              RotateTo, StopWith
<1>4. CASE ~ Start /\ ~ RewriteVersion /\ ~ RotatePeers
  <2>1. data' = data
    <3>1. CASE NoReplicationFactor \/ Create \/ Apply \/ SkipApply \/ CheckRevision
               \/ PeersChanged \/ VersionsRewritten \/ UpdateStatus
      BY <3>1 DEF NoReplicationFactor, Create, Apply, SkipApply, CheckRevision, PeersChanged,
                  VersionsRewritten, UpdateStatus, RotateTo, StopWith
    <3>2. CASE ManagePods \/ AllReady \/ AllReadyButMaintenance
      BY <3>2 DEF ManagePods, AllReady, AllReadyButMaintenance
    <3>3. CASE EditSecret \/ Elsewhere \/ Fails \/ Crashes
               \/ ClusterMasterRecycled \/ ClusterMasterReturns
      BY <3>3 DEF EditSecret, Elsewhere, Fails, Crashes, ClusterMasterRecycled,
                  ClusterMasterReturns, rotVars
    <3>4. CASE \E i \in Ordinals : SplunkStarted(i) \/ PodsGo(i)
      BY <3>4 DEF SplunkStarted, PodsGo
    <3> QED
      BY <1>4, <3>1, <3>2, <3>3, <3>4 DEF RotationNext, Operator
  <2> QED
    BY <2>1
<1> QED
  BY <1>1, <1>2, <1>3, <1>4

LEMMA CalmStep ==
  ASSUME RotationInv, RotationInv', [Next]_vars, RotationNext, nsKey' = nsKey
  PROVE  Calm
<1>0. /\ TypeOK /\ TypeOK' /\ BoundInv' /\ KeysInv'
      /\ latest \in Nat /\ latest' \in Nat /\ MaxSecrets \in Nat /\ latest' <= MaxSecrets
  BY RotationAssumption DEF RotationInv, PodsInv, TypeOK, BoundInv
<1>1. /\ \A s \in InPlay' : s \in InPlay \/ s = latest'
      /\ latest' # latest => latest' = latest + 1 /\ ~ nsChanged'
  BY PlayStep DEF RotationInv
<1>2. ASSUME NEW s \in InPlay', data'[s] # nsKey' PROVE s \in InPlay /\ Stale(s)
  <2>1. s \in 1 .. latest' /\ s \in Versions
    BY <1>0, <1>2 DEF InPlay, Versions
  <2>2. data'[s] = data[s]
    BY <1>2, <2>1, DataStep DEF RotationInv, PodsInv
  <2>3. latest' # latest => s # latest'
    BY <1>1, <1>2 DEF RotationInv, KeysInv
  <2>4. s = latest => s \in InPlay
    BY <1>0, <1>1, <2>1, <2>3 DEF InPlay
  <2>5. s \in InPlay
    BY <1>1, <2>3, <2>4, <1>2
  <2> QED
    BY <1>2, <2>2, <2>5 DEF Stale
<1> QED
  BY <1>1, <1>2 DEF Calm

LEMMA OldestKept ==
  ASSUME TypeOK', OldestInv, Calm
  PROVE  OldestInv'
<1> SUFFICES ASSUME NEW s \in InPlay', NEW t \in InPlay', s < t, data'[t] # nsKey' PROVE FALSE
  BY DEF OldestInv, Stale
<1>1. t \in InPlay /\ Stale(t) /\ s \notin InPlay /\ s = latest'
  BY DEF Calm, OldestInv
<1>2. latest' \in Nat /\ t \in 1 .. latest'
  BY DEF TypeOK, InPlay
<1> QED
  BY <1>1, <1>2

\* KnownInv, of what is remembered after a step.
KnownNext(m) ==
  /\ m.flags # << >> => \A s \in InPlay' : data'[s] # nsKey' => s \in m.rewrite
  /\ (\E s \in InPlay' : data'[s] # nsKey') /\ (m.flags # << >> \/ m.maint) => maint'

\* What is known stays true when the reconcile forgets it, or remembers more.
LEMMA KnownFollows ==
  ASSUME KnownInv, Calm, maint => maint', NEW m, NEW n \in {mem, status},
         m.flags # << >>
         => n.flags # << >> /\ \A s \in n.rewrite : s \in m.rewrite \/ data'[s] = nsKey',
         m.maint => n.maint \/ maint'
  PROVE  KnownNext(m)
<1>1. /\ n.flags # << >> => \A s \in InPlay : Stale(s) => s \in n.rewrite
      /\ Outstanding /\ (n.flags # << >> \/ n.maint) => maint
  BY DEF KnownInv
<1>2. (\E s \in InPlay' : data'[s] # nsKey') => Outstanding
  BY DEF Calm, Outstanding
<1> QED
  BY <1>1, <1>2 DEF Calm, KnownNext

LEMMA KnownAll ==
  ASSUME KnownNext(mem'), KnownNext(status')
  PROVE  KnownInv'
BY DEF KnownNext, KnownInv, Outstanding, Stale

LEMMA KnownSame ==
  ASSUME KnownInv, Calm, maint => maint', NEW m, {mem', status'} \subseteq {m, mem, status},
         m.flags # << >>
         => mem.flags # << >> /\ \A s \in mem.rewrite : s \in m.rewrite \/ data'[s] = nsKey',
         m.maint => mem.maint \/ maint'
  PROVE  KnownInv'
<1>1. KnownNext(m)
  BY KnownFollows
<1>2. \A n \in {mem, status} : KnownNext(n)
  BY KnownFollows
<1> QED
  BY <1>1, <1>2, KnownAll

\* Where ApplyIdxcSecret is not under way, there is no loop to speak of.
LEMMA CourseFree ==
  ASSUME walk'.step \notin {"peers", "rewrite", "status"}, walk'.key <= nsKey'
  PROVE  CourseInv'
BY DEF CourseInv

LEMMA CourseKept ==
  ASSUME RotationInv, CourseInv, Calm, [Next]_vars,
         UNCHANGED <<nsKey, latest, req, sts.exists, sts.template>>,
         UNCHANGED <<walk.step, walk.at, walk.key, mem.flags, mem.rewrite>>,
         data' = data
  PROVE  CourseInv'
<1>1. PodsFollow
  BY WhatChanges DEF RotationInv
<1>2. \A s \in InPlay' : s \in InPlay
  <2>1. TypeOK /\ \A s \in InPlay' : s \in InPlay \/ (s = latest /\ s \in 1 .. latest)
    BY DEF Calm, RotationInv, PodsInv, InPlay
  <2> QED
    BY <2>1 DEF InPlay
<1>3. Covered => Covered'
  <2>1. (\A s \in InPlay : Stale(s) => s \in mem.rewrite)
        => (\A s \in InPlay' : Stale(s)' => s \in mem'.rewrite)
    BY <1>2 DEF Stale
  <2>2. ASSUME NEW n, Passed(n)
        PROVE  /\ sts'.exists /\ data'[sts'.template.secret] = nsKey'
               /\ \A i \in Ordinals : i < n /\ pods'[i].state # "absent"
                                      => data'[pods'[i].rev.secret] = nsKey'
    <3>1. ASSUME NEW i \in Ordinals, i < n, pods'[i].state # "absent"
          PROVE  data'[pods'[i].rev.secret] = nsKey'
      <4>1. \/ pods[i].state # "absent" /\ pods'[i].rev = pods[i].rev
            \/ sts.exists /\ pods'[i].rev = sts.template
        BY <1>1, <3>1 DEF PodsFollow, NoPod
      <4> QED
        BY <2>2, <3>1, <4>1 DEF Passed, Stale, Mounted
    <3> QED
      BY <2>2, <3>1 DEF Passed, Stale
  <2>3. Passed(walk.at) => Passed(walk.at)'
    BY <2>2 DEF Passed, Stale, Mounted
  <2> QED
    BY <2>1, <2>3 DEF Covered
<1> QED
  BY <1>2, <1>3 DEF CourseInv

LEMMA RunStep ==
  ASSUME RotationInv, RunInv, RotationNext
  PROVE  RunInv'
<1> USE DEF kubeVars
<1>0. TypeOK /\ pods \in [Ordinals -> Pods] /\ run \in [Ordinals -> {0} \union Keys]
  BY DEF RotationInv, PodsInv, TypeOK, KeysInv
<1>1. ASSUME UNCHANGED <<pods, run>> PROVE RunInv'
  BY <1>1 DEF RunInv
<1>2. ASSUME run' = Running PROVE RunInv'
  BY <1>2 DEF RunInv, Running
<1>3. ASSUME run' = run, \A i \in Ordinals : pods[i].state = "ready" => pods'[i].state = "ready"
      PROVE  RunInv'
  BY <1>3 DEF RunInv
<1>4. CASE Start \/ NoReplicationFactor \/ Create \/ Apply \/ SkipApply
  BY <1>1, <1>4 DEF Start, StartReconcile, Build, NoReplicationFactor, StopWith, Create,
                    CreateStatefulSet, Apply, UpdateTemplate, KeepTemplate, SkipApply, vars
<1>5. CASE CheckRevision \/ PeersChanged \/ VersionsRewritten \/ UpdateStatus
  BY <1>1, <1>5 DEF CheckRevision, PeersChanged, VersionsRewritten, UpdateStatus, RotateTo,
                    StopWith, vars
<1>6. CASE RotatePeers
  <2>1. PICK i \in Ordinals :
          \/ PeerMissing(i) \/ PeerMatches(i) \/ EnableMaintenance(i)
          \/ SkipPeer(i) \/ ChangePeer(i)
    BY <1>6 DEF RotatePeers
  <2>2. CASE PeerMissing(i) \/ PeerMatches(i) \/ EnableMaintenance(i) \/ SkipPeer(i)
    BY <1>1, <2>2 DEF PeerMissing, PeerMatches, EnableMaintenance, SkipPeer, RotateTo, StopWith,
                      vars
  <2>3. CASE ChangePeer(i)
    <3>1. pods' = pods
      BY <2>3 DEF ChangePeer, RotateTo, StopWith, vars
    <3>2. run' = run \/ (pods[i].state = "ready" /\ run' = [run EXCEPT ![i] = walk.key])
      BY <2>3 DEF ChangePeer, StopWith
    <3> QED
      BY <1>0, <1>1, <3>1, <3>2 DEF RunInv
  <2> QED
    BY <2>1, <2>2, <2>3
<1>7. CASE RewriteVersion
  BY <1>1, <1>7 DEF RewriteVersion, RewriteSecret, StopWith, vars
<1>8. CASE ManagePods
  <2>1. run' = run /\ ord \in Ordinals
        /\ (pods' = pods \/ pods' = [pods EXCEPT ![ord].deleting = TRUE])
    BY <1>0, <1>8 DEF ManagePods, WaitForReplicas, ScaleUp, NoScaling, WaitForPod, DeleteClaim,
                      ClaimNotFound, ClaimsDeleted, ScaleDown, RecyclePod, FinishPod, TypeOK
  <2>2. \A i \in Ordinals : pods[i] \in Pods
    BY <1>0
  <2>3. \A i \in Ordinals : pods'[i].state = pods[i].state
    BY <1>0, <2>1, <2>2 DEF Pods
  <2> QED
    BY <1>3, <2>1, <2>3
<1>9. CASE AllReady \/ AllReadyButMaintenance
  BY <1>1, <1>9 DEF AllReady, AllReadyButMaintenance, RemoveUnwantedSecrets, PublishError,
                    ReadyStepFails
<1>10. CASE EditSecret \/ Crashes \/ ClusterMasterRecycled \/ ClusterMasterReturns
  BY <1>1, <1>10 DEF EditSecret, EditNamespaceSecret, Crashes, Crash, ClusterMasterRecycled,
                     ClusterMasterReturns, vars
<1>11. CASE Elsewhere
  <2>1. CASE EditResource
    BY <1>1, <1>11, <2>1 DEF Elsewhere, EditResource, rotVars
  <2>2. CASE SyncStatefulSet
    <3>1. ASSUME NEW i \in Ordinals, pods[i].state = "ready" PROVE pods'[i].state = "ready"
      <4>1. i \notin MissingPods /\ pods[i] \in Pods
        BY <1>0, <3>1 DEF MissingPods
      <4> QED
        BY <2>2, <3>1, <4>1 DEF SyncStatefulSet, Pods
    <3> QED
      BY <1>3, <1>11, <3>1 DEF Elsewhere, rotVars
  <2> QED
    BY <1>11, <2>1, <2>2 DEF Elsewhere
<1>12. CASE Fails \/ \E i \in Ordinals : PodsGo(i)
  BY <1>2, <1>12 DEF Fails, PodsGo
<1>13. ASSUME NEW i \in Ordinals, SplunkStarted(i) PROVE RunInv'
  <2>1. /\ pods' = [pods EXCEPT ![i] = [pods[i] EXCEPT !.state = "ready"]] /\ pods[i] \in Pods
        /\ run' = [run EXCEPT ![i] = data[Mounted(i)]]
    BY <1>0, <1>13 DEF SplunkStarted, PodStarted, SetPod
  <2>2. pods'[i].state = "ready" /\ \A j \in Ordinals : j # i => pods'[j] = pods[j]
    BY <1>0, <2>1 DEF Pods
  <2> QED
    BY <1>0, <2>1, <2>2 DEF RunInv
<1> QED
  BY <1>4, <1>5, <1>6, <1>7, <1>8, <1>9, <1>10, <1>11, <1>12, <1>13 DEF RotationNext, Operator

\* The key that was read is one the namespace secret has, or had.
LEMMA KeyReadStep ==
  ASSUME RotationInv, walk.key <= nsKey, RotationNext
  PROVE  walk'.key <= nsKey'
<1>0. walk \in Walks /\ nsKey \in Nat /\ nsKey >= 1 /\ walk.key \in Int
  BY RotationAssumption DEF RotationInv, BookInv, KeysInv, Walks, Keys
<1>1. NoWalk.key = 0
  BY DEF NoWalk
<1>2. ASSUME nsKey' = nsKey \/ nsKey' = nsKey + 1, walk'.key \in {0, walk.key, nsKey}
      PROVE  walk'.key <= nsKey'
  BY <1>0, <1>2
<1>3. ASSUME NEW m, NEW w, Have(m, w), nsKey' = nsKey, w.key = walk.key \/ w.key = 0
      PROVE  walk'.key <= nsKey'
  BY <1>1, <1>2, <1>3 DEF Have
<1>4. ASSUME NEW m, NEW w, RotateTo(m, w), w.key \in {0, walk.key, nsKey}
      PROVE  walk'.key <= nsKey'
  BY <1>2, <1>4 DEF RotateTo, nsVars
<1>5. ASSUME NEW m, NEW p, StopWith(p, m) PROVE walk'.key <= nsKey'
  BY <1>1, <1>3, <1>5 DEF StopWith, nsVars
<1>6. CASE Start
  BY <1>0, <1>2, <1>6 DEF Start, Walks
<1>7. CASE Apply \/ SkipApply
  <2>1. [walk EXCEPT !.step = "revision"].key = walk.key
    BY <1>0 DEF Walks
  <2> QED
    BY <1>2, <1>3, <1>7, <2>1 DEF Apply, SkipApply, nsVars
<1>8. CASE CheckRevision \/ PeersChanged \/ VersionsRewritten
  <2>1. /\ [walk EXCEPT !.step = "peers", !.key = nsKey].key = nsKey
        /\ [walk EXCEPT !.step = "status"].key = walk.key
        /\ [walk EXCEPT !.step = "rewrite"].key = walk.key
    BY <1>0 DEF Walks
  <2> QED
    BY <1>4, <1>8, <2>1 DEF CheckRevision, PeersChanged, VersionsRewritten
<1>9. CASE RotatePeers
  <2>1. NextPeer.key = walk.key
    BY <1>0 DEF NextPeer, Walks
  <2> QED
    BY <1>4, <1>5, <1>9, <2>1 DEF RotatePeers, PeerMissing, PeerMatches, EnableMaintenance,
                                  SkipPeer, ChangePeer
<1>10. CASE RewriteVersion
  <2>1. StopWith("Error", mem) \/ UNCHANGED <<nsKey, walk>>
    BY <1>10 DEF RewriteVersion, nsVars
  <2> QED
    BY <1>2, <1>5, <2>1
<1>11. CASE UpdateStatus
  <2>1. [walk EXCEPT !.step = "pods"].key = walk.key
    BY <1>0 DEF Walks
  <2> QED
    BY <1>4, <1>5, <1>11, <2>1 DEF UpdateStatus
<1>12. CASE NoReplicationFactor
  BY <1>5, <1>12 DEF NoReplicationFactor
<1>13. CASE Create \/ ManagePods \/ AllReady \/ AllReadyButMaintenance
  BY <1>1, <1>3, <1>13 DEF Create, ManagePods, AllReady, AllReadyButMaintenance, nsVars
<1>14. CASE EditSecret
  BY <1>0, <1>2, <1>14 DEF EditSecret, Walks
<1>15. CASE Elsewhere \/ Fails \/ Crashes
  BY <1>1, <1>2, <1>3, <1>15 DEF Elsewhere, Fails, Crashes, rotVars, nsVars
<1>16. CASE \/ ClusterMasterRecycled \/ ClusterMasterReturns
            \/ \E i \in Ordinals : SplunkStarted(i) \/ PodsGo(i)
  BY <1>2, <1>16 DEF ClusterMasterRecycled, ClusterMasterReturns, SplunkStarted, PodsGo, nsVars
<1> QED
  BY <1>6, <1>7, <1>8, <1>9, <1>10, <1>11, <1>12, <1>13, <1>14, <1>15, <1>16
     DEF RotationNext, Operator

LEMMA HaveMem ==
  ASSUME NEW m, NEW w, Have(m, w)
  PROVE  {mem', status'} \subseteq {m, status}
BY DEF Have

LEMMA StopMem ==
  ASSUME KnownInv, Calm, NEW p, StopWith(p, mem)
  PROVE  KnownInv'
<1>1. {mem', status'} \subseteq {mem, status} /\ maint' = maint
  BY HaveMem DEF StopWith, cmVars
<1> QED
  BY <1>1, KnownSame

LEMMA RotateToMem ==
  ASSUME KnownInv, Calm, NEW w, RotateTo(mem, w), maint' = maint
  PROVE  KnownInv'
BY KnownSame DEF RotateTo

\* The version of a peer that does not match is stale, the only one, and ApplyIdxcSecret
\* has read the key it is to get.
LEMMA MismatchIsStale ==
  ASSUME RotationInv, OldestInv, CourseInv, NEW i \in Ordinals, Mismatch(i)
  PROVE  /\ Mounted(i) \in InPlay /\ Stale(Mounted(i)) /\ walk.key = nsKey
         /\ \A s \in InPlay : Stale(s) => s = Mounted(i)
<1>0. TypeOK /\ MountsInv
  BY DEF RotationInv, PodsInv
<1>1. /\ pods[i].state # "absent" /\ data[Mounted(i)] # walk.key /\ walk.step = "peers"
  BY DEF Mismatch, HasSecret, AtPeer
<1>2. Mounted(i) \in InPlay /\ InPlay \subseteq Int
  BY <1>0, <1>1, InPlayMembers
<1>3. walk.key = nsKey
  BY <1>1, <1>2 DEF CourseInv
<1>4. Stale(Mounted(i))
  BY <1>1, <1>3 DEF Stale
<1>5. ASSUME NEW s \in InPlay, Stale(s), s # Mounted(i) PROVE FALSE
  <2>1. s \in Int /\ Mounted(i) \in Int
    BY <1>2, <1>5
  <2>2. s < Mounted(i) \/ Mounted(i) < s
    BY <1>5, <2>1
  <2> QED
    BY <1>2, <1>4, <1>5, <2>2 DEF OldestInv
<1> QED
  BY <1>2, <1>3, <1>4, <1>5

LEMMA PeersKnown ==
  ASSUME RotationInv, OldestInv, KnownInv, CourseInv, Calm, RotatePeers
  PROVE  KnownInv'
<1>0. mem \in Statuses
  BY DEF RotationInv, BookInv, Remembered
<1>1. PICK i \in Ordinals :
        \/ PeerMissing(i) \/ PeerMatches(i) \/ EnableMaintenance(i)
        \/ SkipPeer(i) \/ ChangePeer(i)
  BY DEF RotatePeers
<1>2. CASE PeerMissing(i) \/ PeerMatches(i) \/ SkipPeer(i)
  BY <1>2, StopMem, RotateToMem DEF PeerMissing, PeerMatches, SkipPeer, cmVars
<1>3. CASE EnableMaintenance(i)
  <2>1. CASE StopWith("Error", mem)
    BY <2>1, StopMem
  <2>2. CASE maint' = TRUE /\ RotateTo([mem EXCEPT !.maint = TRUE], walk)
    <3> DEFINE m == [mem EXCEPT !.maint = TRUE]
    <3>1. m.flags = mem.flags /\ m.rewrite = mem.rewrite
      BY <1>0 DEF Statuses
    <3>2. {mem', status'} \subseteq {m, mem, status}
      BY <2>2 DEF RotateTo
    <3> HIDE DEF m
    <3> QED
      BY <2>2, <3>1, <3>2, KnownSame
  <2> QED
    BY <1>3, <2>1, <2>2 DEF EnableMaintenance
<1>4. CASE ChangePeer(i)
  <2>1. CASE StopWith("Error", mem)
    BY <2>1, StopMem
  <2>2. CASE ~ StopWith("Error", mem)
    <3> DEFINE f == IF i < Len(mem.flags) THEN [mem.flags EXCEPT ![i + 1] = TRUE]
                    ELSE Append(mem.flags, TRUE)
               m == [mem EXCEPT !.rewrite = @ \union {Mounted(i)}, !.flags = f]
    <3>1. RotateTo(m, NextPeer) /\ maint' = maint
      BY <1>4, <2>2 DEF ChangePeer, cmVars
    <3>2. m.rewrite = mem.rewrite \union {Mounted(i)} /\ m.maint = mem.maint
      BY <1>0 DEF Statuses
    <3> HIDE DEF m, f
    <3>3. mem' = m /\ status' = status
      BY <3>1 DEF RotateTo
    <3>4. KnownNext(status)
      BY <3>1, KnownFollows
    <3>5. /\ Mounted(i) \in InPlay /\ Stale(Mounted(i))
          /\ \A s \in InPlay : Stale(s) => s = Mounted(i)
      BY <1>4, MismatchIsStale DEF ChangePeer
    <3>6. maint
      BY <1>4, <3>5 DEF ChangePeer, NeedsMaintenance, KnownInv, Outstanding
    <3>7. KnownNext(m)
      BY <3>1, <3>2, <3>5, <3>6 DEF KnownNext, Calm
    <3> QED
      BY <3>3, <3>4, <3>7, KnownAll
  <2> QED
    BY <2>1, <2>2
<1> QED
  BY <1>1, <1>2, <1>3, <1>4

LEMMA KnownStep ==
  ASSUME RotationInv, OldestInv, KnownInv, CourseInv, Calm, RotationNext
  PROVE  KnownInv'
<1>0. /\ mem \in Statuses /\ status \in Statuses /\ {mem, status} \subseteq Remembered
      /\ data \in [Versions -> {0} \union Keys] /\ Shape(walk, mem)
  BY DEF RotationInv, BookInv, KeysInv, Remembered
<1>1. ASSUME NEW w, Have(mem, w), maint' = maint PROVE KnownInv'
  <2>1. {mem', status'} \subseteq {mem, status}
    BY <1>1, HaveMem
  <2> QED
    BY <1>1, <2>1, KnownSame
<1>2. ASSUME UNCHANGED <<mem, status, maint>> PROVE KnownInv'
  BY <1>2, KnownSame
<1>3. CASE Start \/ SkipApply
  BY <1>2, <1>3 DEF Start, SkipApply, cmVars
<1>4. CASE NoReplicationFactor
  BY <1>4, StopMem DEF NoReplicationFactor
<1>5. CASE Create
  <2> DEFINE m == [mem EXCEPT !.rev = IF @ = "none" THEN "seen" ELSE @]
  <2>1. m.flags = mem.flags /\ m.rewrite = mem.rewrite /\ m.maint = mem.maint
    BY <1>0 DEF Statuses
  <2>2. Have(m, NoWalk) /\ maint' = maint
    BY <1>5 DEF Create, cmVars
  <2> HIDE DEF m
  <2>3. {mem', status'} \subseteq {m, status}
    BY <2>2, HaveMem
  <2> QED
    BY <2>1, <2>2, <2>3, KnownSame
<1>6. CASE Apply
  BY <1>1, <1>6 DEF Apply, cmVars
<1>7. CASE CheckRevision
  <2> DEFINE m == [mem EXCEPT !.rev = "seen"]
  <2>1. m.flags = mem.flags /\ m.rewrite = mem.rewrite /\ m.maint = mem.maint
    BY <1>0 DEF Statuses
  <2>2. mem' \in {mem, m} /\ UNCHANGED <<status, maint>>
    BY <1>7 DEF CheckRevision, RotateTo, cmVars
  <2> HIDE DEF m
  <2> QED
    BY <2>1, <2>2, KnownSame
<1>8. CASE RotatePeers
  BY <1>8, PeersKnown
<1>9. CASE PeersChanged \/ VersionsRewritten
  BY <1>9, RotateToMem DEF PeersChanged, VersionsRewritten, cmVars
<1>10. CASE RewriteVersion
  <2>1. CASE StopWith("Error", mem)
    BY <2>1, StopMem
  <2>2. CASE ~ StopWith("Error", mem)
    <3>1. PICK v \in mem.rewrite :
            /\ data' = [data EXCEPT ![v] = nsKey] /\ UNCHANGED <<nsKey, status, maint>>
            /\ mem' = [mem EXCEPT !.rewrite = @ \ {v}]
      BY <1>10, <2>2 DEF RewriteVersion, nsVars, cmVars
    <3>2. v \in Versions /\ data'[v] = nsKey'
      BY <1>0, <3>1 DEF Statuses
    <3>3. /\ mem'.flags = mem.flags /\ mem'.maint = mem.maint
          /\ mem'.rewrite = mem.rewrite \ {v}
      BY <1>0, <3>1 DEF Statuses
    <3>4. KnownNext(mem')
      BY <3>1, <3>2, <3>3, KnownFollows
    <3>5. KnownNext(status)
      BY <3>1, KnownFollows
    <3> QED
      BY <3>1, <3>4, <3>5, KnownAll
  <2> QED
    BY <2>1, <2>2
<1>11. CASE UpdateStatus
  <2> DEFINE b == IF ~ walk.cmSeen THEN FALSE ELSE IF cmReady THEN maint ELSE mem.maint
             m == [mem EXCEPT !.maint = b]
  <2>1. /\ m.flags = mem.flags /\ m.rewrite = mem.rewrite
        /\ m.maint => mem.maint \/ maint
    BY <1>0 DEF Statuses
  <2>2. RotateTo(m, [walk EXCEPT !.step = "pods"]) \/ StopWith("Pending", m)
    BY <1>11 DEF UpdateStatus
  <2>3. maint' = maint
    BY <1>11 DEF UpdateStatus, StopWith, cmVars
  <2> HIDE DEF m
  <2>4. {mem', status'} \subseteq {m, status}
    BY <2>2, HaveMem DEF RotateTo, StopWith
  <2> QED
    BY <2>1, <2>3, <2>4, KnownSame
<1>12. CASE ManagePods \/ AllReadyButMaintenance
  BY <1>1, <1>12 DEF ManagePods, AllReadyButMaintenance, cmVars
<1>13. CASE AllReady
  <2> DEFINE m == [rev |-> walk.nsRead, flags |-> << >>, rewrite |-> {},
                   maint |-> mem.maint /\ mem.flags = << >>]
  <2>1. /\ Have(m, NoWalk) /\ walk.step = "pods" /\ maint' = (maint /\ mem.flags = << >>)
    BY <1>13 DEF AllReady
  <2>2. m.flags = << >> /\ m.rewrite = {} /\ (m.maint => mem.maint)
    OBVIOUS
  <2> HIDE DEF m
  <2>3. {mem', status'} \subseteq {m, status}
    BY <2>1, HaveMem
  <2>4. CASE mem.flags = << >>
    BY <2>1, <2>2, <2>3, <2>4, KnownSame
  <2>5. CASE mem.flags # << >>
    <3>1. mem.rewrite = {}
      BY <1>0, <2>1 DEF Shape
    <3>2. \A s \in InPlay' : data'[s] = nsKey'
      BY <2>5, <3>1 DEF KnownInv, Calm
    <3>3. KnownNext(mem') /\ KnownNext(status')
      BY <3>2 DEF KnownNext
    <3> QED
      BY <3>3, KnownAll
  <2> QED
    BY <2>4, <2>5
<1>14. CASE EditSecret
  <2>1. /\ mem' = [mem EXCEPT !.rev = IF @ = "seen" THEN "old" ELSE @]
        /\ status' = [status EXCEPT !.rev = IF @ = "seen" THEN "old" ELSE @]
        /\ maint' = maint
    BY <1>14 DEF EditSecret, cmVars
  <2>2. /\ mem'.flags = mem.flags /\ mem'.rewrite = mem.rewrite /\ mem'.maint = mem.maint
        /\ status'.flags = status.flags /\ status'.rewrite = status.rewrite
        /\ status'.maint = status.maint
    BY <1>0, <2>1 DEF Statuses
  <2>3. KnownNext(mem')
    BY <2>1, <2>2, KnownFollows
  <2>4. KnownNext(status')
    BY <2>1, <2>2, KnownFollows
  <2> QED
    BY <2>3, <2>4, KnownAll
<1>15. CASE Fails
  BY <1>1, <1>15 DEF Fails, cmVars
<1>16. CASE Crashes
  BY <1>16, KnownSame DEF Crashes, cmVars
<1>17. CASE \/ Elsewhere \/ ClusterMasterRecycled \/ ClusterMasterReturns
            \/ \E i \in Ordinals : SplunkStarted(i) \/ PodsGo(i)
  BY <1>2, <1>17 DEF Elsewhere, ClusterMasterRecycled, ClusterMasterReturns, SplunkStarted,
                     PodsGo, rotVars, cmVars
<1> QED
  BY <1>3, <1>4, <1>5, <1>6, <1>7, <1>8, <1>9, <1>10, <1>11, <1>12, <1>13, <1>14, <1>15, <1>16,
     <1>17 DEF RotationNext, Operator

\* The loop over the peers goes on to the next one, with m remembered.
LEMMA CourseNextPeer ==
  ASSUME RotationInv, CourseInv, NEW m, RotateTo(m, NextPeer), walk.step = "peers",
         walk.key # nsKey => m.flags = mem.flags,
         walk.key = nsKey
         => (\A s \in InPlay : Stale(s) => s \in m.rewrite) \/ Passed(walk.at + 1)
  PROVE  CourseInv'
<1>1. /\ UNCHANGED <<pods, sts, latest, nsKey, data>>
      /\ mem' = m /\ walk' = NextPeer
  BY DEF RotateTo, vars, kubeVars, secretVars, nsVars
<1>2. walk'.step = "peers" /\ walk'.key = walk.key /\ walk'.at = walk.at + 1
  BY <1>1 DEF NextPeer, RotationInv, BookInv, Walks
<1>3. InPlay' = InPlay
  BY <1>1 DEF InPlay, Mounted
<1>4. walk.key = nsKey => Covered'
  <2>1. (\A s \in InPlay : Stale(s) => s \in m.rewrite)
        => (\A s \in InPlay' : Stale(s)' => s \in mem'.rewrite)
    BY <1>1, <1>3 DEF Stale
  <2>2. Passed(walk.at + 1) => Passed(walk.at)'
    BY <1>1, <1>2 DEF Passed, Stale, Mounted
  <2> QED
    BY <2>1, <2>2 DEF Covered
<1> QED
  BY <1>1, <1>2, <1>3, <1>4 DEF CourseInv

\* If the first peer has the namespace secret's key, so has the template.
LEMMA FirstMatches ==
  ASSUME RotationInv, OldestInv, NEW i \in Ordinals, HasSecret(i), ~ Stale(Mounted(i))
  PROVE  sts.exists /\ ~ Stale(sts.template.secret)
<1>0. TypeOK /\ MountsInv /\ latest \in Nat
  BY DEF RotationInv, PodsInv, TypeOK
<1>1. /\ sts.exists /\ Mounted(i) \in 1 .. sts.template.secret
      /\ sts.template.secret \in InPlay /\ Mounted(i) \in InPlay
      /\ InPlay \subseteq Int
  BY <1>0, InPlayMembers DEF HasSecret, MountsInv, Mounted
<1>2. Mounted(i) < sts.template.secret \/ Mounted(i) = sts.template.secret
  <2>1. sts.template.secret \in Int /\ Mounted(i) \in Int
    BY <1>1
  <2> QED
    BY <1>1, <2>1
<1> QED
  BY <1>1, <1>2 DEF OldestInv

LEMMA PeersCourse ==
  ASSUME RotationInv, OldestInv, KnownInv, CourseInv, KnownInv', Calm, [Next]_vars,
         walk'.key <= nsKey', RotatePeers
  PROVE  CourseInv'
<1>0. /\ mem \in Statuses /\ walk \in Walks /\ TypeOK /\ ReplicasAssumption
      /\ Ordinals \subseteq Nat
  BY ReplicasAssumption DEF RotationInv, BookInv, Remembered, PodsInv, Ordinals
<1>1. PICK i \in Ordinals :
        \/ PeerMissing(i) \/ PeerMatches(i) \/ EnableMaintenance(i)
        \/ SkipPeer(i) \/ ChangePeer(i)
  BY DEF RotatePeers
<1>2. walk.step = "peers" /\ walk.at = i /\ i \in Nat /\ (walk.key = nsKey /\ i > 0 => Covered)
  BY <1>0, <1>1 DEF PeerMissing, PeerMatches, EnableMaintenance, SkipPeer, ChangePeer, Mismatch,
                    AtPeer, CourseInv
<1>3. ASSUME NEW p, NEW m, StopWith(p, m) PROVE CourseInv'
  <2>1. walk' = NoWalk
    BY <1>3 DEF StopWith, Finish, End, Have
  <2> QED
    BY <2>1, CourseFree DEF NoWalk
<1>4. CASE PeerMissing(i)
  BY <1>3, <1>4 DEF PeerMissing
<1>5. CASE PeerMatches(i)
  <2>1. RotateTo(mem, NextPeer) /\ HasSecret(i) /\ data[Mounted(i)] = walk.key
    BY <1>5 DEF PeerMatches
  <2>2. ASSUME walk.key = nsKey
        PROVE  (\A s \in InPlay : Stale(s) => s \in mem.rewrite) \/ Passed(walk.at + 1)
    <3>1. ~ Stale(Mounted(i))
      BY <2>1, <2>2 DEF Stale
    <3>2. sts.exists /\ ~ Stale(sts.template.secret)
      BY <2>1, <3>1, FirstMatches
    <3>3. CASE i = 0 \/ Passed(walk.at)
      <4>1. \A j \in Ordinals : j < i + 1 => j < i \/ j = i
        BY <1>0, <1>2
      <4>2. \A j \in Ordinals : ~ (j < 0)
        BY <1>0
      <4> QED
        BY <1>2, <3>1, <3>2, <3>3, <4>1, <4>2 DEF Passed
    <3> QED
      BY <1>2, <2>2, <3>3 DEF Covered
  <2> QED
    BY <1>2, <2>1, <2>2, CourseNextPeer
<1>6. CASE EnableMaintenance(i)
  <2>1. CASE StopWith("Error", mem)
    BY <1>3, <2>1
  <2>2. CASE RotateTo([mem EXCEPT !.maint = TRUE], walk)
    <3>1. UNCHANGED <<nsKey, latest, req, sts, walk, data>>
      BY <2>2 DEF RotateTo, vars, nsVars, secretVars, opVars, kubeVars
    <3>2. mem'.flags = mem.flags /\ mem'.rewrite = mem.rewrite
      BY <1>0, <2>2 DEF RotateTo, Statuses
    <3> QED
      BY <3>1, <3>2, CourseKept
  <2> QED
    BY <1>6, <2>1, <2>2 DEF EnableMaintenance
<1>7. CASE SkipPeer(i)
  <2>1. RotateTo(mem, NextPeer) /\ mem.flags # << >>
    BY <1>0, <1>2, <1>7 DEF SkipPeer, Flagged, Statuses
  <2>2. \A s \in InPlay : Stale(s) => s \in mem.rewrite
    BY <2>1 DEF KnownInv
  <2> QED
    BY <1>2, <2>1, <2>2, CourseNextPeer
<1>8. CASE ChangePeer(i)
  <2>1. CASE StopWith("Error", mem)
    BY <1>3, <2>1
  <2>2. CASE ~ StopWith("Error", mem)
    <3> DEFINE f == IF i < Len(mem.flags) THEN [mem.flags EXCEPT ![i + 1] = TRUE]
                    ELSE Append(mem.flags, TRUE)
               m == [mem EXCEPT !.rewrite = @ \union {Mounted(i)}, !.flags = f]
    <3>1. RotateTo(m, NextPeer)
      BY <1>8, <2>2 DEF ChangePeer
    <3>2. m.rewrite = mem.rewrite \union {Mounted(i)}
      BY <1>0 DEF Statuses
    <3> HIDE DEF m, f
    <3>3. walk.key = nsKey /\ \A s \in InPlay : Stale(s) => s = Mounted(i)
      BY <1>8, MismatchIsStale DEF ChangePeer
    <3> QED
      BY <1>2, <3>1, <3>2, <3>3, CourseNextPeer
  <2> QED
    BY <2>1, <2>2
<1> QED
  BY <1>1, <1>4, <1>5, <1>6, <1>7, <1>8

LEMMA RewriteCourse ==
  ASSUME RotationInv, CourseInv, Calm, RewriteVersion
  PROVE  CourseInv'
<1>0. /\ mem \in Remembered /\ mem \in Statuses
      /\ data \in [Versions -> {0} \union Keys]
  BY DEF RotationInv, BookInv, KeysInv, Remembered
<1>1. CASE StopWith("Error", mem)
  <2>1. walk' = NoWalk /\ nsKey' = nsKey /\ nsKey \in Keys
    BY <1>1 DEF StopWith, Finish, End, Have, nsVars, RotationInv, KeysInv
  <2> QED
    BY <2>1, CourseFree, RotationAssumption DEF NoWalk, Keys
<1>2. CASE ~ StopWith("Error", mem)
  <2>1. PICK v \in mem.rewrite :
          /\ data' = [data EXCEPT ![v] = nsKey] /\ UNCHANGED <<nsKey, walk>>
          /\ mem' = [mem EXCEPT !.rewrite = @ \ {v}]
    BY <1>2 DEF RewriteVersion, nsVars
  <2>2. UNCHANGED <<pods, sts, req, latest>> /\ walk.step = "rewrite"
    BY <1>2 DEF RewriteVersion, RewriteSecret, vars, opVars, kubeVars, secretVars
  <2>3. mem'.rewrite = mem.rewrite \ {v} /\ v \in Versions
    BY <1>0, <2>1 DEF Statuses
  <2>4. walk.key = nsKey
    BY <1>0, <2>1, <2>2 DEF CourseInv, Remembered
  <2>5. \A s \in Versions : data'[s] = IF s = v THEN nsKey ELSE data[s]
    BY <1>0, <2>1
  <2>6. InPlay' = InPlay
    BY <2>2 DEF InPlay, Mounted
  <2>7. Covered => Covered'
    <3>1. ASSUME \A s \in InPlay : Stale(s) => s \in mem.rewrite
          PROVE  \A s \in InPlay' : Stale(s)' => s \in mem'.rewrite
      BY <2>1, <2>3, <2>5, <3>1 DEF Calm, Stale
    <3>2. Passed(walk.at) => Passed(walk.at)'
      <4>1. \A s \in InPlay : ~ Stale(s) => data'[s] = nsKey'
        BY <2>6 DEF Calm
      <4>2. /\ sts.exists => sts.template.secret \in InPlay
            /\ \A i \in Ordinals : pods[i].state # "absent" => Mounted(i) \in InPlay
        BY InPlayMembers DEF RotationInv, PodsInv
      <4> QED
        BY <2>1, <2>2, <4>1, <4>2 DEF Passed, Stale, Mounted
    <3> QED
      BY <3>1, <3>2 DEF Covered
  <2> QED
    BY <2>1, <2>2, <2>4, <2>7 DEF CourseInv
<1> QED
  BY <1>1, <1>2

LEMMA CourseStep ==
  ASSUME RotationInv, OldestInv, KnownInv, CourseInv, KnownInv', Calm, [Next]_vars,
         nsKey' = nsKey, RotationNext
  PROVE  CourseInv'
<1>0. /\ walk \in Walks /\ mem \in Statuses /\ status \in Statuses /\ nsKey \in Nat /\ nsKey # 0
      /\ TypeOK /\ Shape(walk, mem) /\ (pc = "idle" => walk = NoWalk)
  BY RotationAssumption
     DEF RotationInv, BookInv, Remembered, KeysInv, Keys, PodsInv
<1>1. walk'.key <= nsKey'
  BY KeyReadStep DEF CourseInv
<1>2. ASSUME walk'.step \notin {"peers", "rewrite", "status"} PROVE CourseInv'
  BY <1>1, <1>2, CourseFree
<1>3. NoWalk.step = "apply"
  BY DEF NoWalk
<1>4. CASE Start
  BY <1>0, <1>2, <1>4 DEF Start, StartReconcile, Build, NoWalk
<1>5. CASE NoReplicationFactor
  BY <1>2, <1>3, <1>5 DEF NoReplicationFactor, StopWith, Finish, End, Have
<1>6. CASE Create
  BY <1>2, <1>3, <1>6 DEF Create, CreateStatefulSet, Finish, End, Have
<1>7. CASE Apply \/ SkipApply
  <2>1. walk'.step \in {"revision", "apply"}
    BY <1>0, <1>3, <1>7 DEF Apply, SkipApply, Have, Walks
  <2> QED
    BY <1>2, <2>1
<1>8. CASE CheckRevision
  <2>1. CASE mem.rev = "old"
    <3>1. walk'.step = "peers" /\ walk'.key = nsKey /\ walk'.at = 0
      BY <1>0, <1>8, <2>1 DEF CheckRevision, RotateTo, Shape, Walks
    <3> QED
      BY <1>1, <3>1 DEF CourseInv
  <2>2. CASE mem.rev # "old"
    <3>1. walk'.step = "status" /\ walk'.key = 0
      BY <1>0, <1>8, <2>2 DEF CheckRevision, RotateTo, Shape, Walks
    <3> QED
      BY <1>0, <1>1, <3>1 DEF CourseInv
  <2> QED
    BY <2>1, <2>2
<1>9. CASE RotatePeers
  BY <1>1, <1>9, PeersCourse
<1>10. CASE PeersChanged \/ VersionsRewritten
  <2>1. /\ walk.step \in {"peers", "rewrite"}
        /\ walk.step = "peers" => walk.at = req.replicas
        /\ walk'.step = IF walk.step = "peers" THEN "rewrite" ELSE "status"
        /\ walk'.at = walk.at /\ walk'.key = walk.key /\ mem' = mem
        /\ UNCHANGED <<pods, sts, latest, data, req>>
    BY <1>0, <1>10 DEF PeersChanged, VersionsRewritten, RotateTo, vars, kubeVars, secretVars, opVars,
                       Walks
  <2>2. InPlay' = InPlay
    BY <2>1 DEF InPlay, Mounted
  <2>3. Covered => Covered'
    BY <2>1, <2>2 DEF Covered, Passed, Stale, Mounted
  <2> QED
    BY <1>0, <1>1, <2>1, <2>2, <2>3 DEF CourseInv
<1>11. CASE RewriteVersion
  BY <1>11, RewriteCourse
<1>12. CASE UpdateStatus
  <2>1. walk'.step \in {"pods", "apply"}
    BY <1>0, <1>3, <1>12 DEF UpdateStatus, RotateTo, StopWith, Finish, End, Have, Walks
  <2> QED
    BY <1>2, <2>1
<1>13. CASE ManagePods
  BY <1>2, <1>3, <1>13 DEF ManagePods, Have
<1>14. CASE AllReady \/ AllReadyButMaintenance
  BY <1>2, <1>3, <1>14 DEF AllReady, AllReadyButMaintenance, Have
<1>15. CASE EditSecret
  <2>1. /\ mem' = [mem EXCEPT !.rev = IF @ = "seen" THEN "old" ELSE @]
        /\ walk' = [walk EXCEPT !.nsRead = IF pc = "idle" THEN @ ELSE "old"]
        /\ UNCHANGED <<latest, req, sts, data>>
    BY <1>15 DEF EditSecret, EditNamespaceSecret, secretVars, opVars, kubeVars
  <2>2. UNCHANGED <<walk.step, walk.at, walk.key, mem.flags, mem.rewrite>>
    BY <1>0, <2>1 DEF Walks, Statuses
  <2> QED
    BY <2>1, <2>2, CourseKept
<1>16. ASSUME UNCHANGED <<latest, req, sts.exists, sts.template, walk, mem, data>>
       PROVE  CourseInv'
  BY <1>16, CourseKept
<1>17. CASE Elsewhere
  BY <1>0, <1>16, <1>17
     DEF Elsewhere, SyncStatefulSet, EditResource, rotVars, secretVars, opVars, kubeVars, TypeOK,
         StatefulSets
<1>18. CASE Fails
  <2>1. CASE pc' = "idle"
    BY <1>2, <1>3, <1>18, <2>1 DEF Fails, Have
  <2>2. CASE pc' # "idle"
    <3>1. UNCHANGED <<latest, req, sts>>
      BY <1>18, <2>2 DEF Fails, ApiError, PruneError, PublishError, Finish, End, PodFails,
                         PodEvicted, SetPod, secretVars, opVars
    <3>2. UNCHANGED <<walk, mem, data>>
      BY <1>18, <2>2 DEF Fails, Have
    <3> QED
      BY <1>16, <3>1, <3>2
  <2> QED
    BY <2>1, <2>2
<1>19. CASE Crashes
  BY <1>2, <1>3, <1>19 DEF Crashes
<1>20. CASE ClusterMasterRecycled \/ ClusterMasterReturns
  BY <1>16, <1>20 DEF ClusterMasterRecycled, ClusterMasterReturns, vars, secretVars, opVars,
                      kubeVars
<1>21. CASE \E i \in Ordinals : SplunkStarted(i) \/ PodsGo(i)
  BY <1>16, <1>21 DEF SplunkStarted, PodsGo, PodStarted, PodStopped, PodGone, SetPod, secretVars,
                      opVars
<1> QED
  BY <1>4, <1>5, <1>6, <1>7, <1>8, <1>9, <1>10, <1>11, <1>12, <1>13, <1>14, <1>15, <1>17, <1>18,
     <1>19, <1>20, <1>21 DEF RotationNext, Operator

\* The user waits until every pod mounts the latest version, and until what is remembered
\* of the last rotation is forgotten.
LEMMA KeyChanges ==
  ASSUME PatientUser, RotationInv, PassInv, EditSecret, AfterTheLast, nsKey' # nsKey
  PROVE  PassInv'
<1>0. /\ walk \in Walks /\ mem \in Statuses /\ status \in Statuses /\ nsKey \in Nat
      /\ TypeOK /\ pods \in [Ordinals -> Pods] /\ latest \in Nat /\ walk.key \in Int
      /\ walk.key <= nsKey
  BY RotationAssumption
     DEF RotationInv, BookInv, Remembered, KeysInv, Keys, PodsInv, TypeOK, PassInv, CourseInv, Walks
<1>1. /\ Converged /\ ~ nsChanged /\ nsKey' = nsKey + 1
      /\ UNCHANGED <<pods, sts, latest, data, run, maint, req>>
      /\ mem' = [mem EXCEPT !.rev = IF @ = "seen" THEN "old" ELSE @]
      /\ status' = [status EXCEPT !.rev = IF @ = "seen" THEN "old" ELSE @]
      /\ walk' = [walk EXCEPT !.nsRead = IF pc = "idle" THEN @ ELSE "old"]
    BY DEF EditSecret, EditNamespaceSecret, Edit, cmVars, kubeVars, secretVars, opVars
<1>2. /\ mem'.flags = << >> /\ mem'.rewrite = {} /\ ~ mem'.maint
      /\ status'.flags = << >> /\ ~ status'.maint
      /\ UNCHANGED <<walk.step, walk.at, walk.key>>
  BY <1>0, <1>1 DEF AfterTheLast, Cleared, Statuses, Walks
<1>3. \A s \in InPlay : s = latest
  <2>1. sts.template.secret = latest
    BY <1>1 DEF Converged
  <2>2. \A i \in Ordinals : pods[i].state # "absent" => Mounted(i) = latest
    BY <1>1, <2>1 DEF Converged, NoPod, Mounted
  <2> QED
    BY <2>1, <2>2 DEF InPlay
<1>4. InPlay' = InPlay
  BY <1>1 DEF InPlay, Mounted
<1>5. data[latest] = nsKey
  BY <1>1 DEF RotationInv, KeysInv
<1>6. RunInv'
  BY <1>1 DEF PassInv, RunInv
<1>7. OldestInv'
  BY <1>0, <1>3, <1>4 DEF OldestInv
<1>8. KnownInv'
  BY <1>2 DEF KnownInv
<1>9. CourseInv'
  <2>1. walk'.key <= nsKey' /\ walk'.key # nsKey'
    BY <1>0, <1>1, <1>2
  <2>2. walk'.step \in {"rewrite", "status"} /\ walk'.key # 0 => walk'.at = req'.replicas
    BY <1>1, <1>2 DEF PassInv, CourseInv
  <2>3. ASSUME walk.step \in {"peers", "rewrite"} PROVE \A s \in InPlay : data[s] = walk.key
    BY <2>3, <1>3, <1>5 DEF PassInv, CourseInv
  <2> QED
    BY <1>1, <1>2, <1>4, <2>1, <2>2, <2>3 DEF CourseInv
<1> QED
  BY <1>6, <1>7, <1>8, <1>9 DEF PassInv

LEMMA PassStep ==
  ASSUME PatientUser, RotationInv, RotationInv', PassInv, [Next]_vars, [RotationNext]_idxcVars,
         [AfterTheLast]_idxcVars
  PROVE  PassInv'
<1>1. CASE UNCHANGED idxcVars
  BY <1>1 DEF idxcVars, vars, rotVars, cmVars, nsVars, kubeVars, secretVars, opVars, PassInv,
              RunInv, OldestInv, KnownInv, CourseInv, Covered, Passed, Outstanding, InPlay, Stale,
              Mounted
<1>2. CASE RotationNext /\ nsKey' = nsKey
  <2>1. Calm
    BY <1>2, CalmStep
  <2>2. RunInv'
    BY <1>2, RunStep DEF PassInv
  <2>3. OldestInv'
    BY <2>1, OldestKept DEF PassInv, RotationInv, PodsInv
  <2>4. KnownInv'
    BY <1>2, <2>1, KnownStep DEF PassInv
  <2>5. CourseInv'
    BY <1>2, <2>1, <2>4, CourseStep DEF PassInv
  <2> QED
    BY <2>2, <2>3, <2>4, <2>5 DEF PassInv
<1>3. CASE RotationNext /\ nsKey' # nsKey
  <2>1. AfterTheLast
    BY <1>3 DEF idxcVars, rotVars, nsVars
  <2>2. EditSecret
    <3>1. ~ Operator
      BY <1>3 DEF Operator, Start, NoReplicationFactor, Create, Apply, SkipApply, CheckRevision,
                  RotatePeers, PeerMissing, PeerMatches, EnableMaintenance, SkipPeer, ChangePeer,
                  PeersChanged, RewriteVersion, VersionsRewritten, UpdateStatus, ManagePods,
                  AllReady, AllReadyButMaintenance, RotateTo, StopWith, nsVars
    <3> QED
      BY <1>3, <3>1 DEF RotationNext, Elsewhere, Fails, Crashes, ClusterMasterRecycled,
                        ClusterMasterReturns, SplunkStarted, PodsGo, rotVars, nsVars
  <2> QED
    BY <1>3, <2>1, <2>2, KeyChanges
<1> QED
  BY <1>1, <1>2, <1>3

LEMMA PassInit == RotationInit => PassInv
<1> SUFFICES ASSUME RotationInit PROVE PassInv
  OBVIOUS
<1>1. InPlay = {}
  BY DEF RotationInit, Init, InPlay
<1>2. status.flags = << >> /\ mem = status /\ walk = NoWalk /\ nsKey = 1
  BY DEF RotationInit
<1> QED
  BY <1>1, <1>2
     DEF RotationInit, PassInv, RunInv, OldestInv, KnownInv, Outstanding, CourseInv, NoWalk

\* With a user who waits until the last change is rolled out and forgotten, whatever fails:
\* what a rotation may rely on, for any number of changes.
THEOREM PassInvariant ==
  ASSUME PatientUser
  PROVE  RotationSpec /\ [][AfterTheLast]_idxcVars => []PassInv
<1>1. RotationSpec => [][Next]_vars
  BY RotationImplementsPods, PTL DEF ImplementsPods, Spec
<1> QED
  BY <1>1, RotationInvariant, PassInit, PassStep, PTL DEF RotationSpec

\* Under the same hypotheses, once ApplyIdxcSecret has changed the peers and rewritten what
\* they mount, no pod of the desired replicas can restart with the old key.
THEOREM SecretsRewrittenCorrect ==
  ASSUME PatientUser
  PROVE  RotationSpec /\ [][AfterTheLast]_idxcVars => []SecretsRewritten
<1>1. RotationInv /\ PassInv => SecretsRewritten
  <2> SUFFICES ASSUME RotationInv, PassInv, walk.step = "status", walk.key = nsKey,
                      NEW i \in Ordinals, i < req.replicas, HasSecret(i)
               PROVE  data[Mounted(i)] = nsKey
    BY DEF SecretsRewritten
  <2>1. /\ TypeOK /\ nsKey # 0 /\ req.replicas > 0 /\ mem.rewrite = {}
    BY RotationAssumption DEF RotationInv, PodsInv, TypeOK, KeysInv, Keys, BookInv, Shape
  <2>2. walk.at = req.replicas /\ Covered
    BY <2>1 DEF PassInv, CourseInv
  <2>3. pods[i].state # "absent" /\ Mounted(i) \in InPlay
    BY <2>1, InPlayMembers DEF HasSecret, RotationInv
  <2> QED
    BY <2>1, <2>2, <2>3 DEF Covered, Passed, Stale
<1> QED
  BY <1>1, RotationInvariant, PassInvariant, PTL

\* Under the same hypotheses, no peer is told to change its key outside maintenance mode.
THEOREM RestartsInMaintenanceCorrect ==
  ASSUME PatientUser
  PROVE  RotationSpec /\ [][AfterTheLast]_idxcVars => RestartsInMaintenance
<1> DEFINE Restarts == \A i \in Ordinals : run[i] # 0 /\ run'[i] \notin {0, run[i]} => maint
<1>1. ASSUME RotationInv, PassInv, [RotationNext]_idxcVars PROVE [Restarts]_idxcVars
  <2> SUFFICES ASSUME RotationNext, NEW i \in Ordinals, run[i] # 0, run'[i] \notin {0, run[i]}
               PROVE  maint
    BY <1>1
  <2>1. run' # run /\ run' # Running /\ run \in [Ordinals -> {0} \union Keys]
    BY <1>1 DEF Running, RotationInv, KeysInv
  <2>2. (\E j \in Ordinals : ChangePeer(j)) \/ (\E j \in Ordinals : SplunkStarted(j))
    <3>1. ~ (Start \/ NoReplicationFactor \/ Create \/ Apply \/ SkipApply \/ CheckRevision)
      BY <2>1 DEF Start, NoReplicationFactor, Create, Apply, SkipApply, CheckRevision, StopWith
    <3>2. ~ (PeersChanged \/ RewriteVersion \/ VersionsRewritten \/ UpdateStatus)
      BY <2>1 DEF PeersChanged, RewriteVersion, VersionsRewritten, UpdateStatus, StopWith
    <3>3. ~ (ManagePods \/ AllReady \/ AllReadyButMaintenance)
      BY <2>1 DEF ManagePods, AllReady, AllReadyButMaintenance
    <3>4. ~ (EditSecret \/ Elsewhere \/ Fails \/ Crashes)
      BY <2>1 DEF EditSecret, Elsewhere, Fails, Crashes, rotVars
    <3>5. ~ (ClusterMasterRecycled \/ ClusterMasterReturns \/ \E j \in Ordinals : PodsGo(j))
      BY <2>1 DEF ClusterMasterRecycled, ClusterMasterReturns, PodsGo
    <3>6. RotatePeers => \E j \in Ordinals : ChangePeer(j)
      BY <2>1 DEF RotatePeers, PeerMissing, PeerMatches, EnableMaintenance, SkipPeer, StopWith
    <3> QED
      BY <3>1, <3>2, <3>3, <3>4, <3>5, <3>6 DEF RotationNext, Operator
  <2>3. ASSUME NEW j \in Ordinals, SplunkStarted(j) PROVE FALSE
    <3>1. run' = [run EXCEPT ![j] = data[Mounted(j)]] /\ pods[j].state = "unready"
      BY <2>3 DEF SplunkStarted, PodStarted
    <3>2. run[j] = 0
      BY <1>1, <3>1 DEF PassInv, RunInv
    <3> QED
      BY <2>1, <3>1, <3>2
  <2>4. ASSUME NEW j \in Ordinals, ChangePeer(j) PROVE maint
    <3>1. Mismatch(j) /\ ~ NeedsMaintenance
      BY <2>4 DEF ChangePeer
    <3>2. Outstanding
      BY <1>1, <3>1, MismatchIsStale DEF PassInv, Outstanding
    <3> QED
      BY <1>1, <3>1, <3>2 DEF NeedsMaintenance, PassInv, KnownInv
  <2> QED
    BY <2>2, <2>3, <2>4
<1>2. RotationSpec /\ [][AfterTheLast]_idxcVars => [][Restarts]_idxcVars
  BY <1>1, RotationInvariant, PassInvariant, PTL DEF RotationSpec
<1> QED
  BY <1>2 DEF RestartsInMaintenance
=============================================================================
