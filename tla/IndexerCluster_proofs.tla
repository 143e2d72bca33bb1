------------------------ MODULE IndexerCluster_proofs ------------------------
(***************************************************************************)
(* The pod manager of indexer clusters is one that StatefulSetPods allows. *)
(* So what StatefulSetPods_proofs proves for every pod manager holds of    *)
(* indexer clusters, whatever their peers and their cluster master do.     *)
(* The second half adds, to what is proved of a rollout there, what the    *)
(* peers do meanwhile.                                                     *)
(***************************************************************************)
EXTENDS IndexerCluster, StatefulSetPods_proofs

\* PrepareScaleDown and PrepareRecycle answer with one of the three verdicts.
LEMMA VerdictAllowed ==
  ASSUME NEW n
  PROVE  DecommissionVerdict(n) \in Verdicts
BY ManagerAssumption DEF DecommissionVerdict

\* Every step of the operator on an indexer cluster is a step of StatefulSetPods:
\* one of its reconcile, or none when only the list of peers is read.
LEMMA ReconcileStep == IdxReconcile => Reconcile \/ UNCHANGED vars
<1> SUFFICES ASSUME IdxReconcile
             PROVE  Reconcile \/ UNCHANGED vars
  OBVIOUS
<1>1. CASE StartReconcile
  BY <1>1 DEF Reconcile
<1>2. CASE ClusterNotReady
  <2>1. KeepsGoing /\ pc \in {"apply", "scale"}
    BY <1>2, ManagerAssumption DEF ClusterNotReady
  <2>2. /\ \E p \in {"Pending", "Error"} : Finish(p)
        /\ UNCHANGED <<crVars, secretVars, kubeVars, faults>>
    BY <1>2 DEF ClusterNotReady
  <2> QED
    BY <2>1, <2>2 DEF Reconcile, ManagerStops
<1>3. CASE ApplyStatefulSet
  BY <1>3 DEF ApplyStatefulSet, Reconcile
<1>4. CASE UpdateStatus
  BY <1>4 DEF UpdateStatus
<1>5. CASE PrepareScaleDown
  <2>1. PICK v \in Verdicts : ScaleDown(v)
    BY <1>5, VerdictAllowed, ManagerAssumption DEF PrepareScaleDown
  <2> QED
    BY <2>1 DEF Reconcile
<1>6. CASE PrepareRecycle
  <2>1. PICK v \in Verdicts : RecyclePod(v)
    BY <1>6, VerdictAllowed DEF PrepareRecycle
  <2> QED
    BY <2>1 DEF Reconcile
<1>7. CASE FinishRecycle
  <2>1. PICK v \in Verdicts : FinishPod(v)
    BY <1>7, ManagerAssumption DEF FinishRecycle
  <2> QED
    BY <2>1 DEF Reconcile
<1>8. CASE OtherSteps
  BY <1>8 DEF OtherSteps, Reconcile
<1> QED
  BY <1>1, <1>2, <1>3, <1>4, <1>5, <1>6, <1>7, <1>8 DEF IdxReconcile

\* Of the steps of the peers and the cluster master, StatefulSetPods sees only the
\* start of a pod.
LEMMA PeersStep == Peers => Kubernetes \/ UNCHANGED vars
<1> SUFFICES ASSUME Peers
             PROVE  Kubernetes \/ UNCHANGED vars
  OBVIOUS
<1>1. CASE \E i \in Ordinals : PodAndPeerStarted(i)
  BY <1>1 DEF PodAndPeerStarted, Kubernetes
<1>2. CASE \E i \in Ordinals : PeerJoins(i) \/ PeerLost(i) \/ PeerLeaves(i) \/ PeerRestarts(i)
  BY <1>2 DEF PeerJoins, PeerLost, PeerLeaves, PeerRestarts
<1>3. CASE ClusterMasterRestarts \/ ClusterMasterReturns \/ ServiceStarts
  BY <1>3 DEF ClusterMasterRestarts, ClusterMasterReturns, ServiceStarts
<1> QED
  BY <1>1, <1>2, <1>3 DEF Peers

\* The step of the pods that a step of the indexer cluster is.
LEMMA NextPods == [IdxNext]_idxVars => [Next]_vars
<1>1. ASSUME IdxReconcile PROVE [Next]_vars
  BY <1>1, ReconcileStep DEF Next
<1>2. ASSUME Surroundings PROVE [Next]_vars
  BY <1>2 DEF Surroundings, Next, Kubernetes
<1>3. ASSUME Peers PROVE [Next]_vars
  BY <1>3, PeersStep DEF Next
<1>4. UNCHANGED idxVars => [Next]_vars
  BY DEF idxVars
<1> QED
  BY <1>1, <1>2, <1>3, <1>4 DEF IdxNext

\* Update of indexercluster.go drives UpdateStatefulSetPods with the answers of
\* PrepareScaleDown, PrepareRecycle and FinishRecycle: whatever these read from the
\* cluster master, a behaviour of an indexer cluster is one of StatefulSetPods.
THEOREM IndexerClusterImplementsPods == IdxSpec => ImplementsPods
<1>1. IdxInit => Init
  BY DEF IdxInit
<1>2. [IdxNext]_idxVars => [Next]_vars
  BY NextPods
<1> QED
  BY <1>1, <1>2, PTL DEF IdxSpec, ImplementsPods, Spec

\* An indexer cluster deletes only claims of pods that its StatefulSet gave up, also
\* when a peer comes back, or the cluster master goes away, between the steps of
\* PrepareScaleDown.
THEOREM IndexerClaimsCorrect == IdxSpec => ClaimsOfWantedPodsKept
BY IndexerClusterImplementsPods, ClaimsCorrect, PTL DEF ImplementsPods

\* When the loop over the indexers has passed the last one, all run the template.
THEOREM IndexerRolledOutCorrect == IdxSpec => []RolledOut
BY IndexerClusterImplementsPods, RolledOutCorrect, PTL DEF ImplementsPods

-----------------------------------------------------------------------------
(***************************************************************************)
(* The types                                                               *)
(***************************************************************************)

\* The list of peers is of this reconcile, which reads it only after ApplyStatefulSet.
KnownInv == pc \in {"idle", "apply"} => ~ known

LEMMA DecommissionTypes ==
  ASSUME PeersTypeOK, NEW n, NEW m \in Modes, Decommission(n, m)
  PROVE  peer' \in [Ordinals -> PeerStates] /\ mode' \in [Ordinals -> Modes]
  BY DEF Decommission, PeersTypeOK, PeerStates

LEMMA ManagerTypes ==
  ASSUME PeersTypeOK, KnownInv, PrepareScaleDown \/ PrepareRecycle
  PROVE  PeersTypeOK' /\ KnownInv'
<1>1. peer' \in [Ordinals -> PeerStates] /\ mode' \in [Ordinals -> Modes]
  <2>1. CASE \/ Decommission(view.ready - 1, "enforced") \/ Decommission(ord, "fast")
    BY <2>1, DecommissionTypes DEF Modes
  <2>2. CASE peer' = [peer EXCEPT ![view.ready - 1] = ""] /\ UNCHANGED mode
    BY <2>2 DEF PeersTypeOK, PeerStates
  <2>3. CASE UNCHANGED <<peer, mode>>
    BY <2>3 DEF PeersTypeOK
  <2>4. \/ Decommission(view.ready - 1, "enforced") \/ Decommission(ord, "fast")
        \/ peer' = [peer EXCEPT ![view.ready - 1] = ""] /\ UNCHANGED mode
        \/ UNCHANGED <<peer, mode>>
    BY DEF PrepareScaleDown, PrepareRecycle
  <2> QED
    BY <2>1, <2>2, <2>3, <2>4
<1>2. /\ UNCHANGED <<cmReady, service, outages, list>>
      /\ known' = (known /\ pc' # "idle") /\ pc' \in {"idle", "claims"}
  BY DEF PrepareScaleDown, PrepareRecycle, ScaleDown, RecyclePod, Remember, Finish, End, GoTo
<1> QED
  BY <1>1, <1>2 DEF PeersTypeOK, KnownInv

LEMMA PeerTypes ==
  ASSUME PeersTypeOK, KnownInv, Peers
  PROVE  PeersTypeOK' /\ KnownInv'
<1>1. UNCHANGED <<pc, list, known>>
  BY DEF Peers, PodAndPeerStarted, PodStarted, SetPod, PeerJoins, PeerLost, PeerLeaves, PeerRestarts,
         ClusterMasterRestarts, ClusterMasterReturns, ServiceStarts, vars, opVars
<1>2. peer' \in [Ordinals -> PeerStates] /\ mode' \in [Ordinals -> Modes]
  <2>1. CASE \E i \in Ordinals :
               PodAndPeerStarted(i) \/ PeerJoins(i) \/ PeerLost(i) \/ PeerLeaves(i) \/ PeerRestarts(i)
    BY <2>1 DEF PodAndPeerStarted, PeerJoins, PeerLost, PeerLeaves, PeerRestarts,
                PeersTypeOK, PeerStates, Modes
  <2>2. CASE ClusterMasterRestarts \/ ClusterMasterReturns \/ ServiceStarts
    BY <2>2 DEF ClusterMasterRestarts, ClusterMasterReturns, ServiceStarts, PeersTypeOK, PeerStates
  <2> QED
    BY <2>1, <2>2 DEF Peers
<1>3. cmReady' \in BOOLEAN /\ service' \in BOOLEAN /\ outages' \in Nat
  <2>1. CASE ~ (ClusterMasterRestarts \/ ClusterMasterReturns \/ ServiceStarts)
    <3>1. UNCHANGED <<cmReady, service, outages>>
      BY <2>1 DEF Peers, PodAndPeerStarted, PeerJoins, PeerLost, PeerLeaves, PeerRestarts
    <3> QED
      BY <3>1 DEF PeersTypeOK
  <2>2. CASE ClusterMasterRestarts \/ ClusterMasterReturns \/ ServiceStarts
    <3>1. outages' \in {outages, outages + 1}
          /\ (cmReady' = cmReady \/ cmReady' = TRUE \/ cmReady' = FALSE)
          /\ (service' = service \/ service' = TRUE \/ service' = FALSE)
      BY <2>2 DEF ClusterMasterRestarts, ClusterMasterReturns, ServiceStarts
    <3>2. outages + 1 \in Nat
      BY DEF PeersTypeOK
    <3>3. outages' \in Nat
      BY <3>1, <3>2 DEF PeersTypeOK
    <3> QED
      BY <3>1, <3>3 DEF PeersTypeOK
  <2> QED
    BY <2>1, <2>2
<1> QED
  BY <1>1, <1>2, <1>3 DEF PeersTypeOK, KnownInv

LEMMA PeersTypes == IdxSpec => [](PeersTypeOK /\ KnownInv)
<1>1. IdxInit => PeersTypeOK /\ KnownInv
  <2> SUFFICES ASSUME IdxInit PROVE PeersTypeOK /\ KnownInv
    OBVIOUS
  <2>1. PeersTypeOK
    BY DEF IdxInit, PeersTypeOK, PeerStates, Modes
  <2>2. KnownInv
    BY DEF IdxInit, KnownInv
  <2> QED
    BY <2>1, <2>2
<1>2. PeersTypeOK /\ KnownInv /\ [IdxNext]_idxVars => (PeersTypeOK /\ KnownInv)'
  <2> SUFFICES ASSUME PeersTypeOK, KnownInv, [IdxNext]_idxVars
               PROVE  PeersTypeOK' /\ KnownInv'
    OBVIOUS
  <2>1. CASE \/ StartReconcile /\ KeepPeers /\ Remember
             \/ ApplyStatefulSet \/ FinishRecycle \/ OtherSteps \/ Surroundings
    <3>1. /\ UNCHANGED peerVars /\ UNCHANGED list /\ known' = (known /\ pc' # "idle")
      BY <2>1 DEF ApplyStatefulSet, FinishRecycle, OtherSteps, Surroundings, KeepPeers, Remember
    <3>2. PeersTypeOK'
      BY <3>1 DEF PeersTypeOK, peerVars
    <3>3. pc' = "apply" => pc \in {"idle", "apply"}
      BY <2>1 DEF StartReconcile, Build, ApplyStatefulSet, CreateStatefulSet, UpdateTemplate,
           KeepTemplate, FinishRecycle, FinishPod, OtherSteps, WaitForReplicas, ScaleUp, NoScaling,
           WaitForPod, RemoveUnwantedSecrets, DeleteClaim, ClaimNotFound, ClaimsDeleted,
           Surroundings, SyncStatefulSet, PodStopped, PodGone, SetPod, EditResource,
           EditNamespaceSecret, Failure, ApiError, PruneError, PublishError, Crash,
           DropCreateError, DropListError, DropPruneError, PodFails, PodEvicted, Finish, End,
           GoTo, opVars
    <3> QED
      BY <3>1, <3>2, <3>3 DEF KnownInv
  <2>2. CASE ClusterNotReady
    <3>1. /\ UNCHANGED peerVars /\ UNCHANGED known /\ pc' = "idle"
          /\ pc = "apply" \/ ~ known
          /\ list' \in {peer, list}
      BY <2>2 DEF ClusterNotReady, KeepPeers, Finish, End
    <3> QED
      BY <3>1 DEF PeersTypeOK, KnownInv, peerVars
  <2>3. CASE UpdateStatus
    BY <2>3 DEF UpdateStatus, PeersTypeOK, KnownInv, peerVars, vars, opVars
  <2>4. CASE UNCHANGED idxVars
    BY <2>4 DEF idxVars, PeersTypeOK, KnownInv, peerVars, vars, opVars
  <2> QED
    BY <2>1, <2>2, <2>3, <2>4, ManagerTypes, PeerTypes DEF IdxNext, IdxReconcile
<1> QED
  BY <1>1, <1>2, PTL DEF IdxSpec

\* The cluster master's peers have one of the statuses it gives, and a peer was asked to leave
\* in one of the ways the operator asks.
THEOREM PeersTypeCorrect == IdxSpec => []PeersTypeOK
BY PeersTypes, PTL

-----------------------------------------------------------------------------
(***************************************************************************)
(* The peers, when the user waits for the last change and nothing fails    *)
(***************************************************************************)

\* A peer that the cluster master believes to be there.
Live == {"Joining", "Up", "Decommissioning"}

Serves(i) == pods[i].state = "ready" /\ ~ pods[i].deleting

\* A pod that comes up was created from the template, and none that runs it is deleted.
FreshInv ==
  \A i \in Ordinals :
    /\ pods[i].state = "unready" /\ ~ pods[i].deleting => pods[i].rev = sts.template
    /\ i < sts.replicas /\ pods[i].rev = sts.template => ~ pods[i].deleting

\* A live peer of the StatefulSet has a pod that serves, or is one of before the ordinal
\* was scaled away, whose pod is still to come back; the status has not counted it then.
Returning(i) ==
  /\ pods[i].state # "ready"
  /\ sts.ready < sts.replicas
  /\ \A j \in Ordinals : j >= sts.replicas => pods[j].state = "absent"

LiveInv ==
  /\ \A i \in Ordinals : i < sts.replicas /\ peer[i] \in Live => Serves(i) \/ Returning(i)
  /\ pc \in {"scale", "check"} /\ view.ready = view.replicas
     => \A i \in Ordinals : i < sts.replicas /\ peer[i] \in Live => Serves(i)

\* What the list of peers still says when it is used: a peer that was Up is Up, and one
\* that had left has not come back, unless its pod is a new one.
ListInv ==
  known /\ pc \in {"scale", "check"} /\ view.ready = view.replicas
  => \A i \in Ordinals :
       i < sts.replicas
       => /\ list[i] = "Up" => peer[i] = "Up"
          /\ list[i] \in Complete => peer[i] \notin Live \/ pods[i].rev = sts.template

\* Every peer the loop has passed is Up, on a pod of the revision the loop works for.
PassedInv ==
  known /\ pc = "check" /\ view.updateRev = sts.template
  => \A j \in Ordinals :
       ord < j /\ j < sts.replicas
       => peer[j] = "Up" /\ pods[j].rev = sts.template

PeersInv == FreshInv /\ LiveInv /\ ListInv /\ PassedInv

\* Pods, by the steps of a round.
LEMMA FreshStep ==
  ASSUME RolloutInv, FreshInv, Steps
  PROVE  FreshInv'
<1> USE DEF crVars, secretVars, kubeVars, opVars
<1>0. TypeOK /\ ViewInv /\ OrderInv /\ ChangeInv /\ StatusInv /\ DepartInv /\ RoundInv
  BY DEF RolloutInv, RoundInv, PodsInv
<1>1. NoPod = [state |-> "absent", deleting |-> FALSE, rev |-> NoRevision]
  BY DEF NoPod
<1>2. CASE \/ Waits \/ StartReconcile \/ KeepTemplate \/ RewriteSecret \/ NoScaling \/ DeleteClaim
           \/ PodPassed \/ EditResource \/ EditNamespaceSecret
  <2>1. UNCHANGED <<sts, pods>>
    BY <1>2 DEF Waits, Stops, StartReconcile, Build, KeepTemplate, RewriteSecret, NoScaling,
                DeleteClaim, PodPassed, EditResource, EditNamespaceSecret
  <2> QED
    BY <2>1 DEF FreshInv
<1>3. CASE CreateStatefulSet
  <2>1. pods' = pods /\ \A i \in Ordinals : pods[i] = NoPod
    BY <1>0, <1>3 DEF CreateStatefulSet, ChangeInv
  <2>2. \A i \in Ordinals : pods'[i].state = "absent" /\ ~ pods'[i].deleting
    BY <1>1, <2>1
  <2> QED
    BY <2>2 DEF FreshInv
<1>4. CASE UpdateTemplate
  <2>1. Settled /\ pods' = pods
    BY <1>0, <1>4, UpdatesSettled DEF UpdateTemplate
  <2>2. \A i \in Ordinals : pods[i].state # "unready" /\ ~ pods[i].deleting
    BY <1>1, <2>1 DEF Settled, AllRun
  <2> QED
    BY <2>1, <2>2 DEF FreshInv
<1>5. CASE ScaledUp
  <2>1. Current /\ sts.replicas < Wanted
    <3>1. view.ready # req.replicas /\ sts.replicas < req.replicas /\ pc = "scale"
          /\ view.ready = view.replicas
      BY <1>0, <1>5 DEF ScaledUp, TypeOK, StatefulSets
    <3> QED
      BY <1>0, <3>1, ScalesCurrent DEF Current
  <2>2. /\ sts.replicas \in Int /\ Wanted \in Int /\ Ordinals \subseteq Int
    BY <1>0, ReplicasAssumption DEF TypeOK, StatefulSets, Wanted, Ordinals
  <2>3. \A i \in Ordinals : i >= sts.replicas => pods[i] = NoPod
    BY <1>0, <2>1, <2>2 DEF DepartInv, StatusInv
  <2>4. pods' = pods /\ sts'.template = sts.template
    BY <1>0, <1>5 DEF ScaledUp, TypeOK, StatefulSets
  <2>5. \A i \in Ordinals : i >= sts.replicas => ~ pods[i].deleting
    BY <1>1, <2>3
  <2>6. \A i \in Ordinals : i < sts.replicas \/ i >= sts.replicas
    BY <2>2
  <2>7. \A i \in Ordinals : pods[i].rev = sts.template => ~ pods[i].deleting
    BY <2>5, <2>6 DEF FreshInv
  <2> QED
    BY <2>4, <2>7 DEF FreshInv
<1>6. CASE ScaledDown
  <2>1. /\ view.ready - 1 < sts.replicas /\ sts.replicas \in Int /\ view.ready \in Int
        /\ Ordinals \subseteq Int
    BY <1>0, <1>6, ReplicasAssumption DEF ScaledDown, TypeOK, StatefulSets, Ordinals
  <2>2. pods' = pods /\ sts'.template = sts.template /\ sts'.replicas = view.ready - 1
    BY <1>0, <1>6 DEF ScaledDown, Retire, TypeOK, StatefulSets
  <2> QED
    BY <2>1, <2>2 DEF FreshInv
<1>7. CASE Recycled
  <2>1. pods[ord].rev # sts.template /\ pods[ord].state = "ready"
    BY <1>0, <1>7, RecyclesCurrent DEF Recycled
  <2>2. /\ pods' = [pods EXCEPT ![ord].deleting = TRUE] /\ sts' = sts /\ ord \in Ordinals
        /\ pods[ord] \in Pods
    BY <1>0, <1>7 DEF Recycled, TypeOK
  <2>3. /\ \A i \in Ordinals : i # ord => pods'[i] = pods[i]
        /\ pods'[ord].state = pods[ord].state /\ pods'[ord].rev = pods[ord].rev
    BY <1>0, <2>2 DEF TypeOK, Pods
  <2> QED
    BY <2>1, <2>2, <2>3 DEF FreshInv
<1>8. CASE SyncStatefulSet
  <2>1. sts'.replicas = sts.replicas /\ sts'.template = sts.template
    BY <1>0, <1>8 DEF SyncStatefulSet, TypeOK, StatefulSets
  <2> SUFFICES ASSUME NEW i \in Ordinals
               PROVE  /\ pods'[i].state = "unready" /\ ~ pods'[i].deleting => pods'[i].rev = sts.template
                      /\ i < sts.replicas /\ pods'[i].rev = sts.template => ~ pods'[i].deleting
    BY <2>1 DEF FreshInv
  <2>2. CASE i \in MissingPods
    <3>1. pods'[i] = [state |-> "unready", deleting |-> FALSE, rev |-> sts.template]
      BY <1>8, <2>2 DEF SyncStatefulSet
    <3> QED
      BY <3>1
  <2>3. CASE i \notin MissingPods
    <3>1. pods'[i] = [pods[i] EXCEPT !.deleting = @ \/ i \in SurplusPods] /\ pods[i] \in Pods
      BY <1>0, <1>8, <2>3 DEF SyncStatefulSet, TypeOK
    <3>2. /\ pods'[i].state = pods[i].state /\ pods'[i].rev = pods[i].rev
          /\ pods'[i].deleting = (pods[i].deleting \/ i \in SurplusPods)
      BY <3>1 DEF Pods
    <3>3. i < sts.replicas => i \notin SurplusPods
      <4>1. sts.replicas \in Int /\ Ordinals \subseteq Int
        BY <1>0, ReplicasAssumption DEF TypeOK, StatefulSets, Ordinals
      <4> QED
        BY <4>1 DEF SurplusPods
    <3> QED
      BY <3>2, <3>3 DEF FreshInv
  <2> QED
    BY <2>2, <2>3
<1>9. ASSUME NEW i \in Ordinals, PodStarted(i) \/ PodStopped(i) \/ PodGone(i)
      PROVE  FreshInv'
  <2>1. /\ sts' = sts
        /\ \A j \in Ordinals : j # i => pods'[j] = pods[j]
    BY <1>0, <1>9 DEF PodStarted, PodStopped, PodGone, SetPod, TypeOK
  <2>2. \/ /\ pods'[i].deleting = pods[i].deleting /\ pods'[i].rev = pods[i].rev
           /\ pods[i].deleting \/ pods'[i].state = "ready"
        \/ pods'[i].state = "absent" /\ ~ pods'[i].deleting
    <3>1. pods[i] \in Pods /\ \A p : SetPod(i, p) => pods'[i] = p
      BY <1>0 DEF TypeOK, SetPod
    <3>2. CASE PodStarted(i) \/ PodStopped(i)
      BY <3>1, <3>2 DEF PodStarted, PodStopped, Pods
    <3>3. CASE PodGone(i)
      <4>1. pods'[i] = NoPod
        BY <3>1, <3>3 DEF PodGone
      <4>2. NoPod.state = "absent" /\ ~ NoPod.deleting
        BY <1>1
      <4> QED
        BY <4>1, <4>2
    <3> QED
      BY <1>9, <3>2, <3>3
  <2> QED
    BY <2>1, <2>2 DEF FreshInv
<1> QED
  BY <1>2, <1>3, <1>4, <1>5, <1>6, <1>7, <1>8, <1>9 DEF Steps

\* What the peers, the pods and the cluster master do while a reconcile goes on or waits.
LEMMA PeersAlone ==
  ASSUME RolloutInv, PeersInv,
         UNCHANGED <<pc, view, ord, list, known>>,
         sts'.replicas = sts.replicas, sts'.template = sts.template,
         \A i \in Ordinals :
           i < sts.replicas
           => /\ peer'[i] \in Live => Serves(i)' \/ Returning(i)'
              /\ Serves(i) => Serves(i)'
              /\ peer'[i] \in Live /\ ~ Serves(i)' => peer[i] \in Live
              /\ peer[i] = "Up" /\ Serves(i) => peer'[i] = "Up"
              /\ pods[i].rev = sts.template => pods'[i].rev = sts.template
              /\ peer'[i] \in Live
                 => peer[i] \in Live \/ pc = "idle" \/ pods'[i].rev = sts.template
  PROVE  LiveInv' /\ ListInv' /\ PassedInv'
<1>1. LiveInv'
  BY DEF PeersInv, LiveInv
<1>2. ASSUME pc \in {"scale", "check"}, view.ready = view.replicas,
             NEW i \in Ordinals, i < sts.replicas, peer[i] = "Up"
      PROVE  peer'[i] = "Up"
  <2>1. Serves(i)
    BY <1>2 DEF PeersInv, LiveInv, Live
  <2> QED
    BY <1>2, <2>1
<1>3. ListInv'
  <2> SUFFICES ASSUME known, pc \in {"scale", "check"}, view.ready = view.replicas,
                      NEW i \in Ordinals, i < sts.replicas
               PROVE  /\ list[i] = "Up" => peer'[i] = "Up"
                      /\ list[i] \in Complete => peer'[i] \notin Live \/ pods'[i].rev = sts.template
    BY DEF ListInv
  <2>1. list[i] = "Up" => peer'[i] = "Up"
    BY <1>2 DEF PeersInv, ListInv
  <2>2. list[i] \in Complete => peer'[i] \notin Live \/ pods'[i].rev = sts.template
    BY DEF PeersInv, ListInv
  <2> QED
    BY <2>1, <2>2
<1>4. PassedInv'
  <2> SUFFICES ASSUME known, pc = "check", view.updateRev = sts.template,
                      NEW j \in Ordinals, ord < j, j < sts.replicas
               PROVE  peer'[j] = "Up" /\ pods'[j].rev = sts.template
    BY DEF PassedInv
  <2>1. view.ready = view.replicas
    BY DEF RolloutInv, RoundInv, PodsInv, ViewInv
  <2>2. peer[j] = "Up" /\ pods[j].rev = sts.template
    BY DEF PeersInv, PassedInv
  <2> QED
    BY <1>2, <2>1, <2>2
<1> QED
  BY <1>1, <1>3, <1>4

LEMMA PeerSteps ==
  ASSUME RolloutInv, PeersTypeOK, PeersInv, Peers
  PROVE  LiveInv' /\ ListInv' /\ PassedInv'
<1>1. CASE \E i \in Ordinals : PodAndPeerStarted(i)
  <2>1. PICK i \in Ordinals : PodAndPeerStarted(i)
    BY <1>1
  <2>2. /\ UNCHANGED <<sts, pc, view, ord, list, known>>
        /\ pods[i].state = "unready" /\ ~ pods[i].deleting
        /\ pods' = [pods EXCEPT ![i] = [pods[i] EXCEPT !.state = "ready"]]
        /\ peer' = [peer EXCEPT ![i] = "Joining"]
    BY <2>1 DEF PodAndPeerStarted, PodStarted, SetPod, opVars
  <2>3. pods[i].rev = sts.template
    BY <2>2 DEF PeersInv, FreshInv
  <2>4. /\ Serves(i)' /\ pods'[i].rev = pods[i].rev /\ peer'[i] = "Joining"
        /\ ~ Serves(i)
        /\ \A j \in Ordinals : j # i => pods'[j] = pods[j] /\ peer'[j] = peer[j]
    <3>1. pods \in [Ordinals -> Pods] /\ peer \in [Ordinals -> PeerStates]
      BY DEF RolloutInv, RoundInv, PodsInv, TypeOK, PeersTypeOK
    <3> QED
      BY <2>2, <3>1 DEF Serves, Pods
  <2>5. \A j \in Ordinals : j < sts.replicas /\ j # i /\ peer'[j] \in Live => Serves(j)' \/ Returning(j)'
    <3> SUFFICES ASSUME NEW j \in Ordinals, j < sts.replicas, j # i, peer'[j] \in Live, ~ Serves(j)
                 PROVE  Returning(j)'
      BY <2>4 DEF Serves
    <3>1. Returning(j)
      BY <2>4 DEF PeersInv, LiveInv
    <3>2. pods[i].state # "absent"
      BY <2>2
    <3> QED
      BY <2>2, <2>4, <3>1, <3>2 DEF Returning
  <2>6. \A j \in Ordinals : j # i => Serves(j)' = Serves(j)
    BY <2>4 DEF Serves
  <2> QED
    BY <2>2, <2>3, <2>4, <2>5, <2>6, PeersAlone
<1>2. CASE ~ \E i \in Ordinals : PodAndPeerStarted(i)
  <2>1. UNCHANGED <<vars, list, known>>
    BY <1>2 DEF Peers, PeerJoins, PeerLost, PeerLeaves, PeerRestarts,
         ClusterMasterRestarts, ClusterMasterReturns, ServiceStarts
  <2>2. \A i \in Ordinals :
          /\ peer'[i] \in Live => peer[i] \in Live \/ (pc = "idle" /\ Serves(i))
          /\ peer[i] = "Up" /\ Serves(i) => peer'[i] = "Up"
    <3>1. CASE \E i \in Ordinals : PeerJoins(i) \/ PeerLost(i) \/ PeerLeaves(i) \/ PeerRestarts(i)
      <4>1. PICK k \in Ordinals : PeerJoins(k) \/ PeerLost(k) \/ PeerLeaves(k) \/ PeerRestarts(k)
        BY <3>1
      <4>2. \A i \in Ordinals : i # k => peer'[i] = peer[i]
        BY <4>1 DEF PeerJoins, PeerLost, PeerLeaves, PeerRestarts, PeersTypeOK
      <4>3. /\ peer'[k] \in Live => peer[k] \in Live \/ (pc = "idle" /\ Serves(k))
            /\ peer[k] = "Up" /\ Serves(k) => peer'[k] = "Up"
        <5>1. CASE PeerJoins(k)
          BY <5>1 DEF PeerJoins, PeersTypeOK, Live
        <5>2. CASE PeerLost(k)
          BY <5>2 DEF PeerLost, PeersTypeOK, Live, Serves
        <5>3. CASE PeerLeaves(k)
          BY <5>3 DEF PeerLeaves, PeersTypeOK, Live
        <5>4. CASE PeerRestarts(k)
          BY <5>4 DEF PeerRestarts, PeersTypeOK, Live, Serves, Complete
        <5> QED
          BY <4>1, <5>1, <5>2, <5>3, <5>4
      <4> QED
        BY <4>2, <4>3
    <3>2. CASE ClusterMasterRestarts \/ ClusterMasterReturns \/ ServiceStarts
      BY <3>2 DEF ClusterMasterRestarts, ClusterMasterReturns, ServiceStarts, Live, Complete
    <3> QED
      BY <1>2, <3>1, <3>2 DEF Peers
  <2>3. /\ UNCHANGED <<sts, pods, pc, view, ord>>
        /\ \A i \in Ordinals : Serves(i)' = Serves(i) /\ Returning(i)' = Returning(i)
    BY <2>1 DEF vars, kubeVars, opVars, Serves, Returning
  <2>4. \A i \in Ordinals : i < sts.replicas /\ peer'[i] \in Live => Serves(i)' \/ Returning(i)'
    BY <2>2, <2>3 DEF PeersInv, LiveInv
  <2> QED
    BY <2>1, <2>2, <2>3, <2>4, PeersAlone
<1> QED
  BY <1>1, <1>2

\* The StatefulSet controller's count is short of replicas while a pod is still to come up.
LEMMA FewerReady ==
  ASSUME NEW n \in 1 .. MaxReplicas, NEW i \in 0 .. n - 1,
         ReadyPods \subseteq (0 .. n - 1) \ {i}
  PROVE  Cardinality(ReadyPods) < n
<1>1. IsFiniteSet(0 .. n - 1) /\ Cardinality(0 .. n - 1) = n
  BY FS_Interval, ReplicasAssumption
<1>2. IsFiniteSet((0 .. n - 1) \ {i}) /\ Cardinality((0 .. n - 1) \ {i}) = n - 1
  BY <1>1, FS_RemoveElement
<1>3. IsFiniteSet(ReadyPods) /\ Cardinality(ReadyPods) <= n - 1
  <2>1. /\ IsFiniteSet(ReadyPods)
        /\ Cardinality(ReadyPods) <= Cardinality((0 .. n - 1) \ {i})
    BY <1>2, FS_Subset
  <2> QED
    BY <1>2, <2>1
<1>4. Cardinality(ReadyPods) \in Nat /\ n \in Int
  BY <1>3, FS_CardinalityType, ReplicasAssumption
<1> QED
  BY <1>3, <1>4

LEMMA SurroundingPeers ==
  ASSUME RolloutInv, PeersTypeOK, KnownInv, PeersInv, Surroundings, MaxFaults = 0
  PROVE  LiveInv' /\ ListInv' /\ PassedInv'
<1>0. TypeOK /\ StatusInv
  BY DEF RolloutInv, RoundInv, PodsInv
<1>1. UNCHANGED <<peer, list>> /\ ~ Failure /\ known' = (known /\ pc' # "idle")
  BY <1>0, NothingFails DEF Surroundings, KeepPeers, peerVars, Remember
<1>2. CASE SyncStatefulSet
  <2>1. UNCHANGED <<pc, view, ord>> /\ sts'.ready = Cardinality(ReadyPods)
        /\ sts'.replicas = sts.replicas /\ sts'.template = sts.template
    BY <1>0, <1>2 DEF SyncStatefulSet, opVars, TypeOK, StatefulSets
  <2>2. sts.replicas \in 0 .. MaxReplicas /\ Ordinals \subseteq Int
    BY <1>0, ReplicasAssumption DEF TypeOK, StatefulSets, Ordinals
  <2>3. ASSUME NEW i \in Ordinals
        PROVE  /\ pods'[i].state = "ready" <=> pods[i].state = "ready"
               /\ pods[i].state = "absent" /\ i >= sts.replicas => pods'[i].state = "absent"
               /\ i < sts.replicas /\ pods[i].state # "absent" => pods'[i].deleting = pods[i].deleting
               /\ pods[i].rev = sts.template => pods'[i].rev = sts.template
    <3>1. CASE i \in MissingPods
      <4>1. pods'[i] = [state |-> "unready", deleting |-> FALSE, rev |-> sts.template]
        BY <1>2, <3>1 DEF SyncStatefulSet
      <4>2. i < sts.replicas /\ pods[i].state = "absent"
        BY <3>1 DEF MissingPods
      <4>3. ~ (i >= sts.replicas)
        BY <2>2, <4>2
      <4> QED
        BY <4>1, <4>2, <4>3
    <3>2. CASE i \notin MissingPods
      <4>1. pods'[i] = [pods[i] EXCEPT !.deleting = @ \/ i \in SurplusPods] /\ pods[i] \in Pods
        BY <1>0, <1>2, <3>2 DEF SyncStatefulSet, TypeOK
      <4>2. /\ pods'[i].state = pods[i].state /\ pods'[i].rev = pods[i].rev
            /\ pods'[i].deleting = (pods[i].deleting \/ i \in SurplusPods)
            /\ pods[i].deleting \in BOOLEAN
        BY <4>1 DEF Pods
      <4>3. i < sts.replicas => i \notin SurplusPods
        BY <2>2 DEF SurplusPods
      <4> QED
        BY <4>2, <4>3
    <3> QED
      BY <3>1, <3>2
  <2>4. \A i \in Ordinals : i < sts.replicas /\ Serves(i) => Serves(i)'
    BY <2>3 DEF Serves
  <2>5. \A i \in Ordinals : i < sts.replicas /\ ~ Serves(i) /\ Returning(i) => Returning(i)'
    <3> SUFFICES ASSUME NEW i \in Ordinals, i < sts.replicas, Returning(i)
                 PROVE  Returning(i)'
      OBVIOUS
    <3>1. ReadyPods \subseteq (0 .. sts.replicas - 1) \ {i}
      <4> SUFFICES ASSUME NEW k \in Ordinals, pods[k].state = "ready"
                   PROVE  k \in 0 .. sts.replicas - 1 /\ k # i
        BY DEF ReadyPods
      <4>1. k < sts.replicas
        BY <2>2 DEF Returning
      <4> QED
        BY <2>2, <4>1 DEF Returning, Ordinals
    <3>2. i \in 0 .. sts.replicas - 1 /\ sts.replicas \in 1 .. MaxReplicas
      BY <2>2, ReplicasAssumption DEF Ordinals
    <3>3. Cardinality(ReadyPods) < sts.replicas
      BY <3>1, <3>2, FewerReady
    <3> QED
      BY <2>1, <2>3, <3>3 DEF Returning
  <2>6. \A i \in Ordinals : i < sts.replicas /\ peer[i] \in Live => Serves(i) \/ Returning(i)
    BY DEF PeersInv, LiveInv
  <2>7. known' = known
    BY <1>1, <2>1 DEF PeersTypeOK, KnownInv
  <2> QED
    BY <1>1, <2>1, <2>3, <2>4, <2>5, <2>6, <2>7, PeersAlone
<1>3. ASSUME NEW k \in Ordinals, PodStopped(k) \/ PodGone(k)
      PROVE  LiveInv' /\ ListInv' /\ PassedInv'
  <2>1. UNCHANGED <<sts, pc, view, ord>> /\ \A j \in Ordinals : j # k => pods'[j] = pods[j]
    BY <1>0, <1>3 DEF PodStopped, PodGone, SetPod, opVars, TypeOK
  <2>2. pods[k].deleting /\ pods'[k].state \in {"unready", "absent"}
        /\ (pods[k].state = "absent" => pods'[k].state = "absent")
    <3>1. pods[k] \in Pods /\ NoPod.state = "absent" /\ \A p : SetPod(k, p) => pods'[k] = p
      BY <1>0 DEF TypeOK, SetPod, NoPod
    <3>2. CASE PodStopped(k)
      BY <3>1, <3>2 DEF PodStopped, Pods
    <3>3. CASE PodGone(k)
      BY <3>1, <3>3 DEF PodGone
    <3> QED
      BY <1>3, <3>2, <3>3
  <2>3. \A i \in Ordinals : Serves(i) => i # k /\ Serves(i)'
    BY <2>1, <2>2 DEF Serves
  <2>4. \A i \in Ordinals : Returning(i) => Returning(i)'
    <3> SUFFICES ASSUME NEW i \in Ordinals, Returning(i) PROVE Returning(i)'
      OBVIOUS
    <3>1. pods'[i].state # "ready"
      BY <2>1, <2>2 DEF Returning
    <3>2. \A j \in Ordinals : j >= sts.replicas => pods'[j].state = "absent"
      BY <2>1, <2>2 DEF Returning
    <3> QED
      BY <2>1, <3>1, <3>2 DEF Returning
  <2>5. \A i \in Ordinals :
          i < sts.replicas /\ pods[i].rev = sts.template => pods'[i].rev = sts.template
    BY <2>1, <2>2 DEF PeersInv, FreshInv
  <2>6. \A i \in Ordinals : i < sts.replicas /\ peer[i] \in Live => Serves(i) \/ Returning(i)
    BY DEF PeersInv, LiveInv
  <2>7. known' = known
    BY <1>1, <2>1 DEF PeersTypeOK, KnownInv
  <2> QED
    BY <1>1, <2>1, <2>3, <2>4, <2>5, <2>6, <2>7, PeersAlone
<1>4. CASE EditResource \/ EditNamespaceSecret
  <2>1. UNCHANGED <<sts, pods, pc, view, ord>>
    BY <1>4 DEF EditResource, EditNamespaceSecret, kubeVars, opVars
  <2>2. \A i \in Ordinals : Serves(i)' = Serves(i) /\ Returning(i)' = Returning(i)
    BY <2>1 DEF Serves, Returning
  <2>3. \A i \in Ordinals : i < sts.replicas /\ peer[i] \in Live => Serves(i) \/ Returning(i)
    BY DEF PeersInv, LiveInv
  <2>4. known' = known
    BY <1>1, <2>1 DEF PeersTypeOK, KnownInv
  <2> QED
    BY <1>1, <2>1, <2>2, <2>3, <2>4, PeersAlone
<1> QED
  BY <1>1, <1>2, <1>3, <1>4 DEF Surroundings

\* A reconcile that ends, or goes on to the claims, relies on the list no more.
LEMMA EndPeers ==
  ASSUME pc' \in {"idle", "apply", "claims", "prune"},
         \A i \in Ordinals : i < sts'.replicas /\ peer'[i] \in Live => Serves(i)' \/ Returning(i)'
  PROVE  LiveInv' /\ ListInv' /\ PassedInv'
  BY DEF LiveInv, ListInv, PassedInv

LEMMA EndHere ==
  ASSUME PeersInv, UNCHANGED <<sts, pods, peer>>,
         pc' \in {"idle", "apply", "claims", "prune"}
  PROVE  LiveInv' /\ ListInv' /\ PassedInv'
<1>1. \A i \in Ordinals : i < sts'.replicas /\ peer'[i] \in Live => Serves(i)' \/ Returning(i)'
  BY DEF PeersInv, LiveInv, Serves, Returning
<1> QED
  BY <1>1, EndPeers

\* Decommissioning asks only a peer that is Up.
LEMMA DecommissionLive ==
  ASSUME PeersTypeOK, NEW n, NEW m, Decommission(n, m)
  PROVE  \A i \in Ordinals : peer'[i] \in Live => peer[i] \in Live
  BY DEF Decommission, PeersTypeOK, Live

\* ApplyStatefulSet reads no peers; what it reads of the StatefulSet counts only pods that
\* serve.
LEMMA ApplyPeers ==
  ASSUME RolloutInv, PeersTypeOK, KnownInv, PeersInv, ApplyStatefulSet
  PROVE  LiveInv' /\ ListInv' /\ PassedInv'
<1>0. TypeOK /\ ChangeInv /\ sts.ready \in Int /\ sts.replicas \in Int
  BY DEF RolloutInv, RoundInv, PodsInv, TypeOK, StatefulSets
<1>1. peer' = peer /\ ~ known' /\ pods' = pods
  <2>1. pc = "apply"
    BY DEF ApplyStatefulSet, CreateStatefulSet, UpdateTemplate, KeepTemplate
  <2> QED
    BY <2>1 DEF ApplyStatefulSet, CreateStatefulSet, UpdateTemplate, KeepTemplate, KeepPeers,
                peerVars, Remember, KnownInv, kubeVars
<1>2. CASE CreateStatefulSet
  <2>1. /\ pc' = "idle" /\ sts'.ready = 0 /\ sts'.replicas = req.replicas
        /\ \A i \in Ordinals : pods[i] = NoPod
    BY <1>0, <1>2 DEF CreateStatefulSet, ChangeInv, NoStatefulSet, Finish, End
  <2>2. req.replicas > 0 /\ NoPod.state = "absent"
    BY <1>0 DEF TypeOK, NoPod
  <2>3. \A i \in Ordinals : Returning(i)'
    BY <1>1, <2>1, <2>2 DEF Returning
  <2> QED
    BY <2>1, <2>3, EndPeers
<1>3. CASE UpdateTemplate \/ KeepTemplate
  <2>1. /\ sts'.ready = sts.ready /\ sts'.replicas = sts.replicas
        /\ pc' = "idle" \/ (pc' = "scale" /\ view' = sts')
    BY <1>0, <1>3 DEF UpdateTemplate, KeepTemplate, Finish, End, GoTo, kubeVars, TypeOK, StatefulSets
  <2>2. \A i \in Ordinals : Serves(i)' = Serves(i) /\ Returning(i)' = Returning(i)
    BY <1>1, <2>1 DEF Serves, Returning
  <2>3. \A i \in Ordinals : i < sts'.replicas /\ peer'[i] \in Live => Serves(i)' \/ Returning(i)'
    BY <1>1, <2>1, <2>2 DEF PeersInv, LiveInv
  <2>4. sts'.ready = sts'.replicas => \A i \in Ordinals : ~ Returning(i)'
    BY <1>0, <2>1 DEF Returning
  <2>5. LiveInv'
    BY <2>1, <2>3, <2>4 DEF LiveInv
  <2> QED
    BY <1>1, <2>5 DEF ListInv, PassedInv
<1> QED
  BY <1>2, <1>3 DEF ApplyStatefulSet

\* The answers of the pod manager take a peer down only when the list that says so still
\* holds, and only for a pod of another revision than the template.
LEMMA ManagerPeers ==
  ASSUME RolloutInv, PeersTypeOK, KnownInv, PeersInv, PrepareScaleDown \/ PrepareRecycle
  PROVE  LiveInv' /\ ListInv' /\ PassedInv'
<1>0. TypeOK /\ ViewInv /\ RoundInv /\ Ordinals \subseteq Int
  BY ReplicasAssumption DEF RolloutInv, RoundInv, PodsInv, Ordinals
<1>1. /\ known /\ pc \in {"scale", "check"} /\ pc' \in {"idle", "claims"}
      /\ view.ready = view.replicas
  BY <1>0 DEF PrepareScaleDown, PrepareRecycle, ScaleDown, RecyclePod, Finish, End, GoTo, ViewInv
<1>2. \A i \in Ordinals : i < sts.replicas /\ peer[i] \in Live => Serves(i)
  BY <1>1 DEF PeersInv, LiveInv
<1>3. CASE PrepareScaleDown
  <2>1. \A i \in Ordinals : peer'[i] \in Live => peer[i] \in Live
    <3>1. CASE Decommission(view.ready - 1, "enforced")
      BY <3>1, DecommissionLive
    <3>2. CASE peer' \in {peer, [peer EXCEPT ![view.ready - 1] = ""]}
      BY <3>2 DEF PeersTypeOK, Live
    <3> QED
      BY <1>3, <3>1, <3>2 DEF PrepareScaleDown
  <2>2. pods' = pods /\ sts'.replicas <= sts.replicas
    <3>1. pods' = pods /\ (sts' = sts \/ (sts' = [sts EXCEPT !.replicas = view.ready - 1]))
      BY <1>3 DEF PrepareScaleDown, ScaleDown, Retire
    <3>2. sts.replicas = view.ready /\ view.ready \in Int /\ sts \in StatefulSets
      <4>1. pc = "scale"
        BY <1>3 DEF PrepareScaleDown, ScaleDown
      <4> QED
        BY <1>0, <1>1, <4>1 DEF ViewInv, TypeOK, StatefulSets
    <3> QED
      BY <3>1, <3>2 DEF StatefulSets
  <2>3. sts.replicas \in Int /\ sts'.replicas \in Int
    <3>1. view.ready \in Int /\ sts \in StatefulSets
      BY <1>0 DEF TypeOK, StatefulSets
    <3>2. sts' = sts \/ sts' = [sts EXCEPT !.replicas = view.ready - 1]
      BY <1>3 DEF PrepareScaleDown, ScaleDown, Retire
    <3> QED
      BY <3>1, <3>2 DEF StatefulSets
  <2>4. \A i \in Ordinals : i < sts'.replicas /\ peer'[i] \in Live => Serves(i)'
    BY <1>0, <1>2, <2>1, <2>2, <2>3 DEF Serves
  <2> QED
    BY <1>1, <2>4, EndPeers
<1>4. CASE PrepareRecycle
  <2>1. /\ pc = "check" /\ pods[ord].state = "ready" /\ Outdated(ord) /\ ord \in Ordinals
        /\ sts' = sts
    BY <1>0, <1>4 DEF PrepareRecycle, RecyclePod, TypeOK
  <2>2. CASE DecommissionVerdict(ord) = "ready"
    <3>1. list[ord] \in Complete
      BY <2>2 DEF DecommissionVerdict
    <3>2. peer' = peer /\ pods' = [pods EXCEPT ![ord].deleting = TRUE]
      BY <1>4, <2>2, <3>1 DEF PrepareRecycle, RecyclePod, Complete
    <3>3. pods[ord].rev # sts.template
      BY <1>0, <2>1, RecyclesCurrent
    <3>4. \A i \in Ordinals : i < sts.replicas /\ peer[i] \in Live => i # ord
      BY <1>1, <2>1, <3>1, <3>3 DEF PeersInv, ListInv
    <3>5. \A i \in Ordinals : i # ord => pods'[i] = pods[i]
      BY <1>0, <3>2 DEF TypeOK
    <3>6. \A i \in Ordinals : i < sts'.replicas /\ peer'[i] \in Live => Serves(i)'
      BY <1>2, <2>1, <3>2, <3>4, <3>5 DEF Serves
    <3> QED
      BY <1>1, <3>6, EndPeers
  <2>3. CASE DecommissionVerdict(ord) # "ready"
    <3>1. pods' = pods /\ (Decommission(ord, "fast") \/ peer' = peer)
      BY <1>4, <2>3 DEF PrepareRecycle, RecyclePod
    <3>2. \A i \in Ordinals : peer'[i] \in Live => peer[i] \in Live
      BY <3>1, DecommissionLive
    <3>3. \A i \in Ordinals : i < sts'.replicas /\ peer'[i] \in Live => Serves(i)'
      BY <1>2, <2>1, <3>1, <3>2 DEF Serves
    <3> QED
      BY <1>1, <3>3, EndPeers
  <2> QED
    BY <2>2, <2>3
<1> QED
  BY <1>3, <1>4

\* FinishRecycle goes on only past a peer that was Up when the list was read, and still is.
LEMMA FinishPeers ==
  ASSUME RolloutInv, PeersTypeOK, KnownInv, PeersInv, FinishRecycle
  PROVE  LiveInv' /\ ListInv' /\ PassedInv'
<1>0. TypeOK /\ ViewInv /\ OrderInv /\ Ordinals \subseteq Int
  BY ReplicasAssumption DEF RolloutInv, RoundInv, PodsInv, Ordinals
<1>1. /\ known /\ pc = "check" /\ UNCHANGED <<sts, pods, peer, list>> /\ ord \in Ordinals
      /\ ~ Outdated(ord) /\ known' = (known /\ pc' # "idle")
      /\ view.ready = view.replicas /\ sts.template # NoRevision
  BY <1>0, RevisionAssumption
  DEF FinishRecycle, FinishPod, TypeOK, kubeVars, KeepPeers, peerVars, Remember, ViewInv, OrderInv
<1>2. \/ pc' \in {"idle", "prune"}
      \/ pc' = "check" /\ ord' = ord - 1 /\ view' = view /\ list[ord] = "Up" /\ known'
  BY <1>1 DEF FinishRecycle, FinishPod, Finish, End, GoTo
<1>3. CASE pc' = "check"
  <2>1. ord' = ord - 1 /\ view' = view /\ list[ord] = "Up" /\ known' = known
    BY <1>1, <1>2, <1>3
  <2>2. LiveInv' /\ ListInv'
    BY <1>1, <1>3, <2>1 DEF PeersInv, LiveInv, ListInv, Serves, Returning
  <2>3. PassedInv'
    <3> SUFFICES ASSUME view.updateRev = sts.template,
                        NEW j \in Ordinals, ord - 1 < j, j < sts.replicas
                 PROVE  peer[j] = "Up" /\ pods[j].rev = sts.template
      BY <1>1, <2>1 DEF PassedInv
    <3>1. CASE j = ord
      BY <1>1, <2>1, <3>1 DEF Outdated, PeersInv, ListInv
    <3>2. CASE ord < j
      BY <1>1, <3>2 DEF PeersInv, PassedInv
    <3> QED
      BY <1>0, <1>1, <3>1, <3>2
  <2> QED
    BY <2>2, <2>3
<1>4. CASE pc' # "check"
  BY <1>1, <1>2, <1>4, EndHere
<1> QED
  BY <1>3, <1>4

LEMMA OtherPeers ==
  ASSUME RolloutInv, PeersTypeOK, KnownInv, PeersInv, OtherSteps
  PROVE  LiveInv' /\ ListInv' /\ PassedInv'
<1>0. TypeOK /\ ViewInv /\ DepartInv /\ RoundInv
  BY DEF RolloutInv, RoundInv, PodsInv
<1>1. known /\ UNCHANGED <<peer, list>> /\ known' = (known /\ pc' # "idle")
  BY DEF OtherSteps, KeepPeers, peerVars, Remember
<1>2. CASE NoScaling
  <2>1. /\ pc = "scale" /\ pc' = "check" /\ ord' = view.ready - 1 /\ UNCHANGED <<view, sts, pods>>
        /\ view.ready = view.replicas
    BY <1>2 DEF NoScaling, GoTo, kubeVars
  <2>2. sts.replicas = view.ready /\ sts.replicas \in Int /\ Ordinals \subseteq Int
    BY <1>0, <2>1, ReplicasAssumption DEF ViewInv, TypeOK, StatefulSets, Ordinals
  <2>3. LiveInv' /\ ListInv'
    BY <1>1, <2>1 DEF PeersInv, LiveInv, ListInv, Serves, Returning
  <2>4. \A j \in Ordinals : ~ (ord' < j /\ j < sts'.replicas)
    BY <2>1, <2>2
  <2>5. PassedInv'
    BY <2>4 DEF PassedInv
  <2> QED
    BY <2>3, <2>5
<1>3. CASE ScaleUp /\ sts' # sts
  <2>1. /\ pc = "scale" /\ pc' = "idle" /\ sts = view /\ pods' = pods
        /\ view.ready = view.replicas /\ view.ready < req.replicas
        /\ sts' = [sts EXCEPT !.replicas = req.replicas]
    BY <1>3 DEF ScaleUp, Finish, End
  <2>2. /\ sts'.replicas = req.replicas /\ sts'.ready = sts.replicas /\ req.replicas \in Int
        /\ sts.replicas \in Int /\ sts.replicas < req.replicas /\ Ordinals \subseteq Int
    BY <1>0, <2>1, ReplicasAssumption DEF TypeOK, StatefulSets, Ordinals
  <2>3. Current /\ Wanted = req.replicas
    BY <1>0, <2>1, <2>2, ScalesCurrent DEF Current
  <2>4. \A i \in Ordinals : i >= sts.replicas => pods[i].state = "absent"
    BY <1>0, <2>2, <2>3 DEF DepartInv
  <2>5. \A i \in Ordinals : i < sts.replicas /\ peer[i] \in Live => Serves(i)
    BY <2>1 DEF PeersInv, LiveInv
  <2>6. ASSUME NEW i \in Ordinals, i >= sts.replicas PROVE Returning(i)'
    <3>1. \A j \in Ordinals : j >= sts'.replicas => pods'[j].state = "absent"
      BY <2>1, <2>2, <2>4
    <3> QED
      BY <2>1, <2>2, <2>4, <2>6, <3>1 DEF Returning
  <2>7. \A i \in Ordinals : i < sts'.replicas /\ peer'[i] \in Live => Serves(i)' \/ Returning(i)'
    BY <1>1, <2>1, <2>2, <2>5, <2>6 DEF Serves
  <2> QED
    BY <2>1, <2>7, EndPeers
<1>4. CASE ~ NoScaling /\ sts' = sts
  <2>1. pc' \in {"idle", "claims", "prune"} /\ pods' = pods
    BY <1>4 DEF OtherSteps, WaitForReplicas, ScaleUp, WaitForPod, RemoveUnwantedSecrets,
           DeleteClaim, ClaimNotFound, ClaimsDeleted, Finish, End, GoTo, kubeVars
  <2> QED
    BY <1>1, <1>4, <2>1, EndHere
<1>5. ~ NoScaling /\ ~ ScaleUp => sts' = sts
  BY DEF OtherSteps, WaitForReplicas, WaitForPod, RemoveUnwantedSecrets,
         DeleteClaim, ClaimNotFound, ClaimsDeleted, kubeVars
<1> QED
  BY <1>2, <1>3, <1>4, <1>5

LEMMA NextPeers ==
  ASSUME RolloutInv, PeersTypeOK, KnownInv, PeersInv, [IdxNext]_idxVars, [Next]_vars,
         MaxFaults = 0
  PROVE  PeersInv'
<1>1. FreshInv'
  <2>1. TypeOK
    BY DEF RolloutInv, RoundInv, PodsInv
  <2>2. CASE Next
    BY <2>1, <2>2, EveryStep, FreshStep DEF PeersInv
  <2>3. CASE UNCHANGED vars
    BY <2>3 DEF vars, kubeVars, FreshInv, PeersInv
  <2> QED
    BY <2>2, <2>3
<1>2. LiveInv' /\ ListInv' /\ PassedInv'
  <2>1. CASE StartReconcile /\ KeepPeers /\ Remember
    <3>1. UNCHANGED <<sts, pods, peer>> /\ pc' = "apply"
      BY <2>1 DEF StartReconcile, Build, KeepPeers, peerVars, kubeVars
    <3> QED
      BY <3>1, EndHere
  <2>2. CASE ClusterNotReady
    <3>1. UNCHANGED <<sts, pods, peer>> /\ pc' = "idle"
      BY <2>2 DEF ClusterNotReady, Finish, End, KeepPeers, peerVars, kubeVars
    <3> QED
      BY <3>1, EndHere
  <2>3. CASE UpdateStatus
    <3>1. UNCHANGED <<vars, peer>> /\ pc = "scale" /\ list' = peer
      BY <2>3 DEF UpdateStatus, peerVars
    <3>2. LiveInv'
      BY <3>1 DEF PeersInv, LiveInv, Serves, Returning, vars, kubeVars, opVars
    <3>3. ListInv' /\ PassedInv'
      BY <3>1 DEF ListInv, PassedInv, Live, Complete, vars, opVars
    <3> QED
      BY <3>2, <3>3
  <2>4. CASE UNCHANGED idxVars
    BY <2>4 DEF idxVars, vars, kubeVars, opVars, peerVars, PeersInv, LiveInv, ListInv, PassedInv,
                Serves, Returning
  <2> QED
    BY <2>1, <2>2, <2>3, <2>4, ApplyPeers, ManagerPeers, FinishPeers, OtherPeers, SurroundingPeers,
       PeerSteps
    DEF IdxNext, IdxReconcile
<1> QED
  BY <1>1, <1>2 DEF PeersInv

\* The inductive invariant of the peers, on top of that of a rollout.
THEOREM PeersInvariant ==
  ASSUME PatientUser, MaxFaults = 0
  PROVE  IdxSpec => []PeersInv
<1>1. IdxInit => PeersInv
  <2> SUFFICES ASSUME IdxInit PROVE PeersInv
    OBVIOUS
  <2>1. /\ pc = "idle" /\ \A i \in Ordinals : peer[i] = "" /\ pods[i] = NoPod
    BY DEF IdxInit, Init
  <2>2. NoPod.state = "absent" /\ ~ NoPod.deleting
    BY DEF NoPod
  <2>3. FreshInv
    BY <2>1, <2>2 DEF FreshInv
  <2> QED
    BY <2>1, <2>3 DEF PeersInv, LiveInv, ListInv, PassedInv, Live
<1>2. ASSUME RolloutInv, PeersTypeOK /\ KnownInv, PeersInv, [IdxNext]_idxVars PROVE PeersInv'
  BY <1>2, NextPeers, NextPods
<1>3. IdxSpec => []RolloutInv
  BY IndexerClusterImplementsPods, RolloutInvariant, PTL DEF ImplementsPods
<1> QED
  BY <1>1, <1>2, <1>3, PeersTypes, PTL DEF IdxSpec

\* FinishRecycle holds the loop until every peer it has passed is Up: with one change at a
\* time and without faults, they still are when the next is decommissioned, whenever the
\* cluster master restarts.
THEOREM PeersBackCorrect ==
  ASSUME PatientUser, MaxFaults = 0
  PROVE  IdxSpec => PeersBackBeforeNext
<1> DEFINE Back ==
      \A i, j \in Ordinals :
         /\ mode[i] # "fast" /\ mode'[i] = "fast"
         /\ i < j /\ j < sts.replicas
         => peer[j] = "Up" /\ pods[j].rev = view.updateRev
<1>1. ASSUME RolloutInv, PeersTypeOK /\ KnownInv, PeersInv, [IdxNext]_idxVars PROVE Back
  <2> SUFFICES ASSUME NEW i \in Ordinals, NEW j \in Ordinals,
                      mode[i] # "fast", mode'[i] = "fast", i < j, j < sts.replicas
               PROVE  peer[j] = "Up" /\ pods[j].rev = view.updateRev
    OBVIOUS
  <2>1. PrepareRecycle /\ Decommission(ord, "fast")
    <3>1. CASE PrepareScaleDown
      BY <1>1, <3>1 DEF PrepareScaleDown, Decommission, PeersTypeOK
    <3>2. CASE Peers
      <4>1. CASE ClusterMasterRestarts \/ ClusterMasterReturns \/ ServiceStarts
        BY <4>1 DEF ClusterMasterRestarts, ClusterMasterReturns, ServiceStarts
      <4>2. ASSUME NEW k \in Ordinals, PodAndPeerStarted(k) \/ PeerJoins(k) \/ PeerLost(k)
                                       \/ PeerLeaves(k) \/ PeerRestarts(k)
            PROVE  FALSE
        <5>1. \/ mode' = mode
              \/ \E m \in {"none", "drained", mode[k]} : mode' = [mode EXCEPT ![k] = m]
          BY <4>2 DEF PodAndPeerStarted, PeerJoins, PeerLost, PeerLeaves, PeerRestarts
        <5> QED
          BY <1>1, <5>1 DEF PeersTypeOK
      <4> QED
        BY <3>2, <4>1, <4>2 DEF Peers
    <3>3. CASE ~ PrepareScaleDown /\ ~ PrepareRecycle /\ ~ Peers
      <4>1. mode' = mode
        BY <1>1, <3>3 DEF IdxNext, IdxReconcile, ClusterNotReady, ApplyStatefulSet, UpdateStatus,
               FinishRecycle, OtherSteps, Surroundings, KeepPeers, peerVars, idxVars
      <4> QED
        BY <4>1
    <3>4. CASE PrepareRecycle
      BY <3>4 DEF PrepareRecycle
    <3> QED
      BY <3>1, <3>2, <3>3, <3>4
  <2>2. i = ord /\ known
    BY <1>1, <2>1 DEF Decommission, PrepareRecycle, PeersTypeOK
  <2>3. pc = "check" /\ view.updateRev = sts.template
    BY <1>1, <2>1, RecyclesCurrent DEF PrepareRecycle, RecyclePod, RolloutInv
  <2> QED
    BY <1>1, <2>2, <2>3 DEF PeersInv, PassedInv
<1>2. IdxSpec => []RolloutInv
  BY IndexerClusterImplementsPods, RolloutInvariant, PTL DEF ImplementsPods
<1>3. IdxSpec => [][Back]_idxVars
  BY <1>1, <1>2, PeersTypes, PeersInvariant, PTL DEF IdxSpec
<1> QED
  BY <1>3 DEF PeersBackBeforeNext
=============================================================================
