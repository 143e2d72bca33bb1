--------------------------- MODULE IndexerCluster ---------------------------
(***************************************************************************)
(* The indexer cluster's pod manager (pkg/splunk/enterprise,               *)
(* indexercluster.go) on top of StatefulSetPods: what its Update asks the  *)
(* cluster master before UpdateStatefulSetPods, and how PrepareScaleDown,  *)
(* PrepareRecycle and FinishRecycle answer from the status of the peers.   *)
(*                                                                         *)
(* Every step of the operator here is a step of StatefulSetPods together   *)
(* with what it reads or changes in the Splunk cluster.  The status of the *)
(* peers is read once per reconcile and used after other calls; the peers  *)
(* live on meanwhile.                                                      *)
(***************************************************************************)
EXTENDS StatefulSetPods

CONSTANT
  MaxOutages          \* bound: how often the cluster master restarts

ASSUME ManagerAssumption == KeepsGoing /\ Verdicts = {"ready", "wait", "error"}
ASSUME OutagesAssumption == MaxOutages \in Nat

\* verifyRFPeers raises replicas to the replication factor of the cluster master.
ReplicationFactor == MinReplicas

VARIABLES
  peer,      \* the status of each peer at the cluster master
  mode,      \* how a peer was last asked to leave, and whether its data is elsewhere
  cmReady,   \* the cluster master answers and its resource is Ready
  service,   \* its flags: initialized, indexing ready, service ready
  outages,   \* how much of the bound is used
  list,      \* status.peers: what the last updateStatus read
  known      \* this reconcile has read it

peerVars == <<peer, mode, cmReady, service, outages>>
idxVars  == <<vars, peerVars, list, known>>

\* "" is a peer the cluster master does not know; "Joining" stands for every status
\* the operator does not handle; "Decommissioning" includes "ReassigningPrimaries".
PeerStates == {"", "Joining", "Up", "Decommissioning", "GracefulShutdown", "Down"}
Modes == {"none", "fast", "enforced", "drained"}

PeersTypeOK ==
  /\ peer \in [Ordinals -> PeerStates]
  /\ mode \in [Ordinals -> Modes]
  /\ cmReady \in BOOLEAN /\ service \in BOOLEAN /\ outages \in Nat
  /\ list \in [Ordinals -> PeerStates]
  /\ known \in BOOLEAN

IdxInit ==
  /\ Init
  /\ peer = [i \in Ordinals |-> ""]
  /\ mode = [i \in Ordinals |-> "none"]
  /\ cmReady = TRUE /\ service = FALSE /\ outages = 0
  /\ list = [i \in Ordinals |-> ""]
  /\ known = FALSE

\* Steps that leave the peers alone, and the end of a reconcile.
KeepPeers == UNCHANGED peerVars
Remember == UNCHANGED list /\ known' = (known /\ pc' # "idle")

-----------------------------------------------------------------------------
(***************************************************************************)
(* indexerClusterPodManager.Update                                         *)
(***************************************************************************)

Serving == cmReady /\ service /\ view.ready > 0

\* Mutant: a cluster that is not ready counts as Ready.
ClusterNotReadyIsReady ==
  /\ \/ pc = "apply" /\ ~ cmReady
     \/ pc = "scale" /\ ~ known /\ ~ Serving
  /\ UNCHANGED <<crVars, secretVars, kubeVars, faults>>
  /\ Finish("Ready")
  /\ list' = IF pc = "scale" /\ cmReady THEN peer ELSE list
  /\ KeepPeers /\ UNCHANGED known

\* Nothing is applied while the cluster master is not ready, and the StatefulSet is
\* left alone while the cluster is not: no ready pod, or no service.
ClusterNotReady ==
  /\ \/ pc = "apply" /\ ~ cmReady
     \/ pc = "scale" /\ ~ known /\ ~ Serving
  /\ UNCHANGED <<crVars, secretVars, kubeVars, faults>>
  /\ Finish("Pending") \/ (pc = "apply" /\ Finish("Error"))
  /\ list' = IF pc = "scale" /\ cmReady THEN peer ELSE list
  /\ KeepPeers /\ UNCHANGED known

ApplyStatefulSet ==
  /\ cmReady
  /\ CreateStatefulSet \/ UpdateTemplate \/ KeepTemplate
  /\ KeepPeers /\ Remember

UpdateStatus ==
  /\ pc = "scale" /\ ~ known
  /\ Serving
  /\ list' = peer /\ known' = TRUE
  /\ UNCHANGED <<vars, peerVars>>

(***************************************************************************)
(* The pod manager                                                         *)
(***************************************************************************)

\* Mutant: the peer's status is taken from the mode.
DecommissionToMode(n, m) ==
  IF peer[n] = "Up"
  THEN peer' = [peer EXCEPT ![n] = m] /\ mode' = [mode EXCEPT ![n] = m]
  ELSE UNCHANGED <<peer, mode>>

\* DecommissionIndexerClusterPeer on pod n, whose splunkd may be gone by now.
Decommission(n, m) ==
  IF peer[n] = "Up"
  THEN peer' = [peer EXCEPT ![n] = "Decommissioning"] /\ mode' = [mode EXCEPT ![n] = m]
  ELSE UNCHANGED <<peer, mode>>

\* The verdict of decommission(n), which has no effect unless it sends a request.
Complete == {"GracefulShutdown", "Down"}

DecommissionVerdict(n) ==
  CASE list[n] \in Complete                 -> "ready"
    [] list[n] \in {"Decommissioning", ""}  -> "wait"
    [] list[n] = "Up" /\ peer[n] = "Up"     -> "wait"
    [] OTHER                                -> "error"

\* Mutant: the peer is decommissioned with enforceCounts=false.
PrepareScaleDownUnenforced ==
  LET n == view.ready - 1
      removed == cmReady /\ peer[n] \in Complete \union {""}
      v == IF list[n] \in Complete /\ ~ removed THEN "error" ELSE DecommissionVerdict(n)
  IN /\ known
     /\ ScaleDown(v)
     /\ IF list[n] = "Up" THEN Decommission(n, "fast")
        ELSE IF v = "ready" THEN peer' = [peer EXCEPT ![n] = ""] /\ UNCHANGED mode
        ELSE UNCHANGED <<peer, mode>>
     /\ UNCHANGED <<cmReady, service, outages>> /\ Remember

\* The cluster master removes a peer that has left, and refuses one that is back.
PrepareScaleDown ==
  LET n == view.ready - 1
      removed == cmReady /\ peer[n] \in Complete \union {""}
      v == IF list[n] \in Complete /\ ~ removed THEN "error" ELSE DecommissionVerdict(n)
  IN /\ known
     /\ ScaleDown(v)
     /\ IF list[n] = "Up" THEN Decommission(n, "enforced")
        ELSE IF v = "ready" THEN peer' = [peer EXCEPT ![n] = ""] /\ UNCHANGED mode
        ELSE UNCHANGED <<peer, mode>>
     /\ UNCHANGED <<cmReady, service, outages>> /\ Remember

PrepareRecycle ==
  /\ known
  /\ RecyclePod(DecommissionVerdict(ord))
  /\ IF list[ord] = "Up" THEN Decommission(ord, "fast") ELSE UNCHANGED <<peer, mode>>
  /\ UNCHANGED <<cmReady, service, outages>> /\ Remember

\* Mutant: the peer of a recycled pod is not waited for.
FinishRecycleAtOnce ==
  /\ known
  /\ FinishPod("ready")
  /\ KeepPeers /\ Remember

FinishRecycle ==
  /\ known
  /\ FinishPod(IF list[ord] = "Up" THEN "ready" ELSE "wait")
  /\ KeepPeers /\ Remember

\* The steps of UpdateStatefulSetPods that do not ask the pod manager.
OtherSteps ==
  /\ known
  /\ \/ WaitForReplicas \/ ScaleUp \/ NoScaling \/ WaitForPod \/ RemoveUnwantedSecrets
     \/ DeleteClaim \/ ClaimNotFound \/ ClaimsDeleted
  /\ KeepPeers /\ Remember

-----------------------------------------------------------------------------
(***************************************************************************)
(* The peers and the cluster master                                        *)
(***************************************************************************)

\* Splunk starts with the container of pod i and registers with the cluster master.
PodAndPeerStarted(i) ==
  /\ PodStarted(i)
  /\ peer' = [peer EXCEPT ![i] = "Joining"]
  /\ mode' = [mode EXCEPT ![i] = "none"]
  /\ UNCHANGED <<cmReady, service, outages, list, known>>

PeerJoins(i) ==
  /\ cmReady /\ peer[i] = "Joining" /\ pods[i].state = "ready"
  /\ peer' = [peer EXCEPT ![i] = "Up"]
  /\ UNCHANGED <<vars, mode, cmReady, service, outages, list, known>>

\* The cluster master misses the heartbeats of a peer whose pod is down.
PeerLost(i) ==
  /\ cmReady /\ pods[i].state # "ready" /\ peer[i] \notin {"", "Down"}
  /\ peer' = [peer EXCEPT ![i] = "Down"]
  /\ mode' = [mode EXCEPT ![i] = IF @ = "drained" THEN @ ELSE "none"]
  /\ UNCHANGED <<vars, cmReady, service, outages, list, known>>

\* With enforced counts a peer leaves when the others hold every copy of its buckets.
PeerLeaves(i) ==
  /\ peer[i] = "Decommissioning" /\ pods[i].state = "ready"
  /\ mode[i] = "enforced" =>
       Cardinality({j \in Ordinals \ {i} : peer[j] = "Up"}) >= ReplicationFactor
  /\ peer' = [peer EXCEPT ![i] = "GracefulShutdown"]
  /\ mode' = [mode EXCEPT ![i] = IF @ = "enforced" THEN "drained" ELSE @]
  /\ UNCHANGED <<vars, cmReady, service, outages, list, known>>

\* The liveness probe restarts a pod whose splunkd left.  It takes longer than the
\* five seconds after which the operator looks again.
PeerRestarts(i) ==
  /\ pc = "idle" /\ list[i] = peer[i]
  /\ peer[i] \in Complete \union {""}
  /\ pods[i].state = "ready" /\ ~ pods[i].deleting
  /\ peer' = [peer EXCEPT ![i] = "Joining"]
  /\ mode' = [mode EXCEPT ![i] = "none"]
  /\ UNCHANGED <<vars, cmReady, service, outages, list, known>>

\* The cluster master forgets the peers that left and do not register again.
ClusterMasterRestarts ==
  /\ cmReady /\ outages < MaxOutages
  /\ cmReady' = FALSE /\ service' = FALSE /\ outages' = outages + 1
  /\ peer' = [i \in Ordinals |-> IF peer[i] \in Complete THEN "" ELSE peer[i]]
  /\ UNCHANGED <<vars, mode, list, known>>

ClusterMasterReturns ==
  /\ ~ cmReady
  /\ cmReady' = TRUE
  /\ UNCHANGED <<vars, peer, mode, service, outages, list, known>>

\* Its service starts when enough peers for the replication factor have registered,
\* and goes on when they leave.
ServiceStarts ==
  /\ cmReady /\ ~ service
  /\ Cardinality({i \in Ordinals : peer[i] = "Up"}) >= ReplicationFactor
  /\ service' = TRUE
  /\ UNCHANGED <<vars, peer, mode, cmReady, outages, list, known>>

-----------------------------------------------------------------------------
IdxReconcile ==
  \/ StartReconcile /\ KeepPeers /\ Remember
  \/ ClusterNotReady \/ ApplyStatefulSet \/ UpdateStatus
  \/ PrepareScaleDown \/ PrepareRecycle \/ FinishRecycle \/ OtherSteps

\* What happens to the resource, the StatefulSet and the pods besides.
Surroundings ==
  /\ \/ SyncStatefulSet
     \/ \E i \in Ordinals : PodStopped(i) \/ PodGone(i)
     \/ EditResource \/ EditNamespaceSecret
     \/ Failure
  /\ KeepPeers /\ Remember

Peers ==
  \/ \E i \in Ordinals :
       PodAndPeerStarted(i) \/ PeerJoins(i) \/ PeerLost(i) \/ PeerLeaves(i) \/ PeerRestarts(i)
  \/ ClusterMasterRestarts \/ ClusterMasterReturns \/ ServiceStarts

IdxNext == IdxReconcile \/ Surroundings \/ Peers

IdxSpec == IdxInit /\ [][IdxNext]_idxVars

IdxFairness ==
  /\ WF_idxVars(IdxReconcile)
  /\ WF_idxVars(SyncStatefulSet /\ KeepPeers /\ Remember)
  /\ WF_idxVars(ClusterMasterReturns) /\ WF_idxVars(ServiceStarts)
  /\ \A i \in Ordinals :
       /\ WF_idxVars((PodStopped(i) \/ PodGone(i)) /\ KeepPeers /\ Remember)
       /\ WF_idxVars(PodAndPeerStarted(i)) /\ WF_idxVars(PeerJoins(i))
       /\ WF_idxVars(PeerLost(i)) /\ WF_idxVars(PeerLeaves(i))
       /\ SF_idxVars(PeerRestarts(i))

IdxFairSpec == IdxSpec /\ IdxFairness

-----------------------------------------------------------------------------
\* The pod manager of indexer clusters is one that StatefulSetPods allows: what holds
\* of StatefulSetPods with any verdicts holds of indexer clusters.
ImplementsPods == Spec

\* "decommission indexer peer with enforceCounts=true; this will rebalance buckets
\* across other peers" before the peer is removed (PrepareScaleDown): the operator
\* never makes the cluster forget a peer whose buckets are not elsewhere.
RemovedPeersDrained ==
  [][\A i \in Ordinals :
       peer[i] # "" /\ peer'[i] = "" /\ cmReady' => mode[i] = "drained"]_idxVars

\* A peer is taken down for a recycle only when every peer of a higher ordinal is back
\* in the cluster with the revision the loop works for: FinishRecycle holds the loop
\* until then, from a list of peers read before the pods.
\* True of changes that each wait for the last; a third one in a row, or a pod that
\* fails, may lose a peer again that the loop has passed.
PeersBackBeforeNext ==
  [][\A i, j \in Ordinals :
       /\ mode[i] # "fast" /\ mode'[i] = "fast"
       /\ i < j /\ j < sts.replicas
       => peer[j] = "Up" /\ pods[j].rev = view.updateRev]_idxVars

\* Once the user and the failures stop, the resource converges and every peer serves,
\* also those whose decommissioning the user revoked halfway.
PeersServe ==
  <>[](Converged /\ \A i \in Ordinals : i < Wanted => peer[i] = "Up")
=============================================================================
