----------------------------- MODULE IdxcSecret -----------------------------
(***************************************************************************)
(* ApplyIdxcSecret (pkg/splunk/enterprise, indexercluster.go): how an      *)
(* indexer cluster gets a new idxc_secret.  On top of StatefulSetPods,     *)
(* which creates the new version of the secret and recycles the pods.      *)
(*                                                                         *)
(* Before it recycles, the operator puts the cluster master in maintenance *)
(* mode, tells every peer the new key, and rewrites the versions the pods  *)
(* mount.  It remembers in the status of the resource what is done: the    *)
(* status is read once, and written when the reconcile ends, if at all.    *)
(***************************************************************************)
EXTENDS StatefulSetPods, Sequences

CONSTANT MaxKeys   \* bound: values of idxc_secret are 1 .. MaxKeys

ASSUME RotationAssumption ==
  /\ KeepsGoing /\ ~ DropsErrors
  /\ {"ready", "wait"} \subseteq Verdicts
  /\ {MaxKeys, MaxSecrets} \subseteq Nat \ {0}

VARIABLES
  nsKey,     \* the idxc_secret of the namespace secret
  nsOther,   \* its other tokens differ from those of the latest version
  data,      \* the idxc_secret in each version
  run,       \* the key splunkd runs with in each ready pod, 0 in others
  cmKey,     \* the key of the cluster master
  cmReady,   \* the cluster master answers, and its resource is Ready
  maint,     \* it is in maintenance mode
  status,    \* the fields of the resource's status, as stored
  mem,       \* the same, as this reconcile has them
  walk       \* where ApplyIdxcSecret is, and what it has read

cmVars   == <<cmKey, cmReady, maint>>
nsVars   == <<nsKey, nsOther>>
rotVars  == <<nsVars, data, run, cmVars, status, mem, walk>>
idxcVars == <<vars, rotVars>>

Keys     == 1 .. MaxKeys
Versions == 1 .. MaxSecrets

\* rev: NamespaceSecretResourceVersion is "" , the current one, or an older one;
\* flags: IndexerSecretChanged; rewrite: the secrets IdxcPasswordChangedSecrets maps to
\* TRUE; maint: MaintenanceMode.
Statuses ==
  [rev : {"none", "seen", "old"}, flags : Seq(BOOLEAN), rewrite : SUBSET Versions,
   maint : BOOLEAN]

\* at: the index of the loop; key: idxc_secret as read before it; nsRead: what became of
\* the resource version ApplySplunkConfig read; cmSeen: the phase of the cluster master.
Walks ==
  [step : {"apply", "revision", "peers", "rewrite", "status", "pods"},
   at : 0 .. MaxReplicas, key : {0} \union Keys, nsRead : {"seen", "old"},
   cmSeen : BOOLEAN]

NoWalk == [step |-> "apply", at |-> 0, key |-> 0, nsRead |-> "seen", cmSeen |-> FALSE]

\* Types, and what the namespace secret and the latest version have to do with each other.
RotationTypeOK ==
  /\ nsKey \in Keys /\ nsOther \in BOOLEAN
  /\ data \in [Versions -> {0} \union Keys]
  /\ run \in [Ordinals -> {0} \union Keys]
  /\ cmKey \in Keys /\ cmReady \in BOOLEAN /\ maint \in BOOLEAN
  /\ status \in Statuses /\ mem \in Statuses /\ walk \in Walks
  /\ pc = "idle" => mem = status /\ walk = NoWalk
  /\ nsChanged <=> latest = 0 \/ nsOther \/ data[latest] # nsKey

RotationInit ==
  /\ Init
  /\ nsKey = 1 /\ nsOther = FALSE
  /\ data = [v \in Versions |-> 0]
  /\ run = [i \in Ordinals |-> 0]
  /\ cmKey = 1 /\ cmReady = TRUE /\ maint = FALSE
  /\ status = [rev |-> "none", flags |-> << >>, rewrite |-> {}, maint |-> FALSE]
  /\ mem = status
  /\ walk = NoWalk

\* Mutant: the status in memory outlives a refused update.
HaveCached(m, w) ==
  IF pc' = "idle"
  THEN status' = (IF fresh THEN m ELSE status) /\ mem' = m /\ walk' = NoWalk
  ELSE mem' = m /\ walk' = w /\ UNCHANGED status

\* The reconcile now has status m; when it ends, m is stored unless the resource
\* changed meanwhile.
Have(m, w) ==
  IF pc' = "idle"
  THEN /\ status' = IF fresh THEN m ELSE status
       /\ mem' = status' /\ walk' = NoWalk
  ELSE mem' = m /\ walk' = w /\ UNCHANGED status

\* A pod that is not ready has no splunkd.
Running == [i \in Ordinals |-> IF pods'[i].state = "ready" THEN run[i] ELSE 0]

\* ApplyIdxcSecret goes on to status m and place w; no other object changes.
RotateTo(m, w) ==
  /\ mem' = m /\ walk' = w
  /\ UNCHANGED <<vars, nsVars, data, status>>

\* Update returns with phase p.
StopWith(p, m) ==
  /\ UNCHANGED <<crVars, secretVars, kubeVars, faults>>
  /\ Finish(p)
  /\ Have(m, NoWalk)
  /\ UNCHANGED <<nsVars, data, run, cmVars>>

-----------------------------------------------------------------------------
(***************************************************************************)
(* indexerClusterPodManager.Update, up to ApplyIdxcSecret                  *)
(***************************************************************************)

\* ApplySplunkConfig, the phase of the cluster master, getIndexerStatefulSet.
Start ==
  /\ StartReconcile
  /\ data' = IF nsChanged THEN [data EXCEPT ![latest'] = nsKey] ELSE data
  /\ nsOther' = FALSE
  /\ mem' = mem /\ walk' = [walk EXCEPT !.cmSeen = cmReady]
  /\ UNCHANGED <<nsKey, run, cmVars, status>>

\* A StatefulSet that was just created has no pods.  ApplyIdxcSecret is content when it
\* runs for the first time, and misses the pods when the secret has changed since.
Create ==
  /\ walk.step = "apply" /\ walk.cmSeen
  /\ CreateStatefulSet
  /\ fresh => (phase' = "Error" <=> mem.rev = "old")
  /\ Have([mem EXCEPT !.rev = IF @ = "none" THEN "seen" ELSE @], NoWalk)
  /\ UNCHANGED <<nsVars, data, run, cmVars>>

Apply ==
  /\ walk.step = "apply" /\ walk.cmSeen
  /\ UpdateTemplate \/ KeepTemplate
  /\ Have(mem, [walk EXCEPT !.step = "revision"])
  /\ UNCHANGED <<nsVars, data, run, cmVars>>

\* verifyRFPeers asks a cluster master that has gone since.
NoReplicationFactor ==
  /\ pc = "apply" /\ walk.step = "apply" /\ walk.cmSeen /\ ~ cmReady
  /\ StopWith("Error", mem)

\* The StatefulSet is left alone, but ApplyIdxcSecret is not.
SkipApply ==
  /\ pc = "apply" /\ walk.step = "apply" /\ ~ walk.cmSeen
  /\ walk' = [walk EXCEPT !.step = "revision"]
  /\ UNCHANGED <<vars, nsVars, data, run, cmVars, status, mem>>

(***************************************************************************)
(* ApplyIdxcSecret                                                         *)
(***************************************************************************)

CheckRevision ==
  /\ walk.step = "revision"
  /\ IF mem.rev = "old"
     THEN RotateTo(mem, [walk EXCEPT !.step = "peers", !.key = nsKey])
     ELSE RotateTo([mem EXCEPT !.rev = "seen"], [walk EXCEPT !.step = "status"])
  /\ UNCHANGED <<run, cmVars>>

\* The loop is at peer i, which is one of the desired replicas.
AtPeer(i) == walk.step = "peers" /\ walk.at = i /\ i < req.replicas

Mounted(i) == pods[i].rev.secret

\* GetSecretFromPod finds the pod, and the secret it mounts.
HasSecret(i) == pods[i].state # "absent" /\ Mounted(i) \in secrets

NextPeer == [walk EXCEPT !.at = @ + 1]

\* Mutant: a peer that is missing ends the reconcile as if all were well.
PeerMissingIsReady(i) ==
  /\ AtPeer(i) /\ ~ HasSecret(i)
  /\ StopWith("Ready", mem)

PeerMissing(i) ==
  /\ AtPeer(i) /\ ~ HasSecret(i)
  /\ StopWith("Error", mem)

Mismatch(i) ==
  /\ AtPeer(i) /\ HasSecret(i)
  /\ data[Mounted(i)] # walk.key

PeerMatches(i) ==
  /\ AtPeer(i) /\ HasSecret(i)
  /\ data[Mounted(i)] = walk.key
  /\ RotateTo(mem, NextPeer)
  /\ UNCHANGED <<run, cmVars>>

\* Mutant: maintenance mode is asked for after the first peer.
NeedsMaintenanceLater == Len(mem.flags) = 1 /\ ~ mem.maint

NeedsMaintenance == mem.flags = << >> /\ ~ mem.maint

\* SetClusterMaintenanceMode runs a command in the pod of the cluster master.
EnableMaintenance(i) ==
  /\ Mismatch(i) /\ NeedsMaintenance
  /\ \/ /\ cmReady
        /\ maint' = TRUE
        /\ RotateTo([mem EXCEPT !.maint = TRUE], walk)
        /\ UNCHANGED <<run, cmKey, cmReady>>
     \/ /\ ~ cmReady
        /\ StopWith("Error", mem)

Flagged(i) == i < Len(mem.flags) /\ mem.flags[i + 1]

SkipPeer(i) ==
  /\ Mismatch(i) /\ ~ NeedsMaintenance /\ Flagged(i)
  /\ RotateTo(mem, NextPeer)
  /\ UNCHANGED <<run, cmVars>>

\* Mutant: the version the peer mounts is not remembered.
ChangePeerOnly(i) ==
  /\ Mismatch(i) /\ ~ NeedsMaintenance /\ ~ Flagged(i) /\ pods[i].state = "ready"
  /\ run' = [run EXCEPT ![i] = walk.key]
  /\ RotateTo([mem EXCEPT !.flags = Append(@, TRUE)], NextPeer)
  /\ UNCHANGED cmVars

\* SetIdxcSecret and RestartSplunk, which need splunkd, and which are over when the
\* operator makes its next call; then the flag, at index i or at the end of the flags.
ChangePeer(i) ==
  /\ Mismatch(i) /\ ~ NeedsMaintenance /\ ~ Flagged(i)
  /\ \/ /\ pods[i].state = "ready"
        /\ run' = [run EXCEPT ![i] = walk.key]
        /\ RotateTo([mem EXCEPT !.rewrite = @ \union {Mounted(i)},
                                !.flags = IF i < Len(@) THEN [@ EXCEPT ![i + 1] = TRUE]
                                          ELSE Append(@, TRUE)],
                    NextPeer)
        /\ UNCHANGED cmVars
     \/ /\ pods[i].state # "ready"
        /\ StopWith("Error", mem)

PeersChanged ==
  /\ walk.step = "peers" /\ walk.at = req.replicas
  /\ RotateTo(mem, [walk EXCEPT !.step = "rewrite"])
  /\ UNCHANGED <<run, cmVars>>

\* ApplySecret on one version, with what the namespace secret holds by now.
RewriteVersion ==
  /\ walk.step = "rewrite"
  /\ \E v \in mem.rewrite :
       IF v \in secrets
       THEN /\ data' = [data EXCEPT ![v] = nsKey]
            /\ IF data' = data THEN UNCHANGED vars
               ELSE RewriteSecret /\ nsChanged' = IF v = latest THEN nsOther ELSE nsChanged
            /\ mem' = [mem EXCEPT !.rewrite = @ \ {v}]
            /\ UNCHANGED <<nsVars, run, cmVars, status, walk>>
       ELSE StopWith("Error", mem)

VersionsRewritten ==
  /\ walk.step = "rewrite" /\ mem.rewrite = {}
  /\ RotateTo(mem, [walk EXCEPT !.step = "status"])
  /\ UNCHANGED <<run, cmVars>>

(***************************************************************************)
(* updateStatus, UpdateStatefulSetPods, and what ApplyIndexerCluster does  *)
(* when everything is Ready                                                *)
(***************************************************************************)

\* A peer with another key than the cluster master's cannot register.
Registered(i) == pods[i].state = "ready" /\ run[i] = cmKey

\* A cluster master that is not Ready counts as out of maintenance mode.  One that is,
\* but that no peer is registered with, may have lost its service.
UpdateStatus ==
  /\ walk.step = "status"
  /\ LET m == [mem EXCEPT !.maint = IF ~ walk.cmSeen THEN FALSE
                                    ELSE IF cmReady THEN maint ELSE @]
     IN \/ /\ walk.cmSeen /\ cmReady /\ view.ready > 0
           /\ RotateTo(m, [walk EXCEPT !.step = "pods"])
           /\ UNCHANGED <<run, cmVars>>
        \/ /\ ~ walk.cmSeen \/ ~ cmReady \/ view.ready = 0
              \/ \A i \in Ordinals : ~ Registered(i)
           /\ StopWith("Pending", m)

\* Peers that are not registered are unknown to the cluster master, or Down.
ManagePods ==
  /\ walk.step = "pods"
  /\ \/ WaitForReplicas \/ ScaleUp \/ NoScaling \/ WaitForPod
     \/ DeleteClaim \/ ClaimNotFound \/ ClaimsDeleted
     \/ \E v \in {"ready", "wait"} :
          \/ (Registered(view.ready - 1) => v = "ready") /\ ScaleDown(v)
          \/ (Registered(ord) => v = "ready") /\ RecyclePod(v)
     \/ FinishPod(IF Registered(ord) THEN "ready" ELSE "wait")
  /\ Have(mem, walk)
  /\ UNCHANGED <<nsVars, data, run, cmVars>>

\* Mutant: maintenance mode is left on.
AllReadyInMaintenance ==
  /\ walk.step = "pods"
  /\ RemoveUnwantedSecrets \/ PublishError
  /\ Have([rev |-> walk.nsRead, flags |-> << >>, rewrite |-> {}, maint |-> mem.maint], NoWalk)
  /\ UNCHANGED <<nsVars, data, run, cmVars>>

\* Maintenance mode ends, and what is remembered of the rotation with it; then
\* SetStatefulSetOwnerRef may fail.
AllReady ==
  /\ walk.step = "pods"
  /\ RemoveUnwantedSecrets \/ PublishError
  /\ mem.flags # << >> => cmReady
  /\ maint' = (maint /\ mem.flags = << >>)
  /\ Have([rev |-> walk.nsRead, flags |-> << >>, rewrite |-> {},
           maint |-> mem.maint /\ mem.flags = << >>], NoWalk)
  /\ UNCHANGED <<nsVars, data, run, cmKey, cmReady>>

AllReadyButMaintenance ==
  /\ walk.step = "pods"
  /\ mem.flags # << >> /\ ~ cmReady
  /\ ReadyStepFails
  /\ Have(mem, NoWalk)
  /\ UNCHANGED <<nsVars, data, run, cmVars>>

-----------------------------------------------------------------------------
(***************************************************************************)
(* What happens besides                                                    *)
(***************************************************************************)

\* The user gives idxc_secret a value it never had, or changes another token.
EditSecret ==
  /\ EditNamespaceSecret
  /\ \/ nsKey < MaxKeys /\ nsKey' = nsKey + 1 /\ UNCHANGED nsOther
     \/ nsOther' = TRUE /\ UNCHANGED nsKey
  /\ status' = [status EXCEPT !.rev = IF @ = "seen" THEN "old" ELSE @]
  /\ mem' = [mem EXCEPT !.rev = IF @ = "seen" THEN "old" ELSE @]
  /\ walk' = [walk EXCEPT !.nsRead = IF pc = "idle" THEN @ ELSE "old"]
  /\ UNCHANGED <<data, run, cmVars>>

\* The ClusterMaster recycles its pod, which then has the new key.  Maintenance mode
\* outlives the restart.
ClusterMasterRecycled ==
  /\ cmReady /\ cmKey # nsKey
  /\ cmReady' = FALSE /\ cmKey' = nsKey
  /\ UNCHANGED <<vars, nsVars, data, run, maint, status, mem, walk>>

ClusterMasterReturns ==
  /\ ~ cmReady /\ cmReady' = TRUE
  /\ UNCHANGED <<vars, nsVars, data, run, cmKey, maint, status, mem, walk>>

\* The container of a pod starts splunkd with the key of the secret it mounts.
SplunkStarted(i) ==
  /\ PodStarted(i)
  /\ run' = [run EXCEPT ![i] = data[Mounted(i)]]
  /\ UNCHANGED <<nsVars, data, cmVars, status, mem, walk>>

PodsGo(i) ==
  /\ PodStopped(i) \/ PodGone(i)
  /\ run' = Running
  /\ UNCHANGED <<nsVars, data, cmVars, status, mem, walk>>

Elsewhere ==
  /\ SyncStatefulSet \/ EditResource
  /\ UNCHANGED rotVars

\* An error ends the reconcile, but what it remembers is stored.
Fails ==
  /\ \/ ApiError \/ PruneError \/ PublishError
     \/ \E i \in Ordinals : PodFails(i) \/ PodEvicted(i)
  /\ Have(mem, walk)
  /\ run' = Running
  /\ UNCHANGED <<nsVars, data, cmVars>>

\* A crash loses what the reconcile remembers.
Crashes ==
  /\ Crash
  /\ mem' = status /\ walk' = NoWalk
  /\ UNCHANGED <<nsVars, data, run, cmVars, status>>

-----------------------------------------------------------------------------
RotatePeers ==
  \E i \in Ordinals :
    \/ PeerMissing(i) \/ PeerMatches(i) \/ EnableMaintenance(i)
    \/ SkipPeer(i) \/ ChangePeer(i)

Operator ==
  \/ Start \/ NoReplicationFactor \/ Create \/ Apply \/ SkipApply
  \/ CheckRevision \/ RotatePeers \/ PeersChanged \/ RewriteVersion \/ VersionsRewritten
  \/ UpdateStatus \/ ManagePods \/ AllReady \/ AllReadyButMaintenance

RotationNext ==
  \/ Operator
  \/ EditSecret \/ Elsewhere \/ Fails \/ Crashes
  \/ ClusterMasterRecycled \/ ClusterMasterReturns
  \/ \E i \in Ordinals : SplunkStarted(i) \/ PodsGo(i)

RotationSpec == RotationInit /\ [][RotationNext]_idxcVars

RotationFairSpec ==
  /\ RotationSpec
  /\ WF_idxcVars(Operator)
  /\ WF_idxcVars(SyncStatefulSet /\ UNCHANGED rotVars)
  /\ WF_idxcVars(ClusterMasterRecycled \/ ClusterMasterReturns)
  /\ \A i \in Ordinals : WF_idxcVars(SplunkStarted(i)) /\ WF_idxcVars(PodsGo(i))

-----------------------------------------------------------------------------
\* The rotation only adds to what StatefulSetPods does.
ImplementsPods == Spec

\* "Changing the idxc passwords on the secrets mounted on the indexer pods": once
\* ApplyIdxcSecret is done, no pod of the desired replicas mounts another key, so a
\* container that restarts before its pod is recycled can still join the cluster.  So it is
\* for changes that come one at a time: a second one during a rotation may leave a pod with
\* the first.
SecretsRewritten ==
  walk.step = "status" /\ walk.key = nsKey
  => \A i \in Ordinals :
       i < req.replicas /\ HasSecret(i) => data[Mounted(i)] = nsKey

\* A peer is only told to change its key, and to restart, while the cluster master is
\* in maintenance mode.
RestartsInMaintenance ==
  [][\A i \in Ordinals :
       run[i] # 0 /\ run'[i] \notin {0, run[i]} => maint]_idxcVars

AllRotated ==
  \A i \in Ordinals : i < Wanted => pods[i].state = "ready" /\ run[i] = nsKey

\* "the operator will require time to finish setting the changes on the all Splunk
\* Enterprise instances" (PasswordManagement.md): every change that ApplyIdxcSecret
\* notices is finished.
NoticedChangesFinish == [](walk.step = "peers" => <>[]AllRotated)

\* "Disable maintenance mode" (indexercluster.go): the cluster master does not stay in it.
MaintenanceEnds == <>[](~ maint)

\* A change of the secret that ApplyIdxcSecret notices reaches every peer, every peer is
\* recycled with it, and the cluster master leaves maintenance mode.
RotationCompletes ==
  [](walk.step = "peers"
     => <>[](Converged /\ AllRotated /\ cmKey = nsKey /\ ~ maint))
=============================================================================
