----------------------------- MODULE SmartStore -----------------------------
(***************************************************************************)
(* The SmartStore configuration of a cluster master: ApplyClusterMaster    *)
(* (clustermaster.go), AreRemoteVolumeKeysChanged (configuration.go),      *)
(* ApplySmartstoreConfigMap (util.go) and ApplyConfigMap (configmap.go).   *)
(*                                                                         *)
(* The operator writes the volumes of the spec, with the S3 keys of the    *)
(* secrets they name, to a ConfigMap, waits until the kubelet has copied   *)
(* that to the pod of the cluster master, and has the cluster master push  *)
(* it to the indexers.  A token in the ConfigMap tells it what the pod     *)
(* has.  What is still to be pushed is remembered in the status of the     *)
(* resource, which is written when the reconcile ends and only if nobody   *)
(* changed the resource meanwhile.                                         *)
(***************************************************************************)
EXTENDS Integers, Sequences, FiniteSets, FiniteSetsExt

CONSTANTS
  Volumes,      \* remote volumes, each with a secret of its own
  SameSecond,   \* two configurations may be stored within one second
  MaxKeys,      \* bound: values of the keys of a volume are 1 .. MaxKeys
  MaxEdits,     \* bound: how often the user changes the resource or a secret
  MaxFaults     \* bound: failures of calls, crashes, lost pods

ASSUME SmartStoreAssumption ==
  /\ SameSecond \in BOOLEAN
  /\ MaxKeys \in Nat \ {0} /\ MaxEdits \in Nat /\ MaxFaults \in Nat

VARIABLES
  spec,       \* the volumes in the spec of the resource
  fresh,      \* nobody changed the resource since the last reconcile read it
  key,        \* the S3 keys in the secret of each volume
  owned,      \* the secret has an owner reference to the resource
  configMap,  \* the configuration in the ConfigMap
  token,      \* the ConfigMap has a token
  status,     \* the status of the resource, but for
  owed,       \* its NeedToPushMasterApps
  mem,        \* both, as this reconcile has them
  template,   \* the pod template of the StatefulSet
  pod,        \* the pod of the cluster master
  peers,      \* the configuration pushed last
  queued, pc, \* the work queue holds a request; where the reconcile is
  req, got,   \* the spec as it was read, and what was read from the secrets
  edits, faults

userVars == <<spec, key, edits>>
cmVars   == <<configMap, token>>
crVars   == <<status, owed>>
walkVars == <<mem, pc, req, got>>
vars == <<userVars, fresh, owned, cmVars, crVars, walkVars, template, pod, peers, queued, faults>>

\* The user may also write a spec that validation refuses.
Specs == UNION {[1 .. n -> Volumes] : n \in 0 .. 2}
Keys  == 1 .. MaxKeys

Configs  == [exists : BOOLEAN, volumes : UNION {[1 .. n -> Volumes \X Keys] : n \in 0 .. 2}]
NoConfig == [exists |-> FALSE, volumes |-> << >>]

\* smart: Status.SmartStore; tracked: ResourceRevMap, 0 for a secret not in it; recent:
\* LastCheckInterval is less than five seconds ago; need: NeedToPushMasterApps.
Statuses == [smart : Specs, tracked : [Volumes -> Nat], recent : BOOLEAN]
NoMem ==
  [smart |-> << >>, tracked |-> [v \in Volumes |-> 0], recent |-> FALSE, need |-> FALSE]

\* mounts: it has the volume of the ConfigMap; conf: the kubelet's copy of it; same: with
\* the token that was stored last.
Pods  == [ready : BOOLEAN, mounts : BOOLEAN, conf : Configs, same : BOOLEAN]
NoPod == [ready |-> FALSE, mounts |-> FALSE, conf |-> NoConfig, same |-> FALSE]

SmartTypeOK ==
  /\ spec \in Specs /\ key \in [Volumes -> Keys] /\ owned \in [Volumes -> BOOLEAN]
  /\ configMap \in Configs /\ token \in BOOLEAN /\ (token => configMap.exists)
  /\ status \in Statuses /\ owed \in BOOLEAN
  /\ mem.smart \in Specs /\ mem.tracked \in [Volumes -> Nat]
  /\ template \in {"none", "plain", "mounting"}
  /\ pod \in Pods /\ (pod.mounts <=> pod.conf.exists)
  /\ peers \in Configs
  /\ pc \in {"idle", "keys", "read", "token", "pods", "push", "bundle", "done"}
  /\ req \in Specs
  /\ pc = "idle" => mem = NoMem /\ got = << >>

\* ValidateSplunkSmartstoreSpec: volumes have different names.
Valid(s) == \A i, j \in DOMAIN s : s[i] = s[j] => i = j

SmartInit ==
  /\ spec \in {s \in Specs : Valid(s)} /\ fresh = TRUE
  /\ key = [v \in Volumes |-> 1] /\ owned = [v \in Volumes |-> FALSE]
  /\ configMap = NoConfig /\ token = FALSE
  /\ status = [smart |-> << >>, tracked |-> [v \in Volumes |-> 0], recent |-> FALSE]
  /\ owed = FALSE
  /\ mem = NoMem /\ pc = "idle" /\ req = << >> /\ got = << >>
  /\ template = "none" /\ pod = NoPod /\ peers = NoConfig
  /\ queued = TRUE
  /\ edits = 0 /\ faults = 0

-----------------------------------------------------------------------------
\* The resourceVersion of the secret of a volume: setting the owner changes it too.
Version(v) == 2 * key[v] + (IF owned[v] THEN 1 ELSE 0)

\* Mutant: what is still to be done is kept in memory.
EndWithoutReset(m, requeue) ==
  /\ pc' = "idle" /\ mem' = m /\ req' = << >> /\ got' = << >>
  /\ UNCHANGED crVars /\ queued' = (queued \/ requeue)

\* The end of a reconcile with status m.  The deferred Status().Update is refused when
\* the resource changed since it was read, and only logs that.
End(m, requeue) ==
  /\ pc' = "idle" /\ mem' = NoMem /\ req' = << >> /\ got' = << >>
  /\ IF fresh
     THEN /\ status' = [smart |-> m.smart, tracked |-> m.tracked, recent |-> m.recent]
          /\ owed' = m.need
     ELSE UNCHANGED crVars
  /\ queued' = (queued \/ requeue \/ crVars' # crVars)

GoTo(l, m) == pc' = l /\ mem' = m /\ UNCHANGED <<crVars, req>>

(***************************************************************************)
(* Has the configuration changed?                                          *)
(***************************************************************************)

\* An invalid spec ends the reconcile before anything changes.
Begin ==
  /\ pc = "idle" /\ queued /\ Valid(spec)
  /\ queued' = FALSE /\ fresh' = TRUE
  /\ req' = spec
  /\ mem' = [smart |-> status.smart, tracked |-> status.tracked, recent |-> status.recent,
             need |-> owed]
  /\ pc' = IF status.smart # spec THEN "read" ELSE "keys"
  /\ UNCHANGED <<userVars, owned, cmVars, crVars, got, template, pod, peers, faults>>

\* Mutant: the new version of a secret is noticed and not recorded.
AreRemoteVolumeKeysUnrecorded ==
  LET T    == {i \in DOMAIN req : mem.tracked[req[i]] # 0}
      changed == T # {} /\ mem.tracked[req[Min(T)]] # Version(req[Min(T)])
  IN
  /\ pc = "keys"
  /\ GoTo(IF changed THEN "read" ELSE "pods",
          [mem EXCEPT !.tracked = [v \in Volumes |->
             IF T = {} /\ \E i \in DOMAIN req : req[i] = v THEN Version(v) ELSE @[v]]])
  /\ UNCHANGED <<userVars, fresh, owned, cmVars, template, pod, peers, queued, got, faults>>

\* The volumes are tracked up to the first that already was; that one is compared, and
\* those after it are not looked at.
AreRemoteVolumeKeysChanged ==
  LET T    == {i \in DOMAIN req : mem.tracked[req[i]] # 0}
      last == IF T = {} THEN Len(req) ELSE Min(T)
      seen == {req[i] : i \in 1 .. last}
      changed == T # {} /\ mem.tracked[req[last]] # Version(req[last])
  IN
  /\ pc = "keys"
  /\ GoTo(IF changed THEN "read" ELSE "pods",
          [mem EXCEPT !.tracked = [v \in Volumes |-> IF v \in seen THEN Version(v) ELSE @[v]]])
  /\ UNCHANGED <<userVars, fresh, owned, cmVars, template, pod, peers, queued, got, faults>>

(***************************************************************************)
(* ApplySmartstoreConfigMap                                                *)
(***************************************************************************)

\* GetSmartstoreRemoteVolumeSecrets reads the keys and then sets the owner reference;
\* whether that fails is not looked at.
ReadVolume ==
  /\ pc = "read" /\ Len(got) < Len(req)
  /\ LET v == req[Len(got) + 1] IN
       /\ got' = Append(got, <<v, key[v]>>)
       /\ \/ owned' = [owned EXCEPT ![v] = TRUE] /\ UNCHANGED faults
          \/ ~ owned[v] /\ faults < MaxFaults /\ faults' = faults + 1 /\ UNCHANGED owned
  /\ queued' = (queued \/ owned' # owned)
  /\ UNCHANGED <<userVars, fresh, cmVars, crVars, mem, pc, req, template, pod, peers>>

Config == [exists |-> TRUE, volumes |-> got]

\* Mutant: a ConfigMap that exists is taken for the configuration.
StoreConfigOnce ==
  /\ pc = "read" /\ Len(got) = Len(req)
  /\ IF configMap.exists
     THEN GoTo("pods", [mem EXCEPT !.smart = req]) /\ UNCHANGED cmVars
     ELSE configMap' = Config /\ token' = FALSE /\ GoTo("token", mem)
  /\ UNCHANGED <<userVars, fresh, owned, got, template, pod, peers, queued, faults>>

\* The first ApplyConfigMap is without token: only a ConfigMap that never got one may be
\* equal to it.
StoreConfig ==
  /\ pc = "read" /\ Len(got) = Len(req)
  /\ IF configMap = Config /\ ~ token
     THEN GoTo("pods", [mem EXCEPT !.smart = req]) /\ UNCHANGED cmVars
     ELSE configMap' = Config /\ token' = FALSE /\ GoTo("token", mem)
  /\ UNCHANGED <<userVars, fresh, owned, got, template, pod, peers, queued, faults>>

\* The second is with the time, in seconds, as the token.
StoreToken ==
  /\ pc = "token"
  /\ token' = TRUE
  /\ \E again \in BOOLEAN :
       /\ again => SameSecond
       /\ pod' = [pod EXCEPT !.same = @ /\ again]
  /\ GoTo("pods", [mem EXCEPT !.smart = req, !.need = TRUE, !.recent = TRUE])
  /\ UNCHANGED <<userVars, fresh, owned, configMap, got, template, peers, queued, faults>>

(***************************************************************************)
(* The pod, and the push                                                   *)
(***************************************************************************)

\* getClusterMasterStatefulSet: the pod mounts the ConfigMap when there is one.
Template == IF configMap.exists THEN "mounting" ELSE "plain"

UpdatePods ==
  /\ pc = "pods"
  /\ \/ /\ template # Template
        /\ template' = Template /\ UNCHANGED pod
        /\ End(mem, TRUE)
     \/ /\ template = Template /\ ~ pod.ready
        /\ UNCHANGED <<template, pod>>
        /\ End(mem, TRUE)
     \/ /\ template = Template /\ pod.ready /\ pod.mounts # (template = "mounting")
        /\ pod' = NoPod /\ UNCHANGED template
        /\ End(mem, TRUE)
     \/ /\ template = Template /\ pod.ready /\ pod.mounts = (template = "mounting")
        /\ UNCHANGED <<template, pod, queued, got>>
        /\ GoTo("push", mem)
  /\ UNCHANGED <<userVars, fresh, owned, cmVars, peers, faults>>

NothingToPush ==
  /\ pc = "push" /\ ~ mem.need
  /\ End(mem, FALSE)
  /\ UNCHANGED <<userVars, fresh, owned, cmVars, template, pod, peers, faults>>

\* Less than five seconds since the last attempt.
PushTooEarly ==
  /\ pc = "push" /\ mem.need /\ mem.recent
  /\ End(mem, TRUE)
  /\ UNCHANGED <<userVars, fresh, owned, cmVars, template, pod, peers, faults>>

\* Mutant: the pod is not asked for its token.
PushUnchecked ==
  /\ pc = "push" /\ mem.need /\ ~ mem.recent
  /\ GoTo("bundle", [mem EXCEPT !.recent = TRUE]) /\ UNCHANGED <<queued, got>>
  /\ UNCHANGED <<userVars, fresh, owned, cmVars, template, pod, peers, faults>>

\* CheckIfsmartstoreConfigMapUpdatedToPod.
CheckToken ==
  /\ pc = "push" /\ mem.need /\ ~ mem.recent
  /\ IF pod.ready /\ pod.mounts /\ token /\ pod.same
     THEN GoTo("bundle", [mem EXCEPT !.recent = TRUE]) /\ UNCHANGED <<queued, got>>
     ELSE End([mem EXCEPT !.recent = TRUE], TRUE)
  /\ UNCHANGED <<userVars, fresh, owned, cmVars, template, pod, peers, faults>>

\* PushMasterAppsBundle, through the service of a pod that may be gone by now; its answer
\* may be lost.
PushBundle ==
  /\ pc = "bundle"
  /\ \/ /\ pod.ready
        /\ peers' = pod.conf
        /\ \/ GoTo("done", [mem EXCEPT !.need = FALSE]) /\ UNCHANGED faults
           \/ faults < MaxFaults /\ faults' = faults + 1 /\ GoTo("done", mem)
        /\ UNCHANGED <<queued, got>>
     \/ /\ ~ pod.ready
        /\ End(mem, TRUE)
        /\ UNCHANGED <<peers, faults>>
  /\ UNCHANGED <<userVars, fresh, owned, cmVars, template, pod>>

Done ==
  /\ pc = "done"
  /\ End(mem, mem.need)
  /\ UNCHANGED <<userVars, fresh, owned, cmVars, template, pod, peers, faults>>

-----------------------------------------------------------------------------
(***************************************************************************)
(* What happens besides                                                    *)
(***************************************************************************)

\* The user changes the volumes, or something else in the resource.  The last edit is one
\* that validation accepts.
EditResource ==
  /\ edits < MaxEdits /\ edits' = edits + 1
  /\ spec' \in Specs /\ (edits' = MaxEdits => Valid(spec'))
  /\ fresh' = FALSE /\ queued' = TRUE
  /\ UNCHANGED <<key, owned, cmVars, crVars, walkVars, template, pod, peers, faults>>

\* The watch on secrets wakes the operator up for a secret with the owner reference.
ChangeKey(v) ==
  /\ edits < MaxEdits /\ edits' = edits + 1 /\ (edits' = MaxEdits => Valid(spec))
  /\ key[v] < MaxKeys /\ key' = [key EXCEPT ![v] = @ + 1]
  /\ queued' = (queued \/ owned[v])
  /\ UNCHANGED <<spec, fresh, owned, cmVars, crVars, walkVars, template, pod, peers, faults>>

\* A volume of the pod names the token in the ConfigMap: without it the pod does not start.
PodStarts ==
  /\ ~ pod.ready /\ template # "none"
  /\ \/ template = "plain" /\ pod' = [NoPod EXCEPT !.ready = TRUE]
     \/ template = "mounting" /\ token
        /\ pod' = [ready |-> TRUE, mounts |-> TRUE, conf |-> configMap, same |-> TRUE]
  /\ queued' = TRUE
  /\ UNCHANGED <<userVars, fresh, owned, cmVars, crVars, walkVars, template, peers, faults>>

\* The kubelet brings the pod's copy of the ConfigMap up to date, some time later.
KubeletSyncs ==
  /\ pod.ready /\ pod.mounts /\ token
  /\ pod' = [pod EXCEPT !.conf = configMap, !.same = TRUE]
  /\ UNCHANGED <<userVars, fresh, owned, cmVars, crVars, walkVars, template, peers, queued, faults>>

FiveSecondsPass ==
  /\ status.recent \/ mem.recent
  /\ status' = [status EXCEPT !.recent = FALSE]
  /\ mem' = [mem EXCEPT !.recent = FALSE]
  /\ UNCHANGED <<userVars, fresh, owned, cmVars, owed, pc, req, got, template, pod, peers, queued, faults>>

\* A call fails, and the operator asks for a requeue.  Only after ApplySmartstoreConfigMap
\* is the deferred write of the status in place, and it may be what fails; a crash at any
\* point is the same.
Fails ==
  /\ pc # "idle" /\ faults < MaxFaults /\ faults' = faults + 1
  /\ \/ pc \in {"pods", "push", "bundle", "done"} /\ End(mem, TRUE)
     \/ /\ pc' = "idle" /\ mem' = NoMem /\ req' = << >> /\ got' = << >>
        /\ queued' = TRUE
        /\ UNCHANGED crVars
  /\ UNCHANGED <<userVars, fresh, owned, cmVars, template, pod, peers>>

PodLost ==
  /\ pod.ready /\ faults < MaxFaults /\ faults' = faults + 1
  /\ pod' = NoPod
  /\ queued' = TRUE
  /\ UNCHANGED <<userVars, fresh, owned, cmVars, crVars, walkVars, template, peers>>

-----------------------------------------------------------------------------
Operator ==
  \/ Begin \/ AreRemoteVolumeKeysChanged \/ ReadVolume \/ StoreConfig \/ StoreToken
  \/ UpdatePods \/ NothingToPush \/ PushTooEarly \/ CheckToken \/ PushBundle
  \/ Done

SmartNext ==
  \/ Operator
  \/ EditResource \/ \E v \in Volumes : ChangeKey(v)
  \/ PodStarts \/ KubeletSyncs \/ FiveSecondsPass \/ Fails \/ PodLost

SmartSpec == SmartInit /\ [][SmartNext]_vars

SmartFairSpec ==
  /\ SmartSpec
  /\ WF_vars(Operator) /\ WF_vars(PodStarts) /\ WF_vars(KubeletSyncs)
  /\ WF_vars(FiveSecondsPass)
  /\ WF_vars(~ Valid(spec) /\ EditResource)

-----------------------------------------------------------------------------
Delivery == INSTANCE ConfigDelivery
  WITH stored <- configMap, marked <- token, have <- peers

\* PerformCmBundlePush implements ConfigDelivery: indexers only ever get the configuration
\* the ConfigMap has at that moment; NeedToPushMasterApps is reset only when they have it;
\* and while it is set the push is retried until they do, unless the token is missing.
ImplementsDelivery == Delivery!FairSpec

Stored(v, k) == \E i \in DOMAIN configMap.volumes : configMap.volumes[i] = <<v, k>>

\* The status takes up new volumes, or the new version of a secret it tracks, only when
\* they are in the ConfigMap: what a reconcile did not store is noticed again.
StatusIsStored ==
  [][/\ status'.smart # status.smart
        => status'.smart = [i \in DOMAIN configMap.volumes |-> configMap.volumes[i][1]]
     /\ \A v \in Volumes :
          status.tracked[v] \notin {0, status'.tracked[v]}
          => \E k \in Keys : Stored(v, k) /\ 2 * k + 1 >= status'.tracked[v]]_vars

\* In the end the status shows the volumes of the spec, and the version of the secret of
\* the first one if that is tracked and has its owner reference.
ChangesNoticed ==
  <>[](/\ status.smart = spec
       /\ spec # << >> /\ owned[spec[1]]
          => status.tracked[spec[1]] \in {0, Version(spec[1])})
=============================================================================
