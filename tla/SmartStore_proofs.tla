-------------------------- MODULE SmartStore_proofs --------------------------
(***************************************************************************)
(* Proofs about SmartStore, for every set of volumes and any number of     *)
(* keys, edits and faults: its types, that the status never runs ahead of  *)
(* the ConfigMap, and that it implements the safety part of                *)
(* ConfigDelivery.                                                         *)
(***************************************************************************)
EXTENDS SmartStore, SequenceTheorems, TLAPS

Mems ==
  [smart : Specs, tracked : [Volumes -> Nat], recent : BOOLEAN, need : BOOLEAN]

\* What a reconcile has read of the keys follows the order of the spec it has read.
WalkInv ==
  /\ SmartTypeOK
  /\ mem \in Mems
  /\ fresh \in BOOLEAN
  /\ got \in Seq(Volumes \X Keys) /\ Len(got) <= Len(req)
  /\ \A i \in 1 .. Len(got) : got[i][1] = req[i]
  /\ pc \in {"idle", "keys"} => got = << >>
  /\ pc = "token" => Len(got) = Len(req) /\ configMap = Config

\* The copy of the ConfigMap in the pod.  A pod that mounts it has the configuration that
\* goes with the token it has; while the bundle is pushed, every pod has the newest one.
PodInv ==
  /\ template = "mounting" => configMap.exists
  /\ pod.mounts => template = "mounting"
  /\ pod.same /\ token => pod.conf = configMap /\ pod.mounts
  /\ pc = "bundle" => template = "mounting" /\ token /\ (pod.ready => pod.conf = configMap)

\* What a reconcile remembers to push, and what the status says is still to be pushed.
OwedInv ==
  /\ pc \in {"keys", "read", "token"} => mem.need = owed
  /\ pc # "idle" /\ mem.need /\ ~ owed => token
  /\ pc # "idle" /\ ~ mem.need /\ owed => pc = "done" /\ token /\ peers = configMap
  /\ pc = "bundle" => mem.need

\* The status is behind in volume v: it knows a version, and the reconcile has a new one.
Behind(v) == status.tracked[v] \notin {0, mem.tracked[v]}

\* A reconcile that means to store new volumes, or the new version of a secret, in the
\* status has them in the ConfigMap, or will have when it has read the secrets.
StoredInv ==
  /\ pc \in {"keys", "read", "token"} => mem.smart = status.smart
  /\ pc = "keys" => mem.tracked = status.tracked
  /\ pc # "idle" /\ mem.smart # status.smart
     => mem.smart = [i \in DOMAIN configMap.volumes |-> configMap.volumes[i][1]]
  /\ pc = "read"
     => \A v \in Volumes : Behind(v)
          => /\ \E i \in 1 .. Len(req) : req[i] = v
             /\ mem.tracked[v] <= 2 * key[v] + 1
             /\ \A i \in 1 .. Len(got) : got[i][1] = v => mem.tracked[v] <= 2 * got[i][2] + 1
  /\ pc \notin {"idle", "read"}
     => \A v \in Volumes : Behind(v)
          => \E k \in Keys : Stored(v, k) /\ 2 * k + 1 >= mem.tracked[v]
-----------------------------------------------------------------------------
(***************************************************************************)
(* Specs and configurations are short sequences                            *)
(***************************************************************************)

LEMMA AtMostTwo == \A n \in Nat : n <= 2 <=> n \in 0 .. 2
OBVIOUS

LEMMA ShortSequences ==
  ASSUME NEW S, NEW s
  PROVE  s \in UNION {[1 .. n -> S] : n \in 0 .. 2} <=> s \in Seq(S) /\ Len(s) <= 2
<1>1. ASSUME s \in UNION {[1 .. n -> S] : n \in 0 .. 2}
      PROVE  s \in Seq(S) /\ Len(s) <= 2
  <2>1. PICK n \in 0 .. 2 : s \in [1 .. n -> S]
    BY <1>1
  <2> QED
    BY <2>1
<1>2. ASSUME s \in Seq(S), Len(s) <= 2
      PROVE  s \in UNION {[1 .. n -> S] : n \in 0 .. 2}
  <2>1. Len(s) \in 0 .. 2 /\ s \in [1 .. Len(s) -> S]
    BY <1>2, AtMostTwo, LenProperties
  <2> QED
    BY <2>1
<1> QED
  BY <1>1, <1>2

LEMMA SpecsShort == \A s : s \in Specs <=> s \in Seq(Volumes) /\ Len(s) <= 2
BY ShortSequences DEF Specs

LEMMA ConfigsShort ==
  ASSUME NEW c \in Configs
  PROVE  c.volumes \in Seq(Volumes \X Keys) /\ Len(c.volumes) <= 2
BY ShortSequences DEF Configs

LEMMA Defaults ==
  /\ << >> \in Specs
  /\ NoConfig \in Configs
  /\ NoMem \in Mems /\ NoMem.smart \in Specs /\ NoMem.tracked \in [Volumes -> Nat]
  /\ NoPod \in Pods /\ ~ NoPod.mounts /\ ~ NoPod.conf.exists
<1>1. << >> \in Specs
  <2>1. << >> \in Seq(Volumes) /\ Len(<< >>) <= 2
    BY EmptySeq
  <2> QED
    BY <2>1, SpecsShort
<1>2. NoConfig \in Configs
  BY ShortSequences, EmptySeq DEF NoConfig, Configs
<1> QED
  BY <1>1, <1>2 DEF NoMem, Mems, NoPod, Pods, NoConfig

\* What has been read of the keys of a whole spec is a configuration.
LEMMA ConfigType ==
  ASSUME WalkInv
  PROVE  Config \in Configs /\ Config.exists /\ Config.volumes = got
<1>1. Len(req) <= 2
  BY SpecsShort DEF WalkInv, SmartTypeOK
<1>2. got \in Seq(Volumes \X Keys) /\ Len(got) <= 2
  BY <1>1, SpecsShort DEF WalkInv, SmartTypeOK
<1> QED
  BY <1>2, ShortSequences DEF Config, Configs

-----------------------------------------------------------------------------
(***************************************************************************)
(* Types, and what a reconcile has read                                    *)
(***************************************************************************)

LEMMA InitWalk == SmartInit => WalkInv
<1> SUFFICES ASSUME SmartInit PROVE WalkInv
  OBVIOUS
<1>1. 1 \in Keys
  BY SmartStoreAssumption DEF Keys
<1>2. status \in Statuses
  BY Defaults DEF SmartInit, Statuses
<1>3. /\ got = << >> /\ req = << >> /\ << >> \in Seq(Volumes \X Keys) /\ Len(<< >>) = 0
  BY EmptySeq DEF SmartInit
<1>4. SmartTypeOK
  BY <1>1, <1>2, Defaults DEF SmartInit, SmartTypeOK
<1> QED
  BY <1>3, <1>4, Defaults DEF SmartInit, WalkInv

\* The end of a reconcile keeps the types of what it writes.
LEMMA EndWalk ==
  ASSUME WalkInv, NEW m \in Mems, NEW again, End(m, again),
         UNCHANGED <<userVars, fresh, owned, cmVars, peers>>,
         template' \in {"none", "plain", "mounting"},
         pod' \in Pods /\ (pod'.mounts <=> pod'.conf.exists)
  PROVE  WalkInv'
<1>1. status' \in Statuses /\ owed' \in BOOLEAN
  BY DEF End, WalkInv, SmartTypeOK, Statuses, Mems, crVars
<1>2. pc' = "idle" /\ mem' = NoMem /\ req' = << >> /\ got' = << >>
  BY DEF End
<1> QED
  BY <1>1, <1>2, Defaults DEF WalkInv, SmartTypeOK, userVars, cmVars

LEMMA OperatorWalk ==
  ASSUME WalkInv, Operator
  PROVE  WalkInv'
<1> USE DEF userVars, cmVars, crVars
<1>1. CASE Begin
  <2>1. mem' \in Mems
    BY <1>1 DEF Begin, WalkInv, SmartTypeOK, Statuses, Mems
  <2>2. /\ req' = spec /\ got' = got /\ fresh' = TRUE
        /\ pc' \in {"read", "keys"}
    BY <1>1 DEF Begin
  <2>3. got = << >>
    BY <1>1 DEF Begin, WalkInv
  <2>4. Len(got') <= Len(req')
    BY <2>2, <2>3, SpecsShort DEF WalkInv, SmartTypeOK
  <2> QED
    BY <1>1, <2>1, <2>2, <2>3, <2>4 DEF Begin, WalkInv, SmartTypeOK, Mems
<1>2. CASE AreRemoteVolumeKeysChanged
  <2>1. mem' \in Mems
    <3>1. \A v \in Volumes : Version(v) \in Nat
      BY DEF Version, WalkInv, SmartTypeOK, Keys
    <3>2. PICK S : mem' = [mem EXCEPT !.tracked = [v \in Volumes |-> IF v \in S THEN Version(v) ELSE @[v]]]
      BY <1>2 DEF AreRemoteVolumeKeysChanged, GoTo
    <3> QED
      BY <3>1, <3>2 DEF WalkInv, Mems
  <2>2. pc' \in {"read", "pods"} /\ UNCHANGED <<crVars, req, got>>
    BY <1>2 DEF AreRemoteVolumeKeysChanged, GoTo
  <2> QED
    BY <1>2, <2>1, <2>2 DEF AreRemoteVolumeKeysChanged, WalkInv, SmartTypeOK, Mems
<1>3. CASE ReadVolume
  <2> DEFINE v == req[Len(got) + 1]
  <2>1. v \in Volumes /\ Len(got) + 1 \in 1 .. Len(req)
    BY <1>3, SpecsShort DEF ReadVolume, WalkInv, SmartTypeOK
  <2>2. got' = Append(got, <<v, key[v]>>) /\ <<v, key[v]>> \in Volumes \X Keys
    BY <1>3, <2>1 DEF ReadVolume, WalkInv, SmartTypeOK
  <2>3. /\ got' \in Seq(Volumes \X Keys) /\ Len(got') = Len(got) + 1
        /\ \A i \in 1 .. Len(got) : got'[i] = got[i]
        /\ got'[Len(got) + 1] = <<v, key[v]>>
    BY <2>2 DEF WalkInv
  <2>4. \A i \in 1 .. Len(got') : got'[i][1] = req[i]
    <3> SUFFICES ASSUME NEW i \in 1 .. Len(got') PROVE got'[i][1] = req[i]
      OBVIOUS
    <3>1. CASE i \in 1 .. Len(got)
      BY <2>3, <3>1 DEF WalkInv
    <3>2. CASE i = Len(got) + 1
      BY <2>3, <3>2
    <3> QED
      BY <2>3, <3>1, <3>2 DEF WalkInv
  <2>5. owned' \in [Volumes -> BOOLEAN]
    BY <1>3, <2>1 DEF ReadVolume, WalkInv, SmartTypeOK
  <2> HIDE DEF v
  <2>6. Len(got') <= Len(req')
    BY <1>3, <2>1, <2>3 DEF ReadVolume
  <2> QED
    BY <1>3, <2>3, <2>4, <2>5, <2>6 DEF ReadVolume, WalkInv, SmartTypeOK
<1>4. CASE StoreConfig
  <2>1. mem' \in Mems
    BY <1>4 DEF StoreConfig, GoTo, WalkInv, SmartTypeOK, Mems
  <2>2. CASE UNCHANGED cmVars /\ pc' = "pods"
    BY <1>4, <2>1, <2>2 DEF StoreConfig, GoTo, WalkInv, SmartTypeOK, Mems
  <2>3. CASE configMap' = Config /\ token' = FALSE /\ pc' = "token"
    BY <1>4, <2>1, <2>3, ConfigType DEF StoreConfig, GoTo, WalkInv, SmartTypeOK, Mems, Config
  <2> QED
    BY <1>4, <2>2, <2>3 DEF StoreConfig, GoTo
<1>5. CASE StoreToken
  <2>1. mem' \in Mems
    BY <1>5 DEF StoreToken, GoTo, WalkInv, SmartTypeOK, Mems
  <2>2. pod' \in Pods /\ pod'.mounts = pod.mounts /\ pod'.conf = pod.conf
    BY <1>5 DEF StoreToken, WalkInv, SmartTypeOK, Pods
  <2>3. configMap.exists
    BY <1>5 DEF StoreToken, WalkInv, Config
  <2> QED
    BY <1>5, <2>1, <2>2, <2>3 DEF StoreToken, GoTo, WalkInv, SmartTypeOK, Mems
<1>6. CASE UpdatePods
  <2>1. CASE End(mem, TRUE)
    <3>1. template' \in {"none", "plain", "mounting"}
      BY <1>6 DEF UpdatePods, Template, WalkInv, SmartTypeOK
    <3>2. pod' \in Pods /\ (pod'.mounts <=> pod'.conf.exists)
      BY <1>6, Defaults DEF UpdatePods, WalkInv, SmartTypeOK
    <3> QED
      BY <1>6, <2>1, <3>1, <3>2, EndWalk DEF UpdatePods, WalkInv
  <2>2. CASE GoTo("push", mem) /\ UNCHANGED <<template, pod, queued, got>>
    BY <1>6, <2>2 DEF UpdatePods, GoTo, WalkInv, SmartTypeOK
  <2> QED
    BY <1>6, <2>1, <2>2 DEF UpdatePods
<1>7. CASE NothingToPush \/ PushTooEarly \/ Done
  <2>1. mem \in Mems /\ pod \in Pods /\ (pod.mounts <=> pod.conf.exists)
        /\ template \in {"none", "plain", "mounting"}
    BY DEF WalkInv, SmartTypeOK
  <2> QED
    BY <1>7, <2>1, EndWalk DEF NothingToPush, PushTooEarly, Done
<1>8. CASE CheckToken
  <2>1. [mem EXCEPT !.recent = TRUE] \in Mems
    BY DEF WalkInv, Mems
  <2>2. CASE End([mem EXCEPT !.recent = TRUE], TRUE)
    BY <1>8, <2>1, <2>2, EndWalk DEF CheckToken, WalkInv, SmartTypeOK
  <2>3. CASE GoTo("bundle", [mem EXCEPT !.recent = TRUE]) /\ UNCHANGED <<queued, got>>
    BY <1>8, <2>1, <2>3 DEF CheckToken, GoTo, WalkInv, SmartTypeOK, Mems
  <2> QED
    BY <1>8, <2>2, <2>3 DEF CheckToken
<1>9. CASE PushBundle
  <2>1. CASE End(mem, TRUE) /\ UNCHANGED peers
    BY <1>9, <2>1, EndWalk DEF PushBundle, WalkInv, SmartTypeOK
  <2>2. CASE GoTo("done", mem) /\ peers' = pod.conf /\ UNCHANGED got
    BY <1>9, <2>2 DEF PushBundle, GoTo, WalkInv, SmartTypeOK, Pods
  <2>3. CASE GoTo("done", [mem EXCEPT !.need = FALSE]) /\ peers' = pod.conf /\ UNCHANGED got
    BY <1>9, <2>3 DEF PushBundle, GoTo, WalkInv, SmartTypeOK, Pods, Mems
  <2> QED
    BY <1>9, <2>1, <2>2, <2>3 DEF PushBundle
<1> QED
  BY <1>1, <1>2, <1>3, <1>4, <1>5, <1>6, <1>7, <1>8, <1>9 DEF Operator

\* The steps of the others.
Others ==
  \/ EditResource \/ \E v \in Volumes : ChangeKey(v)
  \/ PodStarts \/ KubeletSyncs \/ FiveSecondsPass \/ Fails \/ PodLost

LEMMA OthersWalk ==
  ASSUME WalkInv, Others
  PROVE  WalkInv'
<1> USE DEF userVars, cmVars, crVars, walkVars
<1>1. CASE EditResource
  BY <1>1 DEF EditResource, WalkInv, SmartTypeOK, Config
<1>2. CASE \E v \in Volumes : ChangeKey(v)
  <2>1. key' \in [Volumes -> Keys]
    BY <1>2, SmartStoreAssumption DEF ChangeKey, WalkInv, SmartTypeOK, Keys
  <2> QED
    BY <1>2, <2>1 DEF ChangeKey, WalkInv, SmartTypeOK, Config
<1>3. CASE PodStarts
  <2>1. pod' \in Pods /\ (pod'.mounts <=> pod'.conf.exists)
    <3>1. CASE pod' = [NoPod EXCEPT !.ready = TRUE]
      BY <3>1, Defaults DEF Pods
    <3>2. CASE token /\ pod' = [ready |-> TRUE, mounts |-> TRUE, conf |-> configMap, same |-> TRUE]
      BY <3>2 DEF WalkInv, SmartTypeOK, Pods
    <3> QED
      BY <1>3, <3>1, <3>2 DEF PodStarts
  <2> QED
    BY <1>3, <2>1 DEF PodStarts, WalkInv, SmartTypeOK, Config
<1>4. CASE KubeletSyncs
  <2>1. pod' \in Pods /\ (pod'.mounts <=> pod'.conf.exists)
    BY <1>4 DEF KubeletSyncs, WalkInv, SmartTypeOK, Pods
  <2> QED
    BY <1>4, <2>1 DEF KubeletSyncs, WalkInv, SmartTypeOK, Config
<1>5. CASE FiveSecondsPass
  <2>1. status' \in Statuses /\ mem' \in Mems
    BY <1>5 DEF FiveSecondsPass, WalkInv, SmartTypeOK, Statuses, Mems
  <2>2. mem = NoMem => mem' = NoMem
    <3>1. \A m \in Mems : m.recent = FALSE => [m EXCEPT !.recent = FALSE] = m
      BY DEF Mems
    <3>2. NoMem \in Mems /\ NoMem.recent = FALSE
      BY Defaults DEF NoMem
    <3> QED
      BY <1>5, <3>1, <3>2 DEF FiveSecondsPass
  <2> QED
    BY <1>5, <2>1, <2>2 DEF FiveSecondsPass, WalkInv, SmartTypeOK, Mems, Config
<1>6. CASE Fails
  <2>1. CASE End(mem, TRUE)
    BY <1>6, <2>1, EndWalk DEF Fails, WalkInv, SmartTypeOK
  <2>2. CASE /\ pc' = "idle" /\ mem' = NoMem /\ req' = << >> /\ got' = << >>
             /\ UNCHANGED crVars
    BY <1>6, <2>2, Defaults DEF Fails, WalkInv, SmartTypeOK
  <2> QED
    BY <1>6, <2>1, <2>2 DEF Fails
<1>7. CASE PodLost
  BY <1>7, Defaults DEF PodLost, WalkInv, SmartTypeOK, Config
<1> QED
  BY <1>1, <1>2, <1>3, <1>4, <1>5, <1>6, <1>7 DEF Others

LEMMA WalkStep == WalkInv /\ [SmartNext]_vars => WalkInv'
<1>1. WalkInv /\ UNCHANGED vars => WalkInv'
  BY DEF vars, userVars, cmVars, crVars, walkVars, WalkInv, SmartTypeOK, Config
<1> QED
  BY <1>1, OperatorWalk, OthersWalk DEF SmartNext, Others

\* ApplyClusterMaster, ApplySmartstoreConfigMap and PerformCmBundlePush keep the types of
\* what they read and write: the token is only ever in a ConfigMap that exists, and a
\* pod that mounts it has a copy.
THEOREM SmartTypeCorrect == SmartSpec => []SmartTypeOK
<1>1. WalkInv => SmartTypeOK
  BY DEF WalkInv
<1> QED
  BY <1>1, InitWalk, WalkStep, PTL DEF SmartSpec

-----------------------------------------------------------------------------
(***************************************************************************)
(* The copy of the ConfigMap in the pod                                    *)
(***************************************************************************)

LEMMA InitPod == SmartInit => PodInv
BY DEF SmartInit, PodInv, NoPod

LEMMA PodStep ==
  ASSUME WalkInv, PodInv, ~ SameSecond, [SmartNext]_vars
  PROVE  PodInv'
<1> USE DEF userVars, cmVars, crVars
<1>1. CASE Begin
  BY <1>1 DEF Begin, PodInv
<1>2. CASE AreRemoteVolumeKeysChanged
  BY <1>2 DEF AreRemoteVolumeKeysChanged, GoTo, PodInv
<1>3. CASE ReadVolume
  BY <1>3 DEF ReadVolume, PodInv
<1>4. CASE StoreConfig
  <2>1. Config.exists
    BY DEF Config
  <2> QED
    BY <1>4, <2>1 DEF StoreConfig, GoTo, PodInv
<1>5. CASE StoreToken
  <2>1. ~ pod'.same /\ pod'.mounts = pod.mounts
    BY <1>5 DEF StoreToken, WalkInv, SmartTypeOK, Pods
  <2> QED
    BY <1>5, <2>1 DEF StoreToken, GoTo, PodInv
<1>6. CASE UpdatePods
  <2>1. ~ NoPod.mounts /\ ~ NoPod.same
    BY DEF NoPod
  <2> QED
    BY <1>6, <2>1 DEF UpdatePods, Template, GoTo, End, PodInv
<1>7. CASE NothingToPush \/ PushTooEarly \/ Done
  BY <1>7 DEF NothingToPush, PushTooEarly, Done, End, PodInv
<1>8. CASE CheckToken
  BY <1>8 DEF CheckToken, GoTo, End, PodInv
<1>9. CASE PushBundle
  BY <1>9 DEF PushBundle, GoTo, End, PodInv
<1>10. CASE EditResource \/ \E v \in Volumes : ChangeKey(v)
  BY <1>10 DEF EditResource, ChangeKey, walkVars, PodInv
<1>11. CASE PodStarts
  <2>1. CASE template = "plain" /\ pod' = [NoPod EXCEPT !.ready = TRUE]
    BY <1>11, <2>1 DEF PodStarts, walkVars, PodInv, NoPod
  <2>2. CASE /\ template = "mounting" /\ token
             /\ pod' = [ready |-> TRUE, mounts |-> TRUE, conf |-> configMap, same |-> TRUE]
    BY <1>11, <2>2 DEF PodStarts, walkVars, PodInv
  <2> QED
    BY <1>11, <2>1, <2>2 DEF PodStarts
<1>12. CASE KubeletSyncs
  <2>1. pod'.mounts /\ pod'.conf = configMap
    BY <1>12 DEF KubeletSyncs, WalkInv, SmartTypeOK, Pods
  <2> QED
    BY <1>12, <2>1 DEF KubeletSyncs, walkVars, PodInv
<1>13. CASE FiveSecondsPass
  BY <1>13 DEF FiveSecondsPass, PodInv
<1>14. CASE Fails
  BY <1>14 DEF Fails, End, PodInv
<1>15. CASE PodLost
  BY <1>15 DEF PodLost, walkVars, PodInv, NoPod
<1>16. CASE UNCHANGED vars
  BY <1>16 DEF vars, walkVars, PodInv
<1> QED
  BY <1>1, <1>2, <1>3, <1>4, <1>5, <1>6, <1>7, <1>8, <1>9, <1>10, <1>11, <1>12, <1>13,
     <1>14, <1>15, <1>16 DEF SmartNext, Operator

-----------------------------------------------------------------------------
(***************************************************************************)
(* What is owed                                                            *)
(***************************************************************************)

LEMMA InitOwed == SmartInit => OwedInv
BY DEF SmartInit, OwedInv

LEMMA OwedStep ==
  ASSUME WalkInv, PodInv, OwedInv, [SmartNext]_vars
  PROVE  OwedInv'
<1> USE DEF userVars, cmVars, crVars
<1>0. /\ mem \in Mems /\ owed \in BOOLEAN
      /\ \A m \in Mems : /\ [m EXCEPT !.recent = TRUE].need = m.need
                         /\ [m EXCEPT !.recent = FALSE].need = m.need
                         /\ \A s \in Specs : [m EXCEPT !.smart = s].need = m.need
                         /\ \A t : [m EXCEPT !.tracked = t].need = m.need
                         /\ [m EXCEPT !.need = FALSE].need = FALSE
  BY DEF WalkInv, SmartTypeOK, Mems
<1>1. CASE Begin
  BY <1>1 DEF Begin, OwedInv
<1>2. CASE AreRemoteVolumeKeysChanged
  <2>1. mem'.need = mem.need
    BY <1>0, <1>2 DEF AreRemoteVolumeKeysChanged, GoTo, Mems
  <2> QED
    BY <1>2, <2>1 DEF AreRemoteVolumeKeysChanged, GoTo, OwedInv
<1>3. CASE ReadVolume
  BY <1>3 DEF ReadVolume, OwedInv
<1>4. CASE StoreConfig
  <2>1. mem'.need = mem.need
    BY <1>0, <1>4 DEF StoreConfig, GoTo, WalkInv, SmartTypeOK, Mems
  <2> QED
    BY <1>0, <1>4, <2>1 DEF StoreConfig, GoTo, OwedInv
<1>5. CASE StoreToken
  <2>1. mem'.need = TRUE /\ token' = TRUE /\ pc' = "pods"
    BY <1>0, <1>5 DEF StoreToken, GoTo, Mems
  <2> QED
    BY <2>1 DEF OwedInv
<1>6. CASE UpdatePods \/ NothingToPush \/ PushTooEarly \/ Done
  BY <1>6 DEF UpdatePods, NothingToPush, PushTooEarly, Done, GoTo, End, OwedInv
<1>7. CASE CheckToken
  <2>1. [mem EXCEPT !.recent = TRUE].need = mem.need
    BY <1>0
  <2> QED
    BY <1>7, <2>1 DEF CheckToken, GoTo, End, OwedInv
<1>8. CASE PushBundle
  <2>1. CASE pod.ready /\ GoTo("done", [mem EXCEPT !.need = FALSE])
    BY <1>0, <1>8, <2>1 DEF PushBundle, GoTo, PodInv, OwedInv
  <2>2. CASE pod.ready /\ GoTo("done", mem)
    BY <1>8, <2>2 DEF PushBundle, GoTo, OwedInv
  <2>3. CASE End(mem, TRUE)
    BY <2>3 DEF End, OwedInv
  <2> QED
    BY <1>8, <2>1, <2>2, <2>3 DEF PushBundle
<1>9. CASE EditResource \/ \E v \in Volumes : ChangeKey(v)
  BY <1>9 DEF EditResource, ChangeKey, walkVars, OwedInv
<1>10. CASE PodStarts \/ KubeletSyncs \/ PodLost
  BY <1>10 DEF PodStarts, KubeletSyncs, PodLost, walkVars, OwedInv
<1>11. CASE FiveSecondsPass
  <2>1. mem'.need = mem.need
    BY <1>0, <1>11 DEF FiveSecondsPass
  <2> QED
    BY <1>11, <2>1 DEF FiveSecondsPass, OwedInv
<1>12. CASE Fails
  BY <1>12 DEF Fails, End, OwedInv
<1>13. CASE UNCHANGED vars
  BY <1>13 DEF vars, walkVars, OwedInv
<1> QED
  BY <1>1, <1>2, <1>3, <1>4, <1>5, <1>6, <1>7, <1>8, <1>9, <1>10, <1>11, <1>12, <1>13
     DEF SmartNext, Operator

-----------------------------------------------------------------------------
(***************************************************************************)
(* The refinement of ConfigDelivery                                        *)
(***************************************************************************)

\* The end of a reconcile stores what it remembers of the debt: it is taken up while the
\* ConfigMap has its token, and dropped when the indexers have what the ConfigMap has.
LEMMA EndDelivers ==
  ASSUME WalkInv, OwedInv, pc # "idle",
         NEW m \in Mems, m.need = mem.need, NEW again, End(m, again),
         UNCHANGED <<configMap, token, peers>>
  PROVE  [Delivery!Next]_(Delivery!vars)
<1>1. owed' \in {owed, mem.need}
  BY DEF End, crVars
<1>2. CASE owed' = owed
  BY <1>2 DEF Delivery!vars
<1>3. CASE ~ owed /\ owed' /\ mem.need
  BY <1>3 DEF OwedInv, Delivery!Next, Delivery!Owe
<1>4. CASE owed /\ ~ owed' /\ ~ mem.need
  BY <1>4 DEF OwedInv, Delivery!Next, Delivery!Settle, WalkInv, SmartTypeOK
<1>5. owed \in BOOLEAN /\ mem.need \in BOOLEAN
  BY DEF WalkInv, SmartTypeOK, Mems
<1> QED
  BY <1>1, <1>2, <1>3, <1>4, <1>5

LEMMA OperatorDelivers ==
  ASSUME WalkInv, PodInv, OwedInv, Operator
  PROVE  [Delivery!Next]_(Delivery!vars)
<1> USE DEF userVars, cmVars, crVars
<1>0. mem \in Mems
  BY DEF WalkInv
<1>1. CASE Begin \/ AreRemoteVolumeKeysChanged \/ ReadVolume
  BY <1>1 DEF Begin, AreRemoteVolumeKeysChanged, ReadVolume, GoTo, Delivery!vars
<1>2. CASE StoreConfig
  <2>1. UNCHANGED <<owed, peers>>
    BY <1>2 DEF StoreConfig, GoTo
  <2>2. CASE UNCHANGED cmVars
    BY <2>1, <2>2 DEF Delivery!vars
  <2>3. CASE configMap' = Config /\ token' = FALSE
    BY <2>1, <2>3, ConfigType DEF Delivery!Next, Delivery!Store
  <2> QED
    BY <1>2, <2>2, <2>3 DEF StoreConfig
<1>3. CASE StoreToken
  BY <1>3 DEF StoreToken, GoTo, Delivery!Next, Delivery!Mark, Delivery!vars, WalkInv, SmartTypeOK
<1>4. CASE UpdatePods
  <2>1. CASE GoTo("push", mem)
    BY <1>4, <2>1 DEF UpdatePods, GoTo, Delivery!vars
  <2>2. CASE End(mem, TRUE)
    BY <1>0, <1>4, <2>2, EndDelivers DEF UpdatePods
  <2> QED
    BY <1>4, <2>1, <2>2 DEF UpdatePods
<1>5. CASE NothingToPush \/ PushTooEarly \/ Done
  BY <1>0, <1>5, EndDelivers DEF NothingToPush, PushTooEarly, Done
<1>6. CASE CheckToken
  <2>1. [mem EXCEPT !.recent = TRUE] \in Mems /\ [mem EXCEPT !.recent = TRUE].need = mem.need
    BY <1>0 DEF Mems
  <2>2. CASE End([mem EXCEPT !.recent = TRUE], TRUE)
    BY <1>6, <2>1, <2>2, EndDelivers DEF CheckToken
  <2>3. CASE GoTo("bundle", [mem EXCEPT !.recent = TRUE])
    BY <1>6, <2>3 DEF CheckToken, GoTo, Delivery!vars
  <2> QED
    BY <1>6, <2>2, <2>3 DEF CheckToken
<1>7. CASE PushBundle
  <2>1. CASE ~ pod.ready
    BY <1>0, <1>7, <2>1, EndDelivers DEF PushBundle
  <2>2. CASE pod.ready
    <3>1. token /\ peers' = configMap /\ UNCHANGED <<configMap, token, owed>>
      BY <1>7, <2>2 DEF PushBundle, GoTo, PodInv
    <3> QED
      BY <3>1 DEF Delivery!Next, Delivery!Deliver, Delivery!vars
  <2> QED
    BY <2>1, <2>2
<1> QED
  BY <1>1, <1>2, <1>3, <1>4, <1>5, <1>6, <1>7 DEF Operator

LEMMA OthersDeliver ==
  ASSUME WalkInv, OwedInv, Others
  PROVE  [Delivery!Next]_(Delivery!vars)
<1> USE DEF userVars, cmVars, crVars
<1>1. CASE Fails /\ End(mem, TRUE)
  BY <1>1, EndDelivers DEF Fails, WalkInv
<1>2. CASE UNCHANGED <<configMap, token, owed, peers>>
  BY <1>2 DEF Delivery!vars
<1> QED
  BY <1>1, <1>2 DEF Others, EditResource, ChangeKey, PodStarts, KubeletSyncs, FiveSecondsPass,
     Fails, PodLost

\* PerformCmBundlePush implements the safety part of ConfigDelivery, whatever fails and
\* whoever changes the resource, its secrets and the pod meanwhile: the indexers only ever
\* get the configuration that the ConfigMap has at that moment, and NeedToPushMasterApps
\* is reset only when they have it.
THEOREM SmartStoreDelivers ==
  ~ SameSecond /\ SmartSpec => Delivery!Spec
<1>1. SmartInit => Delivery!Init
  BY Defaults DEF SmartInit, Delivery!Init
<1>2. WalkInv /\ PodInv /\ OwedInv /\ [SmartNext]_vars => [Delivery!Next]_(Delivery!vars)
  <2>1. UNCHANGED vars => UNCHANGED Delivery!vars
    BY DEF vars, cmVars, crVars, Delivery!vars
  <2> QED
    BY <2>1, OperatorDelivers, OthersDeliver DEF SmartNext, Others
<1> SUFFICES ASSUME ~ SameSecond PROVE SmartSpec => Delivery!Spec
  OBVIOUS
<1> QED
  BY <1>1, <1>2, InitWalk, WalkStep, InitPod, PodStep, InitOwed, OwedStep, PTL
     DEF SmartSpec, Delivery!Spec

-----------------------------------------------------------------------------
(***************************************************************************)
(* The status never runs ahead of the ConfigMap                            *)
(***************************************************************************)

\* What was read of a whole spec has the volumes of the spec.
LEMMA ReadAll ==
  ASSUME WalkInv, Len(got) = Len(req)
  PROVE  req = [i \in DOMAIN Config.volumes |-> Config.volumes[i][1]]
<1>1. req \in Seq(Volumes) /\ DOMAIN got = 1 .. Len(req)
  BY SpecsShort DEF WalkInv, SmartTypeOK
<1>2. req = [i \in 1 .. Len(req) |-> req[i]]
  BY <1>1
<1>3. \A i \in 1 .. Len(req) : got[i][1] = req[i]
  BY DEF WalkInv
<1> QED
  BY <1>1, <1>2, <1>3, ConfigType

LEMMA InitStored == SmartInit => StoredInv
BY DEF SmartInit, StoredInv

\* The first volume that is tracked, which AreRemoteVolumeKeysChanged stops at.
LEMMA FirstTracked ==
  ASSUME NEW n \in Nat, n <= 2, NEW T \in SUBSET (1 .. n), T # {}
  PROVE  Min(T) \in T /\ \A i \in 1 .. Min(T) : i \in T => i = Min(T)
<1>1. PICK a \in T : \A b \in T : a <= b
  <2>1. CASE 1 \in T
    BY <2>1
  <2>2. CASE 1 \notin T
    <3>1. PICK a \in T : TRUE
      OBVIOUS
    <3>2. \A b \in T : b = 2
      BY <2>2
    <3> QED
      BY <3>1, <3>2
  <2> QED
    BY <2>1, <2>2
<1>2. Min(T) \in T /\ \A b \in T : Min(T) <= b
  BY <1>1 DEF Min
<1>3. ASSUME NEW m \in 1 .. n, \A b \in T : m <= b
      PROVE  \A i \in 1 .. m : i \in T => i = m
  BY <1>3
<1> QED
  BY <1>2, <1>3

LEMMA KeysStored ==
  ASSUME WalkInv, StoredInv, AreRemoteVolumeKeysChanged
  PROVE  StoredInv'
<1> DEFINE T    == {i \in DOMAIN req : mem.tracked[req[i]] # 0}
           last == IF T = {} THEN Len(req) ELSE Min(T)
           seen == {req[i] : i \in 1 .. last}
           changed == T # {} /\ mem.tracked[req[last]] # Version(req[last])
<1>1. /\ pc = "keys" /\ pc' = IF changed THEN "read" ELSE "pods"
      /\ mem' = [mem EXCEPT !.tracked = [v \in Volumes |-> IF v \in seen THEN Version(v) ELSE @[v]]]
      /\ UNCHANGED <<userVars, status, req, got, configMap>>
  BY DEF AreRemoteVolumeKeysChanged, GoTo, crVars, cmVars
<1>2. /\ mem'.smart = mem.smart
      /\ \A v \in Volumes : mem'.tracked[v] = IF v \in seen THEN Version(v) ELSE mem.tracked[v]
  BY <1>1 DEF WalkInv, Mems
<1>3. req \in Seq(Volumes) /\ Len(req) <= 2 /\ DOMAIN req = 1 .. Len(req)
  BY SpecsShort DEF WalkInv, SmartTypeOK
<1>4. last \in 0 .. Len(req) /\ \A i \in 1 .. last : i \in T => T # {} /\ i = last
  <2> HIDE DEF T
  <2>1. T \in SUBSET (1 .. Len(req)) /\ Len(req) \in Nat
    BY <1>3 DEF T
  <2>2. CASE T = {}
    BY <2>1, <2>2
  <2>3. CASE T # {}
    <3>1. last = Min(T) /\ Min(T) \in T /\ \A i \in 1 .. Min(T) : i \in T => i = Min(T)
      BY <1>3, <2>1, <2>3, FirstTracked
    <3>2. Min(T) \in 1 .. Len(req)
      BY <2>1, <3>1
    <3>3. 1 .. Len(req) \subseteq 0 .. Len(req)
      BY <2>1
    <3> QED
      BY <2>3, <3>1, <3>2, <3>3
  <2> QED
    BY <2>2, <2>3
<1>5. ASSUME NEW v \in Volumes, Behind(v)'
      PROVE  v \in seen /\ mem'.tracked[v] = Version(v) /\ mem.tracked[v] \notin {0, Version(v)}
  BY <1>1, <1>2, <1>5 DEF Behind, StoredInv
<1>6. ASSUME NEW v \in Volumes, Behind(v)'
      PROVE  changed
  <2>1. PICK i \in 1 .. last : req[i] = v
    BY <1>5, <1>6
  <2>2. i \in T
    <3> HIDE DEF last
    <3>1. Len(req) \in Nat /\ last \in 0 .. Len(req) /\ i \in 1 .. last
      BY <1>3, <1>4, <2>1
    <3>2. i \in 1 .. Len(req)
      BY <3>1
    <3> USE DEF last
    <3> QED
      BY <1>3, <1>5, <1>6, <2>1, <3>2
  <2>3. i = last /\ T # {}
    BY <1>4, <2>2
  <2> QED
    BY <1>5, <1>6, <2>1, <2>3
<1>7. ASSUME changed
      PROVE  StoredInv'
  <2>1. got' = << >> /\ Len(got') = 0 /\ pc' = "read"
    BY <1>1, <1>7 DEF WalkInv
  <2>2. \A v \in Volumes : key[v] \in Nat /\ Version(v) \in Nat /\ Version(v) <= 2 * key[v] + 1
    BY DEF Version, WalkInv, SmartTypeOK, Keys
  <2>3. ASSUME NEW v \in Volumes, Behind(v)'
        PROVE  /\ \E i \in 1 .. Len(req') : req'[i] = v
               /\ mem'.tracked[v] <= 2 * key'[v] + 1
    <3>1. PICK i \in 1 .. last : req[i] = v
      BY <1>5, <2>3
    <3>2. i \in 1 .. Len(req) /\ req' = req
      BY <1>1, <1>3, <1>4
    <3>3. mem'.tracked[v] = Version(v) /\ key' = key
      BY <1>1, <1>5, <2>3 DEF userVars
    <3> QED
      BY <2>2, <3>1, <3>2, <3>3
  <2> HIDE DEF seen, last, T, changed
  <2>4. mem'.smart = status'.smart
    BY <1>1, <1>2 DEF StoredInv
  <2> QED
    BY <2>1, <2>3, <2>4 DEF StoredInv
<1>8. ASSUME ~ changed
      PROVE  StoredInv'
  <2>1. pc' = "pods" /\ \A v \in Volumes : ~ Behind(v)'
    BY <1>1, <1>6, <1>8
  <2>2. mem'.smart = status'.smart
    BY <1>1, <1>2 DEF StoredInv
  <2> QED
    BY <2>1, <2>2 DEF StoredInv
<1> QED
  BY <1>7, <1>8

\* A step that leaves what the reconcile knows of volumes and versions alone.
SameTracks ==
  /\ mem'.smart = mem.smart /\ mem'.tracked = mem.tracked
  /\ status'.smart = status.smart /\ status'.tracked = status.tracked
  /\ UNCHANGED configMap

LEMMA IdleStored ==
  ASSUME pc' = "idle"
  PROVE  StoredInv'
BY DEF StoredInv

LEMMA PushStored ==
  ASSUME StoredInv, SameTracks, pc \notin {"idle", "read", "keys", "token"},
         pc' \notin {"idle", "read", "keys", "token"}
  PROVE  StoredInv'
BY DEF StoredInv, SameTracks, Behind, Stored

LEMMA StoredStep ==
  ASSUME WalkInv, StoredInv, [SmartNext]_vars
  PROVE  StoredInv'
<1> USE DEF userVars, cmVars, crVars
<1>0. /\ mem \in Mems
      /\ \A m \in Mems : /\ [m EXCEPT !.recent = TRUE].smart = m.smart
                         /\ [m EXCEPT !.recent = TRUE].tracked = m.tracked
                         /\ [m EXCEPT !.recent = FALSE].smart = m.smart
                         /\ [m EXCEPT !.recent = FALSE].tracked = m.tracked
                         /\ [m EXCEPT !.need = FALSE].smart = m.smart
                         /\ [m EXCEPT !.need = FALSE].tracked = m.tracked
  BY DEF WalkInv, Mems
<1>1. CASE Begin
  <2>1. /\ mem'.smart = status'.smart /\ mem'.tracked = status'.tracked
        /\ pc' \in {"keys", "read"}
    BY <1>1 DEF Begin
  <2> QED
    BY <2>1 DEF StoredInv, Behind
<1>2. CASE AreRemoteVolumeKeysChanged
  BY <1>2, KeysStored
<1>3. CASE ReadVolume
  <2> DEFINE w == req[Len(got) + 1]
  <2>1. pc = "read" /\ got' = Append(got, <<w, key[w]>>)
        /\ UNCHANGED <<mem, status, req, pc, configMap, key>>
    BY <1>3 DEF ReadVolume
  <2>2. /\ Len(got') = Len(got) + 1 /\ got'[Len(got) + 1] = <<w, key[w]>>
        /\ \A i \in 1 .. Len(got) : got'[i] = got[i]
    BY <2>1, AppendProperties DEF WalkInv
  <2> HIDE DEF w
  <2>3. ASSUME NEW v \in Volumes, Behind(v)
        PROVE  \A i \in 1 .. Len(got') : got'[i][1] = v => mem.tracked[v] <= 2 * got'[i][2] + 1
    <3> SUFFICES ASSUME NEW i \in 1 .. Len(got'), got'[i][1] = v
                 PROVE  mem.tracked[v] <= 2 * got'[i][2] + 1
      OBVIOUS
    <3>1. CASE i \in 1 .. Len(got)
      BY <2>1, <2>2, <2>3, <3>1 DEF StoredInv
    <3>2. CASE i = Len(got) + 1
      BY <2>1, <2>2, <2>3, <3>2 DEF StoredInv
    <3> QED
      BY <2>2, <3>1, <3>2 DEF WalkInv
  <2> QED
    BY <2>1, <2>3 DEF StoredInv, Behind
<1>4. CASE StoreConfig
  <2>1. pc = "read" /\ Len(got) = Len(req) /\ UNCHANGED <<status, key, req, got>>
    BY <1>4 DEF StoreConfig, GoTo
  <2>2. configMap' = Config /\ mem'.tracked = mem.tracked /\ Config' = Config
    BY <1>4 DEF StoreConfig, GoTo, Config, WalkInv, Mems
  <2>3. ASSUME NEW v \in Volumes, Behind(v)'
        PROVE  \E k \in Keys : Stored(v, k)' /\ 2 * k + 1 >= mem'.tracked[v]
    <3>1. Behind(v)
      BY <2>1, <2>2, <2>3 DEF Behind
    <3>2. PICK i \in 1 .. Len(req) : req[i] = v
      BY <2>1, <3>1 DEF StoredInv
    <3>3. i \in 1 .. Len(got) /\ got[i][1] = v /\ mem.tracked[v] <= 2 * got[i][2] + 1
      BY <2>1, <3>1, <3>2 DEF StoredInv, WalkInv
    <3>4. got[i][2] \in Keys /\ configMap'.volumes[i] = <<v, got[i][2]>>
          /\ i \in DOMAIN configMap'.volumes
      <4>1. got[i] \in Volumes \X Keys /\ i \in DOMAIN got
        BY <3>3 DEF WalkInv
      <4>2. got[i] = <<v, got[i][2]>>
        BY <3>3, <4>1
      <4> QED
        BY <2>2, <4>1, <4>2, ConfigType
    <3>5. mem.tracked[v] \in Nat /\ got[i][2] \in Nat
      BY <3>4 DEF WalkInv, Mems, Keys
    <3>6. 2 * got[i][2] + 1 >= mem'.tracked[v]
      BY <2>2, <3>3, <3>5
    <3> QED
      BY <3>4, <3>6 DEF Stored
  <2>4. CASE mem'.smart = req /\ pc' = "pods"
    <3>1. req = [i \in DOMAIN configMap'.volumes |-> configMap'.volumes[i][1]]
      BY <2>1, <2>2, ReadAll
    <3> QED
      BY <2>3, <2>4, <3>1 DEF StoredInv
  <2>5. CASE mem' = mem /\ pc' = "token"
    BY <2>1, <2>3, <2>5 DEF StoredInv
  <2> QED
    BY <1>4, <2>4, <2>5 DEF StoreConfig, GoTo, WalkInv, Mems
<1>5. CASE StoreToken
  <2>1. pc = "token" /\ pc' = "pods" /\ configMap' = configMap /\ configMap = Config
        /\ Len(got) = Len(req) /\ status' = status
    BY <1>5 DEF StoreToken, GoTo, WalkInv
  <2>2. mem'.smart = req /\ mem'.tracked = mem.tracked
    BY <1>5 DEF StoreToken, GoTo, WalkInv, Mems
  <2>3. req = [i \in DOMAIN configMap'.volumes |-> configMap'.volumes[i][1]]
    BY <2>1, ReadAll
  <2> QED
    BY <2>1, <2>2, <2>3 DEF StoredInv, Behind, Stored
<1>6. CASE UpdatePods \/ NothingToPush \/ PushTooEarly \/ Done
  <2>1. CASE pc' = "idle"
    BY <2>1, IdleStored
  <2>2. CASE pc = "pods" /\ pc' = "push" /\ mem' = mem /\ UNCHANGED <<crVars, cmVars>>
    BY <2>2, PushStored DEF SameTracks
  <2> QED
    BY <1>6, <2>1, <2>2 DEF UpdatePods, NothingToPush, PushTooEarly, Done, GoTo, End
<1>7. CASE CheckToken
  <2>1. CASE pc' = "idle"
    BY <2>1, IdleStored
  <2>2. CASE GoTo("bundle", [mem EXCEPT !.recent = TRUE])
    BY <1>0, <1>7, <2>2, PushStored DEF CheckToken, GoTo, SameTracks
  <2> QED
    BY <1>7, <2>1, <2>2 DEF CheckToken, End
<1>8. CASE PushBundle
  <2>1. CASE pc' = "idle"
    BY <2>1, IdleStored
  <2>2. CASE GoTo("done", mem) \/ GoTo("done", [mem EXCEPT !.need = FALSE])
    BY <1>0, <1>8, <2>2, PushStored DEF PushBundle, GoTo, SameTracks
  <2> QED
    BY <1>8, <2>1, <2>2 DEF PushBundle, End
<1>9. CASE \E v \in Volumes : ChangeKey(v)
  <2>1. UNCHANGED <<mem, status, configMap, pc, req, got>>
        /\ \A v \in Volumes : key[v] \in Nat /\ key'[v] \in Nat /\ key[v] <= key'[v]
    BY <1>9 DEF ChangeKey, walkVars, WalkInv, SmartTypeOK, Keys
  <2>2. \A v \in Volumes : mem.tracked[v] \in Nat
    BY DEF WalkInv, Mems
  <2>3. \A v \in Volumes : mem.tracked[v] <= 2 * key[v] + 1 => mem.tracked[v] <= 2 * key'[v] + 1
    BY <2>1, <2>2
  <2> QED
    BY <2>1, <2>3 DEF StoredInv, Behind, Stored
<1>10. CASE FiveSecondsPass
  <2>1. SameTracks /\ UNCHANGED <<pc, req, got, key>>
    BY <1>0, <1>10 DEF FiveSecondsPass, SameTracks, WalkInv, SmartTypeOK, Statuses
  <2> QED
    BY <2>1 DEF StoredInv, SameTracks, Behind, Stored
<1>11. CASE Fails
  BY <1>11, IdleStored DEF Fails, End
<1>12. CASE EditResource \/ PodStarts \/ KubeletSyncs \/ PodLost \/ UNCHANGED vars
  <2>1. UNCHANGED <<mem, status, configMap, pc, req, got, key>>
    BY <1>12 DEF EditResource, PodStarts, KubeletSyncs, PodLost, vars, walkVars
  <2> QED
    BY <2>1 DEF StoredInv, Behind, Stored
<1> QED
  BY <1>1, <1>2, <1>3, <1>4, <1>5, <1>6, <1>7, <1>8, <1>9, <1>10, <1>11, <1>12
     DEF SmartNext, Operator

\* The deferred write of the status at the end of a reconcile.
LEMMA EndStores ==
  ASSUME StoredInv, pc \notin {"idle", "read"},
         NEW m, m.smart = mem.smart, m.tracked = mem.tracked, NEW again, End(m, again)
  PROVE  /\ status'.smart # status.smart
            => status'.smart = [i \in DOMAIN configMap.volumes |-> configMap.volumes[i][1]]
         /\ \A v \in Volumes :
              status.tracked[v] \notin {0, status'.tracked[v]}
              => \E k \in Keys : Stored(v, k) /\ 2 * k + 1 >= status'.tracked[v]
<1>1. CASE status' = status
  BY <1>1
<1>2. CASE status'.smart = mem.smart /\ status'.tracked = mem.tracked
  BY <1>2 DEF StoredInv, Behind
<1> QED
  BY <1>1, <1>2 DEF End, crVars

\* What ApplyClusterMaster stores in the status of the volumes and of the versions of
\* their secrets is in the ConfigMap by then: a change that a reconcile did not get to
\* store is noticed by the next one.
THEOREM StatusStored == SmartSpec => StatusIsStored
<1> DEFINE Kept ==
      /\ status'.smart # status.smart
         => status'.smart = [i \in DOMAIN configMap.volumes |-> configMap.volumes[i][1]]
      /\ \A v \in Volumes :
           status.tracked[v] \notin {0, status'.tracked[v]}
           => \E k \in Keys : Stored(v, k) /\ 2 * k + 1 >= status'.tracked[v]
<1>1. ASSUME WalkInv, StoredInv, [SmartNext]_vars
      PROVE  Kept
  <2> USE DEF userVars, cmVars, crVars
  <2>1. CASE status'.smart = status.smart /\ status'.tracked = status.tracked
    BY <2>1
  <2>2. CASE End(mem, TRUE) /\ pc \notin {"idle", "read"}
    BY <1>1, <2>2, EndStores
  <2>3. CASE End([mem EXCEPT !.recent = TRUE], TRUE) /\ pc \notin {"idle", "read"}
    <3>1. /\ [mem EXCEPT !.recent = TRUE].smart = mem.smart
          /\ [mem EXCEPT !.recent = TRUE].tracked = mem.tracked
      BY <1>1 DEF WalkInv, Mems
    <3> QED
      BY <1>1, <2>3, <3>1, EndStores
  <2>4. CASE NothingToPush \/ Done
    BY <1>1, <2>4, EndStores DEF NothingToPush, Done
  <2>5. CASE UpdatePods \/ PushTooEarly \/ CheckToken \/ PushBundle
    BY <2>1, <2>2, <2>3, <2>5 DEF UpdatePods, PushTooEarly, CheckToken, PushBundle, GoTo
  <2>6. CASE Fails
    BY <2>1, <2>2, <2>6 DEF Fails
  <2>7. CASE FiveSecondsPass
    BY <1>1, <2>1, <2>7 DEF FiveSecondsPass, WalkInv, SmartTypeOK, Statuses
  <2>8. CASE UNCHANGED status
    BY <2>8, <2>1
  <2> QED
    BY <1>1, <2>4, <2>5, <2>6, <2>7, <2>8 DEF SmartNext, Operator, Begin,
       AreRemoteVolumeKeysChanged, ReadVolume, StoreConfig, StoreToken, GoTo, EditResource,
       ChangeKey, PodStarts, KubeletSyncs, PodLost, vars
<1>2. WalkInv /\ StoredInv /\ [SmartNext]_vars => [Kept]_vars
  BY <1>1
<1> QED
  BY <1>2, InitWalk, WalkStep, InitStored, StoredStep, PTL DEF SmartSpec, StatusIsStored
=============================================================================
