----------------------- MODULE SearchHeadCluster_proofs -----------------------
(***************************************************************************)
(* The pod manager of search head clusters is one that StatefulSetPods     *)
(* allows, so what StatefulSetPods_proofs proves for every pod manager     *)
(* holds of search head clusters, whatever their members, captain and      *)
(* deployer do.  The second half is about the members: MembersInv says     *)
(* what a reconcile may rely on that has read their status, and from it    *)
(* follow the two properties of draining and of releasing.                 *)
(***************************************************************************)
EXTENDS SearchHeadCluster, StatefulSetPods_proofs

\* PrepareScaleDown and PrepareRecycle answer with one of the three verdicts.
LEMMA VerdictAllowed ==
  ASSUME NEW n
  PROVE  RecycleVerdict(n) \in Verdicts
BY ManagerAssumption DEF RecycleVerdict

\* Every step of the operator on a search head cluster is a step of StatefulSetPods:
\* one of its reconcile, or none when only the members are asked.
LEMMA ReconcileStep == ShcReconcile => Reconcile \/ UNCHANGED vars
<1> SUFFICES ASSUME ShcReconcile
             PROVE  Reconcile \/ UNCHANGED vars
  OBVIOUS
<1>1. CASE StartReconcile
  BY <1>1 DEF Reconcile
<1>2. CASE ApplyStatefulSet
  BY <1>2 DEF ApplyStatefulSet, Reconcile
<1>3. CASE UpdateStatus
  BY <1>3 DEF UpdateStatus
<1>4. CASE ClusterNotReady
  BY <1>4, ManagerAssumption DEF ClusterNotReady, ManagerStops, Reconcile
<1>5. CASE PrepareScaleDown
  <2>1. PICK v \in Verdicts : ScaleDown(v)
    BY <1>5, VerdictAllowed, ManagerAssumption DEF PrepareScaleDown
  <2> QED
    BY <2>1 DEF Reconcile
<1>6. CASE PrepareRecycle
  <2>1. PICK v \in Verdicts : RecyclePod(v)
    BY <1>6, VerdictAllowed DEF PrepareRecycle
  <2> QED
    BY <2>1 DEF Reconcile
<1>7. CASE FinishRecycle
  <2>1. PICK v \in Verdicts : FinishPod(v)
    BY <1>7, ManagerAssumption DEF FinishRecycle
  <2> QED
    BY <2>1 DEF Reconcile
<1>8. CASE OtherSteps
  BY <1>8 DEF OtherSteps, Reconcile
<1> QED
  BY <1>1, <1>2, <1>3, <1>4, <1>5, <1>6, <1>7, <1>8 DEF ShcReconcile

\* An error of the deployer, and a removal that is in vain, are API errors or crashes.
LEMMA FailureStep == DeployerFails \/ RemovedInVain => Failure
<1>1. DeployerFails => ApiError
  BY DEF DeployerFails, ApiError
<1>2. RemovedInVain => ApiError \/ Crash
  BY DEF RemovedInVain
<1> QED
  BY <1>1, <1>2 DEF Failure

\* Of the steps of the search heads, StatefulSetPods sees only the start of a pod.
LEMMA SearchHeadsStep == SearchHeads => Kubernetes \/ UNCHANGED vars
<1> SUFFICES ASSUME SearchHeads
             PROVE  Kubernetes \/ UNCHANGED vars
  OBVIOUS
<1>1. CASE \E i \in Ordinals : SearchHeadStarted(i)
  BY <1>1 DEF SearchHeadStarted, Kubernetes
<1>2. CASE \E i \in Ordinals : MemberJoins(i) \/ SearchEnds(i)
  BY <1>2 DEF MemberJoins, SearchEnds
<1>3. CASE CaptainLost \/ CaptainElected
  BY <1>3 DEF CaptainLost, CaptainElected
<1> QED
  BY <1>1, <1>2, <1>3 DEF SearchHeads

\* Update of searchheadcluster.go drives UpdateStatefulSetPods with the answers of
\* PrepareScaleDown, PrepareRecycle and FinishRecycle: whatever these read from the
\* members and whatever fails, a behaviour of a search head cluster is one of
\* StatefulSetPods.
THEOREM SearchHeadClusterImplementsPods == ShcSpec => ImplementsPods
<1>1. ShcInit => Init
  BY DEF ShcInit
<1>2. [ShcNext]_shcVars => [Next]_vars
  <2>1. ASSUME ShcReconcile PROVE [Next]_vars
    BY <2>1, ReconcileStep DEF Next
  <2>2. ASSUME DeployerFails \/ RemovedInVain PROVE [Next]_vars
    BY <2>2, FailureStep DEF Next
  <2>3. ASSUME Surroundings PROVE [Next]_vars
    BY <2>3 DEF Surroundings, Next, Kubernetes, Failure
  <2>4. ASSUME SearchHeads PROVE [Next]_vars
    BY <2>4, SearchHeadsStep DEF Next
  <2>5. UNCHANGED shcVars => [Next]_vars
    BY DEF shcVars
  <2> QED
    BY <2>1, <2>2, <2>3, <2>4, <2>5 DEF ShcNext
<1> QED
  BY <1>1, <1>2, PTL DEF ShcSpec, ImplementsPods, Spec

\* A search head cluster deletes only claims of pods that its StatefulSet gave up, also
\* when a member is removed and the Update of replicas is refused.
THEOREM SearchHeadClaimsCorrect == ShcSpec => ClaimsOfWantedPodsKept
BY SearchHeadClusterImplementsPods, ClaimsCorrect, PTL DEF ImplementsPods

\* When the loop over the search heads has passed the last one, all run the template.
THEOREM SearchHeadRolledOutCorrect == ShcSpec => []RolledOut
BY SearchHeadClusterImplementsPods, RolledOutCorrect, PTL DEF ImplementsPods

-----------------------------------------------------------------------------
(***************************************************************************)
(* The members                                                             *)
(***************************************************************************)

\* A member that is in the cluster says whether it is detained.
MemberInv ==
  \A i \in Ordinals :
    /\ member[i] = "ManualDetention" => detained[i]
    /\ member[i] = "Up" => ~ detained[i]
    /\ member[i] \in {"Up", "ManualDetention"} => i \in joined

\* What a reconcile may rely on that has read the members and has not acted on any: the
\* detention of a member that had drained is still in force, also when its pod fails or
\* comes back, and nobody but the operator detains a member.
DrainInv ==
  known /\ pc \in {"scale", "check"}
  => \A i \in Ordinals :
       /\ list[i].status = "ManualDetention" /\ ~ list[i].searches
          => ~ busy[i] /\ i \in joined /\ detained[i] /\ member[i] # "Up"
       /\ list[i].status = "Up" => ~ detained[i]

\* The loop over the pods is about pods of the StatefulSet, and there are none before it.
OrdInv ==
  /\ pc = "check" => ord < sts.replicas
  /\ ~ sts.exists => sts.replicas = 0

\* Every member the loop has passed was released, and its pod runs the revision the loop
\* works for, or was created since from the template, or is missing.
BackInv ==
  pc = "check" /\ view.updateRev # NoRevision
  => \A j \in Ordinals :
       ord < j /\ j < sts.replicas
       => ~ detained[j] /\ pods[j].rev \in {view.updateRev, sts.template, NoRevision}

MembersInv == MembersTypeOK /\ MemberInv /\ DrainInv /\ OrdInv /\ BackInv

\* The members are read once in a reconcile, and forgotten with it.
LEMMA RememberFacts ==
  ASSUME MembersTypeOK, Remember
  PROVE  /\ pc' = "idle" => known' = FALSE
         /\ pc' # "idle" => UNCHANGED <<list, known>>
         /\ known' \in BOOLEAN
         /\ list' \in [Ordinals -> [status : MemberStates, searches : BOOLEAN]]
<1>1. Unread \in [status : MemberStates, searches : BOOLEAN]
  BY DEF Unread, MemberStates
<1> QED
  BY <1>1 DEF Remember, MembersTypeOK, statusVars

\* SetSearchHeadDetention leaves a member that answers as detained as it was asked to.
LEMMA DetainFacts ==
  ASSUME MembersTypeOK, MemberInv, NEW n \in Ordinals, NEW mode \in BOOLEAN,
         Detain(n, mode), joined' = joined
  PROVE  /\ member' \in [Ordinals -> MemberStates]
         /\ {detained', busy'} \subseteq [Ordinals -> BOOLEAN]
         /\ MemberInv'
         /\ \A i \in Ordinals : i # n => detained'[i] = detained[i]
<1>1. CASE ~ Answers(n)
  BY <1>1 DEF Detain, MembersTypeOK, MemberInv
<1>2. CASE Answers(n)
  <2>1. /\ detained' = [detained EXCEPT ![n] = mode]
        /\ member' = [member EXCEPT ![n] = IF @ = "Joining" THEN @
                                           ELSE IF mode THEN "ManualDetention" ELSE "Up"]
        /\ \E b \in BOOLEAN : busy' = [busy EXCEPT ![n] = b]
        /\ member[n] # ""
    BY <1>2 DEF Detain, Answers
  <2>2. member[n] # "Joining" => n \in joined
    BY <2>1 DEF MembersTypeOK, MemberInv, MemberStates
  <2>3. \A i \in Ordinals : i # n => detained'[i] = detained[i] /\ member'[i] = member[i]
    BY <2>1 DEF MembersTypeOK
  <2>4. /\ detained'[n] = mode
        /\ member'[n] = IF member[n] = "Joining" THEN "Joining"
                        ELSE IF mode THEN "ManualDetention" ELSE "Up"
    BY <2>1 DEF MembersTypeOK
  <2>5. MemberInv'
    BY <2>2, <2>3, <2>4 DEF MemberInv
  <2> QED
    BY <2>1, <2>3, <2>5 DEF MembersTypeOK, MemberStates
<1> QED
  BY <1>1, <1>2

\* RemoveSearchHeadClusterMember leaves a member without status.
LEMMA RemoveFacts ==
  ASSUME MembersTypeOK, MemberInv, NEW n \in Ordinals, Remove(n)
  PROVE  /\ member' \in [Ordinals -> MemberStates] /\ joined' \subseteq Ordinals
         /\ UNCHANGED <<detained, busy, captain>>
         /\ MemberInv'
  BY DEF Remove, MembersTypeOK, MemberInv, MemberStates

\* A reconcile that ends, or that goes on to the claims, relies on the members no more.
LEMMA EndMembers ==
  ASSUME pc' \in {"idle", "claims"}, ~ sts'.exists => sts'.replicas = 0
  PROVE  DrainInv' /\ OrdInv' /\ BackInv'
  BY DEF DrainInv, OrdInv, BackInv

\* What the members and their pods do of themselves.
LEMMA MembersAlone ==
  ASSUME DrainInv, OrdInv, BackInv, MembersTypeOK,
         UNCHANGED <<opVars, statusVars, sts.exists, sts.replicas, sts.template>>,
         \A i \in Ordinals :
           /\ pods'[i].rev \in {pods[i].rev, sts.template, NoRevision}
           /\ detained'[i] => detained[i]
           /\ i \in joined => detained'[i] = detained[i] /\ i \in joined'
           /\ busy'[i] => busy[i]
           /\ member'[i] = "Up" => member[i] = "Up" \/ ~ detained[i]
  PROVE  DrainInv' /\ OrdInv' /\ BackInv'
<1>1. /\ pc' = pc /\ ord' = ord /\ view' = view /\ list' = list /\ known' = known
      /\ sts'.exists = sts.exists /\ sts'.replicas = sts.replicas /\ sts'.template = sts.template
  BY DEF opVars, statusVars
<1>2. DrainInv'
  BY <1>1 DEF DrainInv, MembersTypeOK
<1>3. OrdInv'
  BY <1>1 DEF OrdInv
<1>4. BackInv'
  BY <1>1 DEF BackInv
<1> QED
  BY <1>2, <1>3, <1>4

\* The pod manager's answer for a member is "ready" only when it has drained.
LEMMA DrainedFacts ==
  ASSUME MembersTypeOK, DrainInv, known, pc \in {"scale", "check"}, NEW n \in Ordinals
  PROVE  /\ RecycleVerdict(n) = "ready"
            => ~ busy[n] /\ n \in joined /\ detained[n] /\ member[n] # "Up"
         /\ list[n].status = "Up" => ~ detained[n] /\ RecycleVerdict(n) # "ready"
  BY DEF RecycleVerdict, DrainInv, MembersTypeOK, MemberStates

LEMMA ScaleDownMembers ==
  ASSUME PodsInv, MembersInv, PrepareScaleDown
  PROVE  MembersInv'
<1> DEFINE n == view.ready - 1
<1>1. /\ known /\ pc = "scale" /\ n \in Ordinals /\ sts.exists
      /\ \E v : ScaleDown(v)
      /\ Remember
  <2>1. known /\ pc = "scale" /\ view.ready > req.replicas /\ Remember /\ \E v : ScaleDown(v)
    BY DEF PrepareScaleDown, ScaleDown
  <2>2. view.ready \in 0 .. MaxReplicas /\ req.replicas \in 1 .. MaxReplicas /\ sts.exists
    BY <2>1 DEF PodsInv, TypeOK, StatefulSets, ViewInv
  <2> QED
    BY <2>1, <2>2, ReplicasAssumption DEF Ordinals
<1>2. pc' \in {"idle", "claims"} /\ sts'.exists
  <2>1. sts' = sts \/ sts' = [sts EXCEPT !.replicas = n]
    BY <1>1 DEF ScaleDown, Retire
  <2>2. sts'.exists = sts.exists
    BY <2>1 DEF PodsInv, TypeOK, StatefulSets
  <2> QED
    BY <1>1, <2>2 DEF ScaleDown, Finish, End, GoTo
<1>3. /\ member' \in [Ordinals -> MemberStates]
      /\ {detained', busy'} \subseteq [Ordinals -> BOOLEAN]
      /\ joined' \subseteq Ordinals /\ captain' \in BOOLEAN
      /\ MemberInv'
  <2>1. CASE Detain(n, TRUE) /\ UNCHANGED <<joined, captain>>
    BY <1>1, <2>1, DetainFacts DEF MembersInv, MembersTypeOK
  <2>2. CASE KeepMembers \/ UNCHANGED memberVars
    BY <2>2 DEF KeepMembers, memberVars, MembersInv, MembersTypeOK, MemberInv
  <2>3. CASE Remove(n)
    BY <1>1, <2>3, RemoveFacts DEF MembersInv, MembersTypeOK
  <2>4. \/ Detain(n, TRUE) /\ UNCHANGED <<joined, captain>>
        \/ KeepMembers \/ UNCHANGED memberVars \/ Remove(n)
    BY DEF PrepareScaleDown, memberVars
  <2> QED
    BY <2>1, <2>2, <2>3, <2>4
<1>4. MembersTypeOK'
  BY <1>1, <1>2, <1>3, RememberFacts DEF MembersInv, MembersTypeOK
<1> QED
  BY <1>2, <1>3, <1>4, EndMembers DEF MembersInv

LEMMA RecycleMembers ==
  ASSUME PodsInv, MembersInv, PrepareRecycle
  PROVE  MembersInv'
<1>1. /\ known /\ pc = "check" /\ pc' = "idle" /\ sts' = sts /\ ord \in Ordinals
      /\ Remember /\ UNCHANGED <<joined, captain>>
      /\ Detain(ord, TRUE) \/ UNCHANGED <<detained, member, busy>>
  BY DEF PrepareRecycle, RecyclePod, Finish, End, PodsInv, TypeOK
<1>2. /\ member' \in [Ordinals -> MemberStates]
      /\ {detained', busy'} \subseteq [Ordinals -> BOOLEAN]
      /\ MemberInv'
  <2>1. CASE Detain(ord, TRUE)
    BY <1>1, <2>1, DetainFacts DEF MembersInv
  <2>2. CASE UNCHANGED <<detained, member, busy>>
    BY <1>1, <2>2 DEF MembersInv, MembersTypeOK, MemberInv
  <2> QED
    BY <1>1, <2>1, <2>2
<1>3. MembersTypeOK'
  BY <1>1, <1>2, RememberFacts DEF MembersInv, MembersTypeOK
<1> QED
  BY <1>1, <1>2, <1>3, EndMembers DEF MembersInv, OrdInv

\* FinishRecycle releases a member and waits; the loop goes on only past one that is Up.
LEMMA FinishMembers ==
  ASSUME PodsInv, MembersInv, FinishRecycle
  PROVE  MembersInv'
<1>1. /\ known /\ pc = "check" /\ sts' = sts /\ pods' = pods /\ ord \in Ordinals
      /\ Remember /\ UNCHANGED <<joined, captain>>
      /\ ~ Outdated(ord)
  BY DEF FinishRecycle, FinishPod, PodsInv, TypeOK, kubeVars
<1>2. \/ pc' = "idle"
      \/ /\ list[ord].status = "Up" /\ UNCHANGED <<detained, member, busy>>
         /\ pc' \in {"check", "prune"} /\ view' = view
         /\ pc' = "check" => ord # 0 /\ ord' = ord - 1
  BY <1>1 DEF FinishRecycle, FinishPod, Finish, End, GoTo
<1>3. Detain(ord, FALSE) \/ UNCHANGED <<detained, member, busy>>
  BY DEF FinishRecycle
<1>4. /\ member' \in [Ordinals -> MemberStates]
      /\ {detained', busy'} \subseteq [Ordinals -> BOOLEAN]
      /\ MemberInv'
  <2>1. CASE Detain(ord, FALSE)
    BY <1>1, <2>1, DetainFacts DEF MembersInv
  <2>2. CASE UNCHANGED <<detained, member, busy>>
    BY <1>1, <2>2 DEF MembersInv, MembersTypeOK, MemberInv
  <2> QED
    BY <1>3, <2>1, <2>2
<1>5. MembersTypeOK'
  BY <1>1, <1>2, <1>4, RememberFacts DEF MembersInv, MembersTypeOK
<1>6. CASE pc' = "idle"
  BY <1>1, <1>4, <1>5, <1>6, EndMembers DEF MembersInv, OrdInv
<1>7. CASE pc' # "idle"
  <2>1. /\ list[ord].status = "Up" /\ UNCHANGED <<detained, member, busy>>
        /\ pc' \in {"check", "prune"} /\ view' = view
        /\ pc' = "check" => ord' = ord - 1
        /\ UNCHANGED <<list, known>>
    BY <1>1, <1>2, <1>7, RememberFacts DEF MembersInv
  <2>2. DrainInv'
    BY <1>1, <2>1 DEF MembersInv, DrainInv
  <2>3. ord \in Int /\ Ordinals \subseteq Int /\ sts.replicas \in Int
    BY <1>1, ReplicasAssumption DEF Ordinals, PodsInv, TypeOK, StatefulSets
  <2>4. OrdInv'
    BY <1>1, <2>1, <2>3 DEF MembersInv, OrdInv
  <2>5. BackInv'
    <3> SUFFICES ASSUME pc' = "check", view.updateRev # NoRevision,
                        NEW j \in Ordinals, ord - 1 < j, j < sts.replicas
                 PROVE  ~ detained[j] /\ pods[j].rev \in {view.updateRev, sts.template, NoRevision}
      BY <1>1, <2>1 DEF BackInv
    <3>1. CASE j = ord
      BY <1>1, <2>1, <3>1 DEF Outdated, MembersInv, DrainInv
    <3>2. CASE ord < j
      BY <1>1, <3>2 DEF MembersInv, BackInv
    <3> QED
      BY <2>3, <3>1, <3>2
  <2> QED
    BY <1>4, <1>5, <2>2, <2>4, <2>5 DEF MembersInv
<1> QED
  BY <1>6, <1>7

\* The steps that do not touch the members.
LEMMA OtherMembers ==
  ASSUME PodsInv, PodsInv', MembersInv, OtherSteps
  PROVE  MembersInv'
<1>1. known /\ KeepMembers /\ Remember
  BY DEF OtherSteps
<1>2. MembersTypeOK'
  <2>1. pc' # "apply"
    BY DEF OtherSteps, WaitForReplicas, ScaleUp, NoScaling, WaitForPod, RemoveUnwantedSecrets,
           DeleteClaim, ClaimNotFound, ClaimsDeleted, Finish, End, GoTo
  <2> QED
    BY <1>1, <2>1, RememberFacts DEF MembersInv, MembersTypeOK, KeepMembers, memberVars
<1>3. MemberInv'
  BY <1>1 DEF MembersInv, MemberInv, KeepMembers, memberVars
<1>4. CASE NoScaling
  <2>1. /\ pc = "scale" /\ pc' = "check" /\ view' = view /\ sts' = sts
        /\ ord' = view.ready - 1
        /\ UNCHANGED <<list, known>>
    BY <1>1, <1>4, RememberFacts DEF NoScaling, GoTo, kubeVars, MembersInv
  <2>2. sts.exists /\ view.ready = sts.replicas
    BY <1>4, <2>1 DEF NoScaling, PodsInv, ViewInv
  <2>3. DrainInv'
    BY <1>1, <2>1 DEF MembersInv, DrainInv, KeepMembers, memberVars
  <2>4. sts.replicas \in Int /\ Ordinals \subseteq Int
    BY ReplicasAssumption DEF Ordinals, PodsInv, TypeOK, StatefulSets
  <2>5. OrdInv' /\ BackInv'
    BY <2>1, <2>2, <2>4 DEF OrdInv, BackInv
  <2> QED
    BY <1>2, <1>3, <2>3, <2>5 DEF MembersInv
<1>5. CASE ScaleUp
  <2>1. pc' = "idle" /\ sts.exists
    BY <1>5 DEF ScaleUp, Finish, End, PodsInv, ViewInv
  <2>2. sts'.exists
    BY <1>5, <2>1 DEF ScaleUp, PodsInv, TypeOK, StatefulSets
  <2> QED
    BY <1>2, <1>3, <2>1, <2>2, EndMembers DEF MembersInv
<1>6. CASE ~ NoScaling /\ ~ ScaleUp
  <2>1. pc' \in {"idle", "claims"} /\ sts' = sts
    BY <1>6 DEF OtherSteps, WaitForReplicas, WaitForPod, RemoveUnwantedSecrets,
           DeleteClaim, ClaimNotFound, ClaimsDeleted, Finish, End, GoTo, kubeVars
  <2> QED
    BY <1>2, <1>3, <2>1, EndMembers DEF MembersInv, OrdInv
<1> QED
  BY <1>4, <1>5, <1>6

\* Up to ApplyStatefulSet no member was read.
LEMMA EarlyMembers ==
  ASSUME PodsInv, PodsInv', MembersInv,
         (StartReconcile /\ KeepMembers /\ Remember) \/ ApplyStatefulSet \/ DeployerFails
  PROVE  MembersInv'
<1>1. pc \in {"idle", "apply"} /\ KeepMembers /\ Remember
  BY DEF StartReconcile, Build, ApplyStatefulSet, DeployerFails, CreateStatefulSet,
         UpdateTemplate, KeepTemplate
<1>2. pc' \in {"idle", "apply", "scale"}
  BY DEF StartReconcile, Build, ApplyStatefulSet, DeployerFails, CreateStatefulSet,
         UpdateTemplate, KeepTemplate, Finish, End, GoTo
<1>3. ~ known /\ known' = FALSE
  BY <1>1, RememberFacts DEF MembersInv, MembersTypeOK
<1>4. MembersTypeOK'
  BY <1>1, <1>3, RememberFacts DEF MembersInv, MembersTypeOK, KeepMembers, memberVars
<1>5. MemberInv'
  BY <1>1 DEF MembersInv, MemberInv, KeepMembers, memberVars
<1>6. ~ sts'.exists => sts'.replicas = 0
  <2>1. CASE CreateStatefulSet
    BY <2>1 DEF CreateStatefulSet, NoStatefulSet
  <2>2. CASE UpdateTemplate
    BY <2>2 DEF UpdateTemplate, PodsInv, TypeOK, StatefulSets
  <2>3. CASE ~ CreateStatefulSet /\ ~ UpdateTemplate
    <3>1. sts' = sts
      BY <2>3 DEF StartReconcile, Build, ApplyStatefulSet, DeployerFails, KeepTemplate, kubeVars
    <3> QED
      BY <3>1 DEF MembersInv, OrdInv
  <2> QED
    BY <2>1, <2>2, <2>3
<1> QED
  BY <1>2, <1>3, <1>4, <1>5, <1>6 DEF MembersInv, DrainInv, OrdInv, BackInv

\* updateStatus reads what the members say at that moment.
LEMMA StatusMembers ==
  ASSUME PodsInv, MembersInv, UpdateStatus
  PROVE  MembersInv'
<1>1. /\ pc = "scale" /\ pc' = "scale" /\ sts' = sts /\ UNCHANGED memberVars
      /\ list' = [i \in Ordinals |-> [status |-> member[i], searches |-> busy[i]]]
      /\ known' = TRUE
  BY DEF UpdateStatus, vars, opVars, kubeVars
<1>2. MembersTypeOK' /\ MemberInv'
  BY <1>1 DEF MembersInv, MembersTypeOK, MemberInv, memberVars
<1>3. DrainInv'
  BY <1>1 DEF MembersInv, MembersTypeOK, MemberInv, DrainInv, memberVars
<1> QED
  BY <1>1, <1>2, <1>3 DEF MembersInv, OrdInv, BackInv

LEMMA RemovedMembers ==
  ASSUME PodsInv, MembersInv, RemovedInVain
  PROVE  MembersInv'
<1> DEFINE n == view.ready - 1
<1>1. pc' = "idle" /\ sts' = sts /\ Remember /\ Remove(n)
  BY DEF RemovedInVain, ApiError, Crash, Finish, End, kubeVars
<1>2. n \in Ordinals
  <2>1. view.ready > req.replicas
    BY DEF RemovedInVain
  <2>2. view.ready \in 0 .. MaxReplicas /\ req.replicas \in 1 .. MaxReplicas
    BY DEF PodsInv, TypeOK, StatefulSets
  <2> QED
    BY <2>1, <2>2, ReplicasAssumption DEF Ordinals
<1>3. /\ member' \in [Ordinals -> MemberStates] /\ joined' \subseteq Ordinals
      /\ UNCHANGED <<detained, busy, captain>>
      /\ MemberInv'
  BY <1>1, <1>2, RemoveFacts DEF MembersInv
<1>4. MembersTypeOK'
  BY <1>1, <1>3, RememberFacts DEF MembersInv, MembersTypeOK
<1> QED
  BY <1>1, <1>3, <1>4, EndMembers DEF MembersInv, OrdInv

\* splunkd ends with its container, and the operator may stop.
LEMMA SurroundingMembers ==
  ASSUME PodsInv, MembersInv, Surroundings
  PROVE  MembersInv'
<1>1. SearchHeadStops /\ Remember
  BY DEF Surroundings
<1>2. /\ member' \in [Ordinals -> MemberStates] /\ busy' \in [Ordinals -> BOOLEAN]
      /\ UNCHANGED <<detained, joined, captain>>
      /\ \A i \in Ordinals : /\ busy'[i] => busy[i]
                             /\ member'[i] \in {member[i], ""}
  BY <1>1 DEF SearchHeadStops, MembersInv, MembersTypeOK, MemberStates
<1>3. MemberInv'
  BY <1>2 DEF MembersInv, MemberInv
<1>4. CASE ApiError \/ PruneError \/ PublishError \/ Crash
  <2>1. pc' = "idle" /\ sts' = sts
    BY <1>4 DEF ApiError, PruneError, PublishError, Crash, Finish, End, kubeVars
  <2>2. MembersTypeOK'
    BY <1>1, <1>2, <2>1, RememberFacts DEF MembersInv, MembersTypeOK
  <2> QED
    BY <1>3, <2>1, <2>2, EndMembers DEF MembersInv, OrdInv
<1>5. CASE \/ SyncStatefulSet \/ EditResource
           \/ \E i \in Ordinals : PodStopped(i) \/ PodGone(i) \/ PodFails(i) \/ PodEvicted(i)
  <2>1. UNCHANGED opVars
    BY <1>5 DEF SyncStatefulSet, EditResource, PodStopped, PodGone, PodFails, PodEvicted, SetPod
  <2>2. /\ UNCHANGED <<sts.exists, sts.replicas, sts.template>>
        /\ \A i \in Ordinals : pods'[i].rev \in {pods[i].rev, sts.template, NoRevision}
    <3>1. CASE SyncStatefulSet
      <4>1. UNCHANGED <<sts.exists, sts.replicas, sts.template>>
        BY <3>1 DEF SyncStatefulSet, PodsInv, TypeOK, StatefulSets
      <4>2. \A i \in Ordinals :
              pods'[i] = IF i \in MissingPods
                         THEN [state |-> "unready", deleting |-> FALSE, rev |-> sts.template]
                         ELSE [pods[i] EXCEPT !.deleting = @ \/ i \in SurplusPods]
        BY <3>1 DEF SyncStatefulSet
      <4>3. \A i \in Ordinals : pods'[i].rev \in {pods[i].rev, sts.template}
        <5> SUFFICES ASSUME NEW i \in Ordinals
                     PROVE  pods'[i].rev \in {pods[i].rev, sts.template}
          OBVIOUS
        <5>1. pods[i] \in Pods
          BY DEF PodsInv, TypeOK
        <5>2. CASE i \in MissingPods
          <6>1. pods'[i] = [state |-> "unready", deleting |-> FALSE, rev |-> sts.template]
            BY <4>2, <5>2
          <6> QED
            BY <6>1
        <5>3. CASE i \notin MissingPods
          <6>1. pods'[i] = [pods[i] EXCEPT !.deleting = @ \/ i \in SurplusPods]
            BY <4>2, <5>3
          <6> QED
            BY <5>1, <6>1 DEF Pods
        <5> QED
          BY <5>2, <5>3
      <4> QED
        BY <4>1, <4>3
    <3>2. CASE EditResource
      BY <3>2 DEF EditResource, kubeVars
    <3>3. ASSUME NEW i \in Ordinals,
                 PodStopped(i) \/ PodGone(i) \/ PodFails(i) \/ PodEvicted(i)
          PROVE  /\ UNCHANGED sts
                 /\ \A j \in Ordinals : pods'[j].rev \in {pods[j].rev, NoRevision}
      <4>1. PICK p : SetPod(i, p) /\ p.rev \in {pods[i].rev, NoRevision}
        BY <3>3 DEF PodStopped, PodGone, PodFails, PodEvicted, NoPod, PodsInv, TypeOK, Pods
      <4> QED
        BY <4>1 DEF SetPod, PodsInv, TypeOK
    <3> QED
      BY <1>5, <3>1, <3>2, <3>3
  <2>3. pc' = pc
    BY <2>1 DEF opVars
  <2>4. MembersTypeOK'
    <3>1. /\ pc = "idle" => known' = FALSE
          /\ pc # "idle" => UNCHANGED <<list, known>>
          /\ known' \in BOOLEAN
          /\ list' \in [Ordinals -> [status : MemberStates, searches : BOOLEAN]]
      BY <1>1, <2>3, RememberFacts DEF MembersInv
    <3>2. pc \in {"idle", "apply"} => ~ known'
      BY <3>1 DEF MembersInv, MembersTypeOK
    <3> QED
      BY <1>2, <2>3, <3>1, <3>2 DEF MembersInv, MembersTypeOK
  <2>5. CASE pc = "idle"
    BY <1>3, <2>2, <2>3, <2>4, <2>5, EndMembers DEF MembersInv, OrdInv
  <2>6. CASE pc # "idle"
    <3>1. UNCHANGED statusVars
      BY <1>1, <2>3, <2>6 DEF Remember
    <3>2. DrainInv' /\ OrdInv' /\ BackInv'
      BY <1>2, <2>1, <2>2, <3>1, MembersAlone DEF MembersInv
    <3> QED
      BY <1>3, <2>4, <3>2 DEF MembersInv
  <2> QED
    BY <2>5, <2>6
<1> QED
  BY <1>4, <1>5 DEF Surroundings

LEMMA StartedMembers ==
  ASSUME PodsInv, MembersInv, NEW i \in Ordinals, SearchHeadStarted(i)
  PROVE  MembersInv'
<1>1. /\ PodStarted(i)
      /\ member' = [member EXCEPT ![i] = "Joining"]
      /\ \E d \in {detained[i]} \union (IF i \in joined THEN {} ELSE {FALSE}) :
           detained' = [detained EXCEPT ![i] = d]
      /\ UNCHANGED <<busy, joined, captain>> /\ UNCHANGED statusVars
  BY DEF SearchHeadStarted
<1>2. /\ detained' \in [Ordinals -> BOOLEAN]
      /\ \A j \in Ordinals : /\ detained'[j] => detained[j]
                             /\ j \in joined \/ j # i => detained'[j] = detained[j]
  BY <1>1 DEF MembersInv, MembersTypeOK
<1>3. /\ member' \in [Ordinals -> MemberStates]
      /\ \A j \in Ordinals : /\ j # i => member'[j] = member[j]
                             /\ member'[i] = "Joining"
  BY <1>1 DEF MembersInv, MembersTypeOK, MemberStates
<1>4. /\ UNCHANGED opVars /\ UNCHANGED sts
      /\ \A j \in Ordinals : pods'[j].rev = pods[j].rev
  BY <1>1 DEF PodStarted, SetPod, PodsInv, TypeOK, Pods
<1>5. MembersTypeOK' /\ MemberInv'
  BY <1>1, <1>2, <1>3, <1>4 DEF MembersInv, MembersTypeOK, MemberInv, opVars, statusVars
<1>6. DrainInv' /\ OrdInv' /\ BackInv'
  BY <1>1, <1>2, <1>3, <1>4, MembersAlone DEF MembersInv
<1> QED
  BY <1>5, <1>6 DEF MembersInv

LEMMA SearchHeadMembers ==
  ASSUME PodsInv, MembersInv, SearchHeads
  PROVE  MembersInv'
<1>1. ASSUME NEW i \in Ordinals, MemberJoins(i) PROVE MembersInv'
  <2>1. /\ member' = [member EXCEPT ![i] = IF detained[i] THEN "ManualDetention" ELSE "Up"]
        /\ joined' = joined \union {i}
        /\ UNCHANGED <<vars, detained, busy, captain, statusVars>>
    BY <1>1 DEF MemberJoins
  <2>2. /\ member' \in [Ordinals -> MemberStates]
        /\ \A j \in Ordinals : j # i => member'[j] = member[j]
        /\ member'[i] = IF detained[i] THEN "ManualDetention" ELSE "Up"
    BY <2>1 DEF MembersInv, MembersTypeOK, MemberStates
  <2>3. MembersTypeOK' /\ MemberInv'
    BY <2>1, <2>2 DEF MembersInv, MembersTypeOK, MemberInv, statusVars, vars, opVars
  <2>4. DrainInv' /\ OrdInv' /\ BackInv'
    BY <2>1, <2>2, MembersAlone DEF MembersInv, vars, kubeVars
  <2> QED
    BY <2>3, <2>4 DEF MembersInv
<1>2. ASSUME NEW i \in Ordinals, SearchEnds(i) PROVE MembersInv'
  <2>1. /\ busy' = [busy EXCEPT ![i] = FALSE]
        /\ UNCHANGED <<vars, member, detained, joined, captain, statusVars>>
    BY <1>2 DEF SearchEnds
  <2>2. busy' \in [Ordinals -> BOOLEAN] /\ \A j \in Ordinals : busy'[j] => busy[j]
    BY <2>1 DEF MembersInv, MembersTypeOK
  <2>3. MembersTypeOK' /\ MemberInv'
    BY <2>1, <2>2 DEF MembersInv, MembersTypeOK, MemberInv, statusVars, vars, opVars
  <2>4. DrainInv' /\ OrdInv' /\ BackInv'
    BY <2>1, <2>2, MembersAlone DEF MembersInv, vars, kubeVars
  <2> QED
    BY <2>3, <2>4 DEF MembersInv
<1>3. CASE CaptainLost \/ CaptainElected
  <2>1. UNCHANGED <<vars, member, detained, busy, joined, statusVars>> /\ captain' \in BOOLEAN
    BY <1>3 DEF CaptainLost, CaptainElected
  <2>2. MembersTypeOK' /\ MemberInv'
    BY <2>1 DEF MembersInv, MembersTypeOK, MemberInv, statusVars, vars, opVars
  <2>3. DrainInv' /\ OrdInv' /\ BackInv'
    BY <2>1, MembersAlone DEF MembersInv, vars, kubeVars
  <2> QED
    BY <2>2, <2>3 DEF MembersInv
<1> QED
  BY <1>1, <1>2, <1>3, StartedMembers DEF SearchHeads

LEMMA NextMembers ==
  ASSUME PodsInv, PodsInv', MembersInv, [ShcNext]_shcVars
  PROVE  MembersInv'
<1>1. CASE ShcReconcile
  <2>1. CASE ClusterNotReady
    <3>1. pc' = "idle" /\ sts' = sts /\ KeepMembers /\ Remember
      BY <2>1 DEF ClusterNotReady, Finish, End, kubeVars
    <3>2. MembersTypeOK' /\ MemberInv'
      BY <3>1, RememberFacts DEF MembersInv, MembersTypeOK, MemberInv, KeepMembers, memberVars
    <3> QED
      BY <3>1, <3>2, EndMembers DEF MembersInv, OrdInv
  <2> QED
    BY <1>1, <2>1, EarlyMembers, StatusMembers, ScaleDownMembers, RecycleMembers,
       FinishMembers, OtherMembers
    DEF ShcReconcile
<1>2. CASE DeployerFails \/ RemovedInVain \/ Surroundings \/ SearchHeads
  BY <1>2, EarlyMembers, RemovedMembers, SurroundingMembers, SearchHeadMembers
<1>3. CASE UNCHANGED shcVars
  <2>1. UNCHANGED vars /\ UNCHANGED memberVars /\ UNCHANGED statusVars
    BY <1>3 DEF shcVars
  <2>2. MembersTypeOK' /\ MemberInv'
    BY <2>1 DEF MembersInv, MembersTypeOK, MemberInv, memberVars, statusVars, vars, opVars
  <2>3. DrainInv' /\ OrdInv' /\ BackInv'
    BY <2>1, MembersAlone DEF MembersInv, vars, kubeVars, memberVars
  <2> QED
    BY <2>2, <2>3 DEF MembersInv
<1> QED
  BY <1>1, <1>2, <1>3 DEF ShcNext

\* The inductive invariant of the members, on top of that of the pods.
THEOREM MembersInvariant == ShcSpec => []MembersInv
<1>1. ShcInit => MembersInv
  <2> SUFFICES ASSUME ShcInit PROVE MembersInv
    OBVIOUS
  <2>1. /\ pc = "idle" /\ ~ known /\ sts.replicas = 0
        /\ \A i \in Ordinals : member[i] = ""
    BY DEF ShcInit, Init, NoStatefulSet
  <2>2. MembersTypeOK
    BY <2>1 DEF ShcInit, MembersTypeOK, MemberStates, Unread
  <2> QED
    BY <2>1, <2>2 DEF MembersInv, MemberInv, DrainInv, OrdInv, BackInv
<1>2. ASSUME PodsInv, PodsInv', MembersInv, [ShcNext]_shcVars PROVE MembersInv'
  BY <1>2, NextMembers
<1>3. ShcSpec => []PodsInv
  BY SearchHeadClusterImplementsPods, PodsInvariant, PTL DEF ImplementsPods
<1> QED
  BY <1>1, <1>2, <1>3, PTL DEF ShcSpec

\* A reconcile knows the members only from the status it read itself, and the statuses
\* are those the operator and splunkd give.
THEOREM MembersTypeCorrect == ShcSpec => []MembersTypeOK
<1>1. MembersInv => MembersTypeOK
  BY DEF MembersInv
<1> QED
  BY <1>1, MembersInvariant, PTL

\* No step but the three of the pod manager deletes a pod in the loop over the pods or
\* takes one from the StatefulSet.
LEMMA StepsThatStop ==
  ASSUME PodsInv, MembersInv, [ShcNext]_shcVars, ~ PrepareScaleDown, ~ PrepareRecycle
  PROVE  /\ sts'.replicas >= sts.replicas
         /\ pc = "check" /\ pc' = "idle" => UNCHANGED pods
<1> USE DEF kubeVars
<1>1. sts.replicas \in Int /\ sts \in StatefulSets /\ req.replicas \in Int
  BY DEF PodsInv, TypeOK, StatefulSets
<1>2. CASE ShcReconcile
  <2>1. CASE StartReconcile \/ UpdateStatus \/ ClusterNotReady \/ FinishRecycle
    <3>1. UNCHANGED <<sts, pods>>
      BY <2>1 DEF StartReconcile, Build, UpdateStatus, vars, ClusterNotReady, FinishRecycle, FinishPod
    <3> QED
      BY <1>1, <3>1
  <2>2. CASE ApplyStatefulSet
    <3>1. pc = "apply"
      BY <2>2 DEF ApplyStatefulSet, CreateStatefulSet, UpdateTemplate, KeepTemplate
    <3>2. CASE CreateStatefulSet
      <4>1. sts.replicas = 0 /\ sts'.replicas = req.replicas
        BY <3>2 DEF CreateStatefulSet, NoStatefulSet, MembersInv, OrdInv
      <4> QED
        BY <3>1, <4>1 DEF PodsInv, TypeOK
    <3>3. CASE UpdateTemplate \/ KeepTemplate
      <4>1. sts'.replicas = sts.replicas
        BY <1>1, <3>3 DEF UpdateTemplate, KeepTemplate, StatefulSets
      <4> QED
        BY <1>1, <3>1, <4>1
    <3> QED
      BY <2>2, <3>2, <3>3 DEF ApplyStatefulSet
  <2>3. CASE OtherSteps
    <3>1. CASE ScaleUp
      <4>1. pc = "scale" /\ sts.replicas < req.replicas
        BY <3>1 DEF ScaleUp, PodsInv, ViewInv
      <4>2. sts'.replicas \in {sts.replicas, req.replicas}
        BY <1>1, <3>1 DEF ScaleUp, StatefulSets
      <4> QED
        BY <1>1, <4>1, <4>2
    <3>2. CASE ~ ScaleUp
      <4>1. UNCHANGED <<sts, pods>>
        BY <2>3, <3>2 DEF OtherSteps, WaitForReplicas, NoScaling, WaitForPod,
               RemoveUnwantedSecrets, DeleteClaim, ClaimNotFound, ClaimsDeleted
      <4> QED
        BY <1>1, <4>1
    <3> QED
      BY <3>1, <3>2
  <2> QED
    BY <1>2, <2>1, <2>2, <2>3 DEF ShcReconcile
<1>3. CASE DeployerFails \/ RemovedInVain \/ UNCHANGED shcVars
  <2>1. UNCHANGED <<sts, pods>>
    BY <1>3 DEF DeployerFails, RemovedInVain, ApiError, Crash, shcVars, vars
  <2> QED
    BY <1>1, <2>1
<1>4. CASE Surroundings
  <2>1. CASE ApiError \/ PruneError \/ PublishError \/ Crash
    <3>1. UNCHANGED <<sts, pods>>
      BY <2>1 DEF ApiError, PruneError, PublishError, Crash
    <3> QED
      BY <1>1, <3>1
  <2>2. CASE \/ SyncStatefulSet \/ EditResource
             \/ \E i \in Ordinals : PodStopped(i) \/ PodGone(i) \/ PodFails(i) \/ PodEvicted(i)
    <3>1. pc' = pc
      BY <2>2 DEF SyncStatefulSet, EditResource, PodStopped, PodGone, PodFails, PodEvicted,
                  SetPod, opVars
    <3>2. sts'.replicas = sts.replicas
      BY <1>1, <2>2 DEF SyncStatefulSet, EditResource, PodStopped, PodGone, PodFails, PodEvicted,
                  SetPod, StatefulSets
    <3> QED
      BY <1>1, <3>1, <3>2
  <2> QED
    BY <1>4, <2>1, <2>2 DEF Surroundings
<1>5. CASE SearchHeads
  <2>1. UNCHANGED <<sts, pc>>
    BY <1>5 DEF SearchHeads, SearchHeadStarted, MemberJoins, SearchEnds, CaptainLost,
                CaptainElected, PodStarted, SetPod, vars, opVars
  <2> QED
    BY <1>1, <2>1
<1> QED
  BY <1>2, <1>3, <1>4, <1>5 DEF ShcNext

\* PrepareScaleDown gives up only a search head that has drained and was removed.
LEMMA ScaleDownDrained ==
  ASSUME PodsInv, MembersInv, PrepareScaleDown,
         NEW i \in Ordinals, i \in sts'.replicas .. sts.replicas - 1
  PROVE  ~ busy[i] /\ member[i] # "Up" /\ i \notin joined'
<1> DEFINE n == view.ready - 1
<1>1. known /\ pc = "scale" /\ view.ready = sts.replicas /\ view.ready > req.replicas
  BY DEF PrepareScaleDown, ScaleDown, PodsInv, ViewInv
<1>2. sts \in StatefulSets /\ sts.replicas \in 0 .. MaxReplicas /\ req.replicas \in 1 .. MaxReplicas
  BY DEF PodsInv, TypeOK, StatefulSets
<1>3. n \in Ordinals
  BY <1>1, <1>2, ReplicasAssumption DEF Ordinals
<1>4. sts' # sts
  BY <1>2
<1>5. RecycleVerdict(n) = "ready" /\ Remove(n) /\ sts' = [sts EXCEPT !.replicas = n]
  BY <1>4 DEF PrepareScaleDown, ScaleDown, Retire
<1>6. i = n
  BY <1>1, <1>2, <1>5 DEF StatefulSets
<1>7. ~ busy[n] /\ member[n] # "Up"
  BY <1>1, <1>3, <1>5, DrainedFacts DEF MembersInv
<1> QED
  BY <1>5, <1>6, <1>7 DEF Remove

\* PrepareRecycle ends with the Delete of a pod only when its search head has drained.
LEMMA RecycleDrained ==
  ASSUME PodsInv, MembersInv, PrepareRecycle,
         NEW i \in Ordinals, ~ pods[i].deleting, pods'[i].deleting
  PROVE  ~ busy[i] /\ member[i] # "Up" /\ i < sts'.replicas
<1>1. known /\ pc = "check" /\ sts' = sts /\ pods' # pods
  BY DEF PrepareRecycle, RecyclePod
<1>2. RecycleVerdict(ord) = "ready" /\ pods' = [pods EXCEPT ![ord].deleting = TRUE]
  BY <1>1 DEF PrepareRecycle, RecyclePod
<1>3. i = ord
  BY <1>2 DEF PodsInv, TypeOK
<1> QED
  BY <1>1, <1>2, <1>3, DrainedFacts DEF MembersInv, OrdInv

\* "Wait until active searches have drained": what PrepareRecycle and PrepareScaleDown
\* answer from the status read before still holds at the Delete and at the Update, whatever
\* the members, their pods and the captain did since.
THEOREM SearchesDrainedCorrect == ShcSpec => SearchesDrained
<1> DEFINE Drained ==
      \A i \in Ordinals :
         /\ \/ pc = "check" /\ pc' = "idle" /\ ~ pods[i].deleting /\ pods'[i].deleting
            \/ i \in sts'.replicas .. sts.replicas - 1
         => /\ ~ busy[i] /\ member[i] # "Up"
            /\ i >= sts'.replicas => i \notin joined'
<1>1. ASSUME PodsInv, PodsInv', MembersInv, [ShcNext]_shcVars PROVE Drained
  <2>1. /\ sts.replicas \in Int /\ sts'.replicas \in Int /\ Ordinals \subseteq Int
    BY <1>1, ReplicasAssumption DEF PodsInv, TypeOK, StatefulSets, Ordinals
  <2>2. CASE PrepareScaleDown
    <3>1. pc # "check"
      BY <2>2 DEF PrepareScaleDown, ScaleDown
    <3> QED
      BY <1>1, <2>2, <3>1, ScaleDownDrained
  <2>3. CASE PrepareRecycle
    <3>1. sts' = sts
      BY <2>3 DEF PrepareRecycle, RecyclePod
    <3> QED
      BY <1>1, <2>1, <2>3, <3>1, RecycleDrained
  <2>4. CASE ~ PrepareScaleDown /\ ~ PrepareRecycle
    <3>1. /\ sts'.replicas >= sts.replicas
          /\ pc = "check" /\ pc' = "idle" => UNCHANGED pods
      BY <1>1, <2>4, StepsThatStop
    <3> QED
      BY <2>1, <3>1
  <2> QED
    BY <2>2, <2>3, <2>4
<1>2. ShcSpec => []PodsInv
  BY SearchHeadClusterImplementsPods, PodsInvariant, PTL DEF ImplementsPods
<1>3. ShcSpec => [][Drained]_shcVars
  BY <1>1, <1>2, MembersInvariant, PTL DEF ShcSpec
<1> QED
  BY <1>3 DEF SearchesDrained

\* Only PrepareRecycle detains a search head while the operator looks at the pods.
LEMMA StepsThatDetain ==
  ASSUME PodsInv, MembersInv, [ShcNext]_shcVars, pc = "check",
         NEW i \in Ordinals, ~ detained[i], detained'[i]
  PROVE  i = ord /\ Outdated(ord)
<1>1. CASE ShcReconcile
  <2>1. CASE PrepareRecycle
    <3>1. Outdated(ord) /\ ord \in Ordinals /\ joined' = joined
          /\ (Detain(ord, TRUE) \/ UNCHANGED detained)
      BY <2>1 DEF PrepareRecycle, RecyclePod, PodsInv, TypeOK
    <3>2. Detain(ord, TRUE)
      BY <3>1
    <3>3. \A j \in Ordinals : j # ord => detained'[j] = detained[j]
      BY <3>1, <3>2, DetainFacts DEF MembersInv
    <3> QED
      BY <3>1, <3>3
  <2>2. CASE FinishRecycle
    <3>1. ord \in Ordinals /\ joined' = joined /\ (Detain(ord, FALSE) \/ UNCHANGED detained)
      BY <2>2 DEF FinishRecycle, PodsInv, TypeOK
    <3>2. Detain(ord, FALSE)
      BY <3>1
    <3>3. \A j \in Ordinals : j # ord => detained'[j] = detained[j]
      BY <3>1, <3>2, DetainFacts DEF MembersInv
    <3>4. detained' = detained \/ detained'[ord] = FALSE
      BY <3>1, <3>2 DEF Detain, MembersInv, MembersTypeOK
    <3> QED
      BY <3>3, <3>4
  <2>3. CASE ~ PrepareRecycle /\ ~ FinishRecycle
    <3>1. detained' = detained
      BY <1>1, <2>3
      DEF ShcReconcile, StartReconcile, Build, ApplyStatefulSet, CreateStatefulSet,
          UpdateTemplate, KeepTemplate, UpdateStatus, ClusterNotReady, PrepareScaleDown,
          ScaleDown, OtherSteps, KeepMembers, memberVars
    <3> QED
      BY <3>1
  <2> QED
    BY <2>1, <2>2, <2>3
<1>2. CASE DeployerFails \/ RemovedInVain \/ Surroundings \/ UNCHANGED shcVars
  <2>1. detained' = detained
    BY <1>2 DEF DeployerFails, RemovedInVain, Remove, Surroundings, SearchHeadStops, KeepMembers,
                memberVars, shcVars
  <2> QED
    BY <2>1
<1>3. CASE SearchHeads
  <2>1. ASSUME NEW j \in Ordinals, SearchHeadStarted(j) PROVE detained'[i] => detained[i]
    <3>1. PICK d \in {detained[j]} \union (IF j \in joined THEN {} ELSE {FALSE}) :
            detained' = [detained EXCEPT ![j] = d]
      BY <2>1 DEF SearchHeadStarted
    <3> QED
      BY <3>1 DEF MembersInv, MembersTypeOK
  <2>2. CASE ~ \E j \in Ordinals : SearchHeadStarted(j)
    BY <1>3, <2>2 DEF SearchHeads, MemberJoins, SearchEnds, CaptainLost, CaptainElected
  <2> QED
    BY <2>1, <2>2
<1> QED
  BY <1>1, <1>2, <1>3 DEF ShcNext

\* "release from detention": a search head is taken out of service only when every one of
\* a higher ordinal was released, and runs the revision the loop works for, a newer one, or
\* is missing; however often the resource is edited, and whatever fails.
THEOREM MembersBackCorrect == ShcSpec => MembersBackBeforeNext
<1> DEFINE Back ==
      \A i, j \in Ordinals :
         /\ pc = "check" /\ ~ detained[i] /\ detained'[i]
         /\ i < j /\ j < sts.replicas
         => /\ ~ detained[j]
            /\ pods[j].rev \in {view.updateRev, sts.template, NoRevision}
<1>1. ASSUME PodsInv, MembersInv, [ShcNext]_shcVars PROVE Back
  <2> SUFFICES ASSUME NEW i \in Ordinals, NEW j \in Ordinals,
                      pc = "check", ~ detained[i], detained'[i], i < j, j < sts.replicas
               PROVE  /\ ~ detained[j]
                      /\ pods[j].rev \in {view.updateRev, sts.template, NoRevision}
    OBVIOUS
  <2>1. i = ord /\ Outdated(ord)
    BY <1>1, StepsThatDetain
  <2> QED
    BY <1>1, <2>1 DEF MembersInv, BackInv, Outdated
<1>2. ShcSpec => []PodsInv
  BY SearchHeadClusterImplementsPods, PodsInvariant, PTL DEF ImplementsPods
<1>3. ShcSpec => [][Back]_shcVars
  BY <1>1, <1>2, MembersInvariant, PTL DEF ShcSpec
<1> QED
  BY <1>3 DEF MembersBackBeforeNext
=============================================================================
