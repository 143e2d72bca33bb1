------------------------- MODULE SearchHeadCluster -------------------------
(***************************************************************************)
(* The search head cluster's pod manager (pkg/splunk/enterprise,           *)
(* searchheadcluster.go) on top of StatefulSetPods: a search head is       *)
(* detained and its searches end before its pod is deleted, and it is      *)
(* removed from the cluster before it is scaled away.                      *)
(*                                                                         *)
(* The pod manager answers from the status of the members, which is read   *)
(* at the start of a reconcile; they live on meanwhile.  ApplyShcSecret is *)
(* the subject of ShcSecret.                                               *)
(***************************************************************************)
EXTENDS StatefulSetPods

CONSTANT
  MaxEvents           \* bound: edits and faults together

ASSUME ManagerAssumption == KeepsGoing /\ Verdicts = {"ready", "wait", "error"}
ASSUME EventsAssumption == MaxEvents \in Nat

VARIABLES
  member,    \* what each search head says of itself
  detained,  \* its manual detention, which outlives a restart
  busy,      \* it was detained with searches that are still active
  joined,    \* the members of the cluster's consensus
  captain,   \* there is a captain, initialized and with its service ready
  list,      \* status.members, as this reconcile has read it
  known      \* it has, and a member told it that the captain is ready

memberVars == <<member, detained, busy, joined, captain>>
statusVars == <<list, known>>
shcVars    == <<vars, memberVars, statusVars>>

\* "" is a search head that does not answer, or that is in no cluster; "Joining" stands
\* for every status the operator does not handle.
MemberStates == {"", "Joining", "Up", "ManualDetention"}

Unread == [status |-> "", searches |-> FALSE]

MembersTypeOK ==
  /\ member \in [Ordinals -> MemberStates]
  /\ {detained, busy} \subseteq [Ordinals -> BOOLEAN]
  /\ joined \subseteq Ordinals
  /\ captain \in BOOLEAN
  /\ list \in [Ordinals -> [status : MemberStates, searches : BOOLEAN]]
  /\ known \in BOOLEAN
  /\ pc \in {"idle", "apply"} => ~ known

ShcInit ==
  /\ Init
  /\ member = [i \in Ordinals |-> ""]
  /\ detained = [i \in Ordinals |-> FALSE] /\ busy = [i \in Ordinals |-> FALSE]
  /\ joined = {} /\ captain = FALSE
  /\ list = [i \in Ordinals |-> Unread]
  /\ known = FALSE

KeepMembers == UNCHANGED memberVars

\* Mutant: the members that were read are those of the next reconcile too.
RememberAlways == UNCHANGED statusVars

\* The members that were read are those of this reconcile.
Remember ==
  IF pc' = "idle"
  THEN list' = [i \in Ordinals |-> Unread] /\ known' = FALSE
  ELSE UNCHANGED statusVars

-----------------------------------------------------------------------------
(***************************************************************************)
(* searchHeadClusterPodManager.Update                                      *)
(***************************************************************************)

\* The deployer has a StatefulSet of its own, which the default manager updates first,
\* and whose error ends the reconcile.
DeployerFails ==
  /\ pc = "apply"
  /\ Fault
  /\ Finish("Error")
  /\ UNCHANGED <<crVars, secretVars, kubeVars>>
  /\ KeepMembers /\ Remember

ApplyStatefulSet ==
  /\ CreateStatefulSet \/ UpdateTemplate \/ KeepTemplate
  /\ KeepMembers /\ Remember

\* updateStatus asks every member, and the first that answers for the captain.
Serving == view.ready > 0 /\ captain /\ \E i \in Ordinals : member[i] # ""

UpdateStatus ==
  /\ pc = "scale" /\ ~ known /\ Serving
  /\ list' = [i \in Ordinals |-> [status |-> member[i], searches |-> busy[i]]]
  /\ known' = TRUE
  /\ UNCHANGED <<vars, memberVars>>

\* Mutant: a cluster without captain counts as Ready.
NotReadyIsReady ==
  /\ pc = "scale" /\ ~ known /\ ~ Serving
  /\ UNCHANGED <<crVars, secretVars, kubeVars, faults>>
  /\ Finish("Ready")
  /\ KeepMembers /\ Remember

ClusterNotReady ==
  /\ pc = "scale" /\ ~ known /\ ~ Serving
  /\ Finish("Pending")
  /\ UNCHANGED <<crVars, secretVars, kubeVars, faults>>
  /\ KeepMembers /\ Remember

(***************************************************************************)
(* The pod manager                                                         *)
(***************************************************************************)

Answers(i) == member[i] # ""

\* Mutant: detention is not waited for to drain the searches.
RecycleVerdictAtOnce(n) ==
  CASE list[n].status = "Up"              -> IF Answers(n) THEN "wait" ELSE "error"
    [] list[n].status = "ManualDetention" -> "ready"
    [] list[n].status = ""                -> "wait"
    [] OTHER                              -> "error"

\* The verdict of PrepareRecycle(n).
RecycleVerdict(n) ==
  CASE list[n].status = "Up"              -> IF Answers(n) THEN "wait" ELSE "error"
    [] list[n].status = "ManualDetention" -> IF list[n].searches THEN "wait" ELSE "ready"
    [] list[n].status = ""                -> "wait"
    [] OTHER                              -> "error"

\* SetSearchHeadDetention: a search head that is Up may have searches, and gets no new
\* ones in detention.
Detain(n, mode) ==
  IF Answers(n)
  THEN /\ detained' = [detained EXCEPT ![n] = mode]
       /\ member' = [member EXCEPT ![n] = IF @ = "Joining" THEN @
                                          ELSE IF mode THEN "ManualDetention" ELSE "Up"]
       /\ \E b \in BOOLEAN :
            /\ b => mode /\ member[n] = "Up"
            /\ busy' = [busy EXCEPT ![n] = b]
  ELSE UNCHANGED <<detained, member, busy>>

PrepareRecycle ==
  /\ known
  /\ RecyclePod(RecycleVerdict(ord))
  /\ IF list[ord].status = "Up" THEN Detain(ord, TRUE) ELSE UNCHANGED <<detained, member, busy>>
  /\ UNCHANGED <<joined, captain>> /\ Remember

\* RemoveSearchHeadClusterMember, which is content when the member is gone already; it
\* has no status after that.
Remove(n) ==
  /\ joined' = joined \ {n}
  /\ member' = [member EXCEPT ![n] = ""]
  /\ UNCHANGED <<detained, busy, captain>>

RemovableNow(n) == Answers(n) \/ (n \notin joined /\ pods[n].state = "ready")

PrepareScaleDown ==
  LET n == view.ready - 1
      v == RecycleVerdict(n)
  IN /\ known
     /\ \/ /\ v # "ready" /\ ScaleDown(v)
           /\ IF list[n].status = "Up" THEN Detain(n, TRUE) ELSE UNCHANGED <<detained, member, busy>>
           /\ UNCHANGED <<joined, captain>>
        \/ /\ v = "ready" /\ ~ RemovableNow(n) /\ ScaleDown("error")
           /\ KeepMembers
        \/ /\ v = "ready" /\ RemovableNow(n) /\ ScaleDown("ready")
           /\ Remove(n)
     /\ Remember

\* The operator stops, or its Update fails, after the member was removed.
RemovedInVain ==
  LET n == view.ready - 1
  IN /\ known /\ pc = "scale"
     /\ view.ready = view.replicas /\ view.ready > req.replicas
     /\ RecycleVerdict(n) = "ready" /\ RemovableNow(n)
     /\ ApiError \/ Crash
     /\ Remove(n)
     /\ Remember

\* Mutant: a member in detention counts as back.
FinishRecycleDetained ==
  /\ known
  /\ FinishPod(IF list[ord].status \in {"Up", "ManualDetention"} THEN "ready" ELSE "error")
  /\ KeepMembers
  /\ Remember

FinishRecycle ==
  /\ known
  /\ FinishPod(CASE list[ord].status = "Up" -> "ready"
                 [] list[ord].status = "ManualDetention" /\ Answers(ord) -> "wait"
                 [] OTHER -> "error")
  /\ IF list[ord].status = "ManualDetention" THEN Detain(ord, FALSE)
     ELSE UNCHANGED <<detained, member, busy>>
  /\ UNCHANGED <<joined, captain>> /\ Remember

\* The steps of UpdateStatefulSetPods that do not ask the pod manager, and what
\* ApplySearchHeadCluster does when everything is Ready.
OtherSteps ==
  /\ known
  /\ \/ WaitForReplicas \/ ScaleUp \/ NoScaling \/ WaitForPod \/ RemoveUnwantedSecrets
     \/ DeleteClaim \/ ClaimNotFound \/ ClaimsDeleted
  /\ KeepMembers /\ Remember

-----------------------------------------------------------------------------
(***************************************************************************)
(* The search heads                                                        *)
(***************************************************************************)

\* splunkd starts with the container of pod i.  Claims that were deleted or belong to
\* a removed member may have lost its detention.
SearchHeadStarted(i) ==
  /\ PodStarted(i)
  /\ member' = [member EXCEPT ![i] = "Joining"]
  /\ \E d \in {detained[i]} \union (IF i \in joined THEN {} ELSE {FALSE}) :
       detained' = [detained EXCEPT ![i] = d]
  /\ UNCHANGED <<busy, joined, captain, statusVars>>

\* It joins the cluster of the captain, or is the first.
MemberJoins(i) ==
  /\ member[i] = "Joining"
  /\ captain \/ joined = {}
  /\ member' = [member EXCEPT ![i] = IF detained[i] THEN "ManualDetention" ELSE "Up"]
  /\ joined' = joined \union {i}
  /\ UNCHANGED <<vars, detained, busy, captain, statusVars>>

SearchEnds(i) ==
  /\ busy[i]
  /\ busy' = [busy EXCEPT ![i] = FALSE]
  /\ UNCHANGED <<vars, member, detained, joined, captain, statusVars>>

\* splunkd ends with its container.
Gone == [i \in Ordinals |-> pods'[i].state # "ready"]

SearchHeadStops ==
  /\ member' = [i \in Ordinals |-> IF Gone[i] THEN "" ELSE member[i]]
  /\ busy' = [i \in Ordinals |-> busy[i] /\ ~ Gone[i]]
  /\ UNCHANGED <<detained, joined, captain>>

Majority(S) == 2 * Cardinality(S) > Cardinality(joined)

\* The captain may be the member that went down.
CaptainLost ==
  /\ captain
  /\ \E i \in joined : ~ Answers(i)
  /\ captain' = FALSE
  /\ UNCHANGED <<vars, member, detained, busy, joined, statusVars>>

CaptainElected ==
  /\ ~ captain
  /\ Majority({i \in joined : Answers(i)})
  /\ captain' = TRUE
  /\ UNCHANGED <<vars, member, detained, busy, joined, statusVars>>

-----------------------------------------------------------------------------
ShcReconcile ==
  \/ StartReconcile /\ KeepMembers /\ Remember
  \/ ApplyStatefulSet \/ UpdateStatus \/ ClusterNotReady
  \/ PrepareScaleDown \/ PrepareRecycle \/ FinishRecycle \/ OtherSteps

\* What happens to the resource, the StatefulSet and the pods besides.  A pod that is
\* scaled away does not fail and start again before it is deleted: it would join again.
Surroundings ==
  /\ \/ SyncStatefulSet
     \/ \E i \in Ordinals : PodStopped(i) \/ PodGone(i)
     \/ EditResource
     \/ ApiError \/ PruneError \/ PublishError \/ Crash
     \/ \E i \in Ordinals : (i < sts.replicas /\ PodFails(i)) \/ PodEvicted(i)
  /\ SearchHeadStops /\ Remember

SearchHeads ==
  \/ \E i \in Ordinals :
       SearchHeadStarted(i) \/ MemberJoins(i) \/ SearchEnds(i)
  \/ CaptainLost \/ CaptainElected

ShcNext ==
  /\ ShcReconcile \/ DeployerFails \/ RemovedInVain \/ Surroundings \/ SearchHeads
  /\ edits' + faults' <= MaxEvents

ShcSpec == ShcInit /\ [][ShcNext]_shcVars

ShcFairness ==
  /\ WF_shcVars(ShcReconcile)
  /\ WF_shcVars(SyncStatefulSet /\ SearchHeadStops /\ Remember)
  /\ WF_shcVars(CaptainElected)
  /\ \A i \in Ordinals :
       /\ WF_shcVars((PodStopped(i) \/ PodGone(i)) /\ SearchHeadStops /\ Remember)
       /\ WF_shcVars(SearchHeadStarted(i)) /\ WF_shcVars(MemberJoins(i))
       /\ WF_shcVars(SearchEnds(i))

ShcFairSpec == ShcSpec /\ ShcFairness

-----------------------------------------------------------------------------
\* The pod manager of search head clusters is one that StatefulSetPods allows.
ImplementsPods == Spec

\* "Wait until active searches have drained" (PrepareRecycle): whatever happens between
\* reading the member and the Delete of its pod or the Update of replicas, the operator
\* stops no search head that still has searches, or that may get new ones; and one that is
\* scaled away has left the consensus, which would count it for its majority for ever.
SearchesDrained ==
  [][\A i \in Ordinals :
       /\ \/ pc = "check" /\ pc' = "idle" /\ ~ pods[i].deleting /\ pods'[i].deleting
          \/ i \in sts'.replicas .. sts.replicas - 1
       => /\ ~ busy[i] /\ member[i] # "Up"
          /\ i >= sts'.replicas => i \notin joined']_shcVars

\* "release from detention" (FinishRecycle): a search head is detained for a recycle
\* only when every one of a higher ordinal was released from its own and runs the
\* revision the loop works for, or was created since from a template that is newer than
\* the status that names this revision, or is missing.
MembersBackBeforeNext ==
  [][\A i, j \in Ordinals :
       /\ pc = "check" /\ ~ detained[i] /\ detained'[i]
       /\ i < j /\ j < sts.replicas
       => /\ ~ detained[j]
          /\ pods[j].rev \in {view.updateRev, sts.template, NoRevision}]_shcVars

\* A search head that was removed from the cluster although its pod stays: no branch of
\* PrepareRecycle or FinishRecycle handles it.
Stranded ==
  \E i \in Ordinals : i < sts.replicas /\ pods[i].state = "ready" /\ i \notin joined

\* Once the user and the failures stop, the resource converges with every search head
\* Up, unless one was removed and the Update of replicas that follows was refused.
MembersServe ==
  \/ <>[](Converged /\ \A i \in Ordinals : i < Wanted => member[i] = "Up")
  \/ <>[]Stranded
=============================================================================
