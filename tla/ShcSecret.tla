----------------------------- MODULE ShcSecret -----------------------------
(***************************************************************************)
(* ApplyShcSecret (pkg/splunk/enterprise, searchheadcluster.go): how a     *)
(* search head cluster gets a new shc_secret and a new admin password.  On *)
(* top of StatefulSetPods, which creates the new version of the secret and *)
(* recycles the pods.                                                      *)
(*                                                                         *)
(* The operator logs in to a search head with the password in the secret   *)
(* its pod mounts.  So when it has changed the password of splunkd it has  *)
(* to change the mounted secret too: until then it is locked out.          *)
(***************************************************************************)
EXTENDS StatefulSetPods, Sequences

CONSTANT MaxKeys   \* bound: values of a token are 1 .. MaxKeys

ASSUME RotationAssumption ==
  /\ KeepsGoing /\ ~ DropsErrors
  /\ {"ready", "wait", "error"} \subseteq Verdicts
  /\ {MaxKeys, MaxSecrets} \subseteq Nat \ {0}

VARIABLES
  ns,        \* the tokens of the namespace secret
  data,      \* the tokens of each version
  run,       \* the tokens splunkd runs with in each ready pod
  status,    \* the fields of the resource's status, as stored
  mem,       \* the same, as this reconcile has them
  walk       \* where ApplyShcSecret is, and what it has read

rotVars == <<ns, data, run, status, mem, walk>>
shcVars == <<vars, rotVars>>

Tokens   == {"shc", "admin"}
Keys     == 1 .. MaxKeys
Versions == 1 .. MaxSecrets
NoKeys   == [t \in Tokens |-> 0]

\* rev: NamespaceSecretResourceVersion is "", the current one, or an older one; flags:
\* ShcSecretChanged and AdminSecretChanged; rewrite: AdminPasswordChangedSecrets.
Statuses ==
  [rev : {"none", "seen", "old"}, flags : [Tokens -> Seq(BOOLEAN)],
   rewrite : SUBSET Versions]

\* at and part: the member and the token the loop is at; want: the tokens as read before
\* it; left: versions still to be rewritten; nsRead: what became of the resource version
\* that ApplySplunkConfig read.
Walks ==
  [step : {"apply", "revision", "members", "rewrite", "status", "pods"},
   at : 0 .. MaxReplicas, part : Tokens, want : [Tokens -> {0} \union Keys],
   left : SUBSET Versions, nsRead : {"seen", "old"}]

NoWalk ==
  [step |-> "apply", at |-> 0, part |-> "shc", want |-> NoKeys, left |-> {},
   nsRead |-> "seen"]

RotationTypeOK ==
  /\ ns \in [Tokens -> Keys]
  /\ data \in [Versions -> [Tokens -> {0} \union Keys]]
  /\ run \in [Ordinals -> [Tokens -> {0} \union Keys]]
  /\ status \in Statuses /\ mem \in Statuses /\ walk \in Walks
  /\ pc = "idle" => mem = status /\ walk = NoWalk
  /\ nsChanged <=> latest = 0 \/ data[latest] # ns

RotationInit ==
  /\ Init
  /\ ns = [t \in Tokens |-> 1]
  /\ data = [v \in Versions |-> NoKeys]
  /\ run = [i \in Ordinals |-> NoKeys]
  /\ status = [rev |-> "none", flags |-> [t \in Tokens |-> << >>], rewrite |-> {}]
  /\ mem = status
  /\ walk = NoWalk

\* The reconcile now has status m; when it ends, m is stored unless the resource
\* changed meanwhile.
Have(m, w) ==
  IF pc' = "idle"
  THEN /\ status' = IF fresh THEN m ELSE status
       /\ mem' = status' /\ walk' = NoWalk
  ELSE mem' = m /\ walk' = w /\ UNCHANGED status

\* A pod that is not ready has no splunkd.
Running == [i \in Ordinals |-> IF pods'[i].state = "ready" THEN run[i] ELSE NoKeys]

\* ApplyShcSecret goes on to status m and place w; no other object changes.
RotateTo(m, w) ==
  /\ mem' = m /\ walk' = w
  /\ UNCHANGED <<vars, ns, data, status>>

StopWith(p, m) ==
  /\ UNCHANGED <<crVars, secretVars, kubeVars, faults>>
  /\ Finish(p)
  /\ Have(m, NoWalk)
  /\ UNCHANGED <<ns, data, run>>

-----------------------------------------------------------------------------
(***************************************************************************)
(* ApplySearchHeadCluster, up to ApplyShcSecret                            *)
(***************************************************************************)

Start ==
  /\ StartReconcile
  /\ data' = IF nsChanged THEN [data EXCEPT ![latest'] = ns] ELSE data
  /\ UNCHANGED <<ns, run, status, mem, walk>>

\* A StatefulSet that was just created has no pods, which ApplyShcSecret misses unless
\* it has nothing to change.
Create ==
  /\ walk.step = "apply"
  /\ CreateStatefulSet
  /\ fresh => (phase' = "Error" <=> mem.rev = "old")
  /\ Have([mem EXCEPT !.rev = IF @ = "none" THEN "seen" ELSE @], NoWalk)
  /\ UNCHANGED <<ns, data, run>>

Apply ==
  /\ walk.step = "apply"
  /\ UpdateTemplate \/ KeepTemplate
  /\ Have(mem, [walk EXCEPT !.step = "revision"])
  /\ UNCHANGED <<ns, data, run>>

(***************************************************************************)
(* ApplyShcSecret                                                          *)
(***************************************************************************)

CheckRevision ==
  /\ walk.step = "revision"
  /\ IF mem.rev = "old"
     THEN RotateTo(mem, [walk EXCEPT !.step = "members", !.want = ns])
     ELSE RotateTo([mem EXCEPT !.rev = "seen"], [walk EXCEPT !.step = "status"])
  /\ UNCHANGED run

\* The loop is at member i, one of the desired replicas, and at token t.
At(i, t) == walk.step = "members" /\ walk.at = i /\ i < req.replicas /\ walk.part = t

Mounted(i) == pods[i].rev.secret

\* GetSecretFromPod finds the pod, and the secret it mounts.
HasSecret(i) == pods[i].state # "absent" /\ Mounted(i) \in secrets

\* The operator can log in to the splunkd of pod i.
Authorized(i) ==
  pods[i].state = "ready" /\ HasSecret(i) /\ run[i].admin = data[Mounted(i)].admin

NextMember == [walk EXCEPT !.at = @ + 1, !.part = "shc"]
NextToken(t) == IF t = "shc" THEN [walk EXCEPT !.part = "admin"] ELSE NextMember

\* Mutant: a member without secret ends the reconcile as if it were ready.
MemberMissingIsReady(i) ==
  /\ At(i, "shc") /\ ~ HasSecret(i)
  /\ StopWith("Ready", mem)

\* Both tokens are read before the first is compared.
MemberMissing(i) ==
  /\ At(i, "shc") /\ ~ HasSecret(i)
  /\ StopWith("Error", mem)

Mismatch(i, t) == At(i, t) /\ HasSecret(i) /\ data[Mounted(i)][t] # walk.want[t]

MemberMatches(i, t) ==
  /\ At(i, t) /\ HasSecret(i) /\ data[Mounted(i)][t] = walk.want[t]
  /\ RotateTo(mem, NextToken(t))
  /\ UNCHANGED run

Flagged(i, t) == i < Len(mem.flags[t]) /\ mem.flags[t][i + 1]

\* Either flag ends the work on this member: with shc_secret flagged, its admin password
\* is not looked at.
SkipMember(i, t) ==
  /\ Mismatch(i, t) /\ Flagged(i, t)
  /\ RotateTo(mem, NextMember)
  /\ UNCHANGED run

\* At index i, or at the end.
Flag(m, i, t) ==
  [m EXCEPT !.flags[t] = IF i < Len(@) THEN [@ EXCEPT ![i + 1] = TRUE] ELSE Append(@, TRUE)]

\* Mutant: the version the member mounts is not remembered.
ChangeMemberOnly(i, t) ==
  /\ Mismatch(i, t) /\ ~ Flagged(i, t) /\ Authorized(i)
  /\ run' = [run EXCEPT ![i][t] = walk.want[t]]
  /\ RotateTo(Flag(mem, i, t), NextToken(t))

\* A command in the pod, and RestartSplunk with the mounted password: splunkd then runs
\* with the new token.  The version the pod mounts is remembered for its password.
ChangeMember(i, t) ==
  /\ Mismatch(i, t) /\ ~ Flagged(i, t)
  /\ \/ /\ Authorized(i)
        /\ run' = [run EXCEPT ![i][t] = walk.want[t]]
        /\ RotateTo([Flag(mem, i, t) EXCEPT
                       !.rewrite = IF t = "admin" THEN @ \union {Mounted(i)} ELSE @],
                    NextToken(t))
     \/ /\ ~ Authorized(i)
        /\ StopWith("Error", mem)

\* The secret of the pod cannot be read again after its password was changed.
ChangeForgotten(i) ==
  /\ Mismatch(i, "admin") /\ ~ Flagged(i, "admin") /\ Authorized(i)
  /\ ApiError
  /\ Have(Flag(mem, i, "admin"), NoWalk)
  /\ run' = [run EXCEPT ![i].admin = walk.want.admin]
  /\ UNCHANGED <<ns, data>>

\* Mutant: the loop leaves out the last member.
AllButLastChanged ==
  /\ walk.step = "members" /\ walk.at = req.replicas - 1
  /\ RotateTo(mem, [walk EXCEPT !.step = "rewrite", !.left = mem.rewrite])
  /\ UNCHANGED run

MembersChanged ==
  /\ walk.step = "members" /\ walk.at = req.replicas
  /\ RotateTo(mem, [walk EXCEPT !.step = "rewrite", !.left = mem.rewrite])
  /\ UNCHANGED run

\* ApplySecret on one version, with the password read before the loop.
RewriteVersion ==
  /\ walk.step = "rewrite"
  /\ \E v \in walk.left :
       IF v \in secrets
       THEN /\ data' = [data EXCEPT ![v].admin = walk.want.admin]
            /\ IF data' = data THEN UNCHANGED vars
               ELSE RewriteSecret /\ nsChanged' = (data'[latest] # ns)
            /\ walk' = [walk EXCEPT !.left = @ \ {v}]
            /\ UNCHANGED <<ns, run, status, mem>>
       ELSE StopWith("Error", mem)

VersionsRewritten ==
  /\ walk.step = "rewrite" /\ walk.left = {}
  /\ RotateTo(mem, [walk EXCEPT !.step = "status"])
  /\ UNCHANGED run

(***************************************************************************)
(* updateStatus, UpdateStatefulSetPods, and what ApplySearchHeadCluster    *)
(* does when everything is Ready                                           *)
(***************************************************************************)

\* Search heads with different shc_secrets may have no captain.
SameSecret ==
  \A i, j \in Ordinals :
    pods[i].state = "ready" /\ pods[j].state = "ready" => run[i].shc = run[j].shc

UpdateStatus ==
  /\ walk.step = "status"
  /\ \/ /\ view.ready > 0 /\ \E i \in Ordinals : Authorized(i)
        /\ RotateTo(mem, [walk EXCEPT !.step = "pods"])
        /\ UNCHANGED run
     \/ /\ view.ready = 0 \/ ~ SameSecret \/ \A i \in Ordinals : ~ Authorized(i)
        /\ StopWith("Pending", mem)

\* A search head the operator cannot log in to has an empty status.
ManagePods ==
  /\ walk.step = "pods"
  /\ \/ WaitForReplicas \/ ScaleUp \/ NoScaling \/ WaitForPod
     \/ DeleteClaim \/ ClaimNotFound \/ ClaimsDeleted
     \/ ScaleDown(IF Authorized(view.ready - 1) THEN "ready" ELSE "wait")
     \/ RecyclePod(IF Authorized(ord) THEN "ready" ELSE "wait")
     \/ FinishPod(IF Authorized(ord) THEN "ready" ELSE "error")
  /\ Have(mem, walk)
  /\ UNCHANGED <<ns, data, run>>

\* What is remembered of the rotation ends with it.
AllReady ==
  /\ walk.step = "pods"
  /\ RemoveUnwantedSecrets
  /\ Have([rev |-> walk.nsRead, flags |-> [t \in Tokens |-> << >>], rewrite |-> {}], NoWalk)
  /\ UNCHANGED <<ns, data, run>>

-----------------------------------------------------------------------------
(***************************************************************************)
(* What happens besides                                                    *)
(***************************************************************************)

\* The user gives one or both tokens a value they never had.
EditSecret ==
  /\ EditNamespaceSecret
  /\ \E T \in (SUBSET Tokens) \ {{}} :
       /\ \A t \in T : ns[t] < MaxKeys
       /\ ns' = [t \in Tokens |-> IF t \in T THEN ns[t] + 1 ELSE ns[t]]
  /\ status' = [status EXCEPT !.rev = IF @ = "seen" THEN "old" ELSE @]
  /\ mem' = [mem EXCEPT !.rev = IF @ = "seen" THEN "old" ELSE @]
  /\ walk' = [walk EXCEPT !.nsRead = IF pc = "idle" THEN @ ELSE "old"]
  /\ UNCHANGED <<data, run>>

\* The container of a pod starts splunkd with the tokens of the secret it mounts.
SplunkStarted(i) ==
  /\ PodStarted(i)
  /\ run' = [run EXCEPT ![i] = data[Mounted(i)]]
  /\ UNCHANGED <<ns, data, status, mem, walk>>

PodsGo(i) ==
  /\ PodStopped(i) \/ PodGone(i)
  /\ run' = Running
  /\ UNCHANGED <<ns, data, status, mem, walk>>

Elsewhere ==
  /\ SyncStatefulSet \/ EditResource
  /\ UNCHANGED rotVars

\* An error ends the reconcile, but what it remembers is stored.
Fails ==
  /\ \/ ApiError \/ PruneError \/ PublishError
     \/ \E i \in Ordinals : PodFails(i) \/ PodEvicted(i)
  /\ Have(mem, walk)
  /\ run' = Running
  /\ UNCHANGED <<ns, data>>

\* A crash loses what the reconcile remembers.
Crashes ==
  /\ Crash
  /\ mem' = status /\ walk' = NoWalk
  /\ UNCHANGED <<ns, data, run, status>>

-----------------------------------------------------------------------------
RotateMembers ==
  \E i \in Ordinals :
    \/ MemberMissing(i)
    \/ \E t \in Tokens : MemberMatches(i, t) \/ SkipMember(i, t) \/ ChangeMember(i, t)

Operator ==
  \/ Start \/ Create \/ Apply
  \/ CheckRevision \/ RotateMembers \/ MembersChanged \/ RewriteVersion \/ VersionsRewritten
  \/ UpdateStatus \/ ManagePods \/ AllReady

RotationNext ==
  \/ Operator
  \/ EditSecret \/ Elsewhere \/ Fails \/ Crashes
  \/ \E i \in Ordinals : SplunkStarted(i) \/ PodsGo(i) \/ ChangeForgotten(i)

RotationSpec == RotationInit /\ [][RotationNext]_shcVars

RotationFairSpec ==
  /\ RotationSpec
  /\ WF_shcVars(Operator)
  /\ WF_shcVars(SyncStatefulSet /\ UNCHANGED rotVars)
  /\ \A i \in Ordinals : WF_shcVars(SplunkStarted(i)) /\ WF_shcVars(PodsGo(i))

-----------------------------------------------------------------------------
\* The rotation only adds to what StatefulSetPods does.
ImplementsPods == Spec

\* "Update the admin password on secret mounted on SHC pod to ensure successful
\* authentication" (searchheadcluster.go): unless something failed, the operator can log
\* in to every search head when ApplyShcSecret is done, and each has the new shc_secret.
LoggedIn ==
  walk.step = "status" /\ walk.want = ns /\ faults = 0
  => \A i \in Ordinals :
       i < req.replicas /\ pods[i].state = "ready" => Authorized(i) /\ run[i] = ns

\* A password reaches a secret that pods mount only when no splunkd that the operator
\* could log in to with the old one is locked out by it.
NoLockOut ==
  [][faults' = 0 /\ data' # data
     => \A i \in Ordinals : Authorized(i) => Authorized(i)']_shcVars

AllRotated ==
  \A i \in Ordinals : i < Wanted => pods[i].state = "ready" /\ run[i] = ns

\* Every change that ApplyShcSecret notices reaches every search head, and every search
\* head is recycled with it, unless something fails.
RotationCompletes ==
  [](walk.step = "members" => <>[](Converged /\ AllRotated) \/ <>(faults > 0))
=============================================================================
