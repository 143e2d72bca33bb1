-------------------------- MODULE ShcSecret_proofs --------------------------
(***************************************************************************)
(* What ApplyShcSecret does beside UpdateStatefulSetPods leaves the        *)
(* guarantees of StatefulSetPods alone: it restarts splunkd, rewrites      *)
(* secrets that pods mount, and ends reconciles early, only as             *)
(* StatefulSetPods allows.                                                 *)
(***************************************************************************)
EXTENDS ShcSecret, StatefulSetPods_proofs

\* The steps before UpdateStatefulSetPods.
Early == {"revision", "members", "rewrite", "status"}

\* ApplyShcSecret is under way only while the reconcile may still stop, or go on to
\* UpdateStatefulSetPods.
WhereInv ==
  /\ pc = "idle" => walk = NoWalk
  /\ walk.step \in Early => pc \in {"apply", "scale"}

LEMMA WalkInit == RotationInit => WhereInv
BY DEF RotationInit, WhereInv, NoWalk, Early, Init

\* What a step that ends the reconcile, or leaves walk alone, does to WhereInv.
LEMMA HaveKeepsWalk ==
  ASSUME WhereInv, walk' \in {walk, NoWalk}, pc' = "idle" => walk' = NoWalk,
         walk.step \notin Early \/ pc' \in {pc, "idle"}
  PROVE  WhereInv'
<1>1. CASE walk' = NoWalk
  BY <1>1 DEF WhereInv, NoWalk, Early
<1>2. CASE walk' = walk /\ pc' # "idle"
  BY <1>2 DEF WhereInv, Early
<1> QED
  BY <1>1, <1>2

\* Where the steps of the other parties leave pc.
LEMMA SurroundingsWalk ==
  ASSUME WhereInv, EditSecret \/ Elsewhere \/ Fails \/ Crashes
                  \/ \E i \in Ordinals : SplunkStarted(i) \/ PodsGo(i) \/ ChangeForgotten(i)
  PROVE  WhereInv'
<1>1. CASE EditSecret
  <2>1. pc' = pc
    BY <1>1 DEF EditSecret, EditNamespaceSecret, opVars
  <2>2. walk' = [walk EXCEPT !.nsRead = IF pc = "idle" THEN @ ELSE "old"]
    BY <1>1 DEF EditSecret
  <2>3. walk'.step = walk.step /\ (pc = "idle" => walk' = NoWalk)
    BY <2>2 DEF WhereInv, NoWalk
  <2> QED
    BY <2>1, <2>3 DEF WhereInv
<1>2. CASE Elsewhere
  BY <1>2 DEF Elsewhere, SyncStatefulSet, EditResource, opVars, rotVars, WhereInv
<1>3. CASE Fails
  <2>1. pc' \in {pc, "idle"}
    <3>1. CASE ApiError \/ PruneError \/ PublishError
      BY <3>1 DEF ApiError, PruneError, PublishError, Finish, End
    <3>2. CASE \E i \in Ordinals : PodFails(i) \/ PodEvicted(i)
      BY <3>2 DEF PodFails, PodEvicted, SetPod, opVars
    <3> QED
      BY <1>3, <3>1, <3>2 DEF Fails
  <2> QED
    BY <1>3, <2>1, HaveKeepsWalk DEF Fails, Have
<1>4. CASE Crashes
  BY <1>4, HaveKeepsWalk DEF Crashes, Crash
<1>5. CASE \E i \in Ordinals : SplunkStarted(i) \/ PodsGo(i)
  BY <1>5 DEF SplunkStarted, PodsGo, PodStarted, PodStopped, PodGone, SetPod, opVars, WhereInv
<1>6. CASE \E i \in Ordinals : ChangeForgotten(i)
  BY <1>6, HaveKeepsWalk DEF ChangeForgotten, ApiError, Finish, End, Have
<1> QED
  BY <1>1, <1>2, <1>3, <1>4, <1>5, <1>6

\* A step of ApplyShcSecret that goes on goes to a place where it may be.
LEMMA RotateToWalk ==
  ASSUME WhereInv, NEW m, NEW w, RotateTo(m, w), walk.step \in Early
  PROVE  WhereInv'
BY DEF WhereInv, RotateTo, vars, opVars

LEMMA StopWithWalk ==
  ASSUME WhereInv, NEW m, NEW p, StopWith(p, m)
  PROVE  WhereInv'
BY HaveKeepsWalk DEF StopWith, Finish, End, Have

LEMMA OperatorWalk ==
  ASSUME WhereInv, Operator
  PROVE  WhereInv'
<1>1. CASE Start
  BY <1>1 DEF Start, StartReconcile, Build, WhereInv, NoWalk, Early
<1>2. CASE Create
  BY <1>2, HaveKeepsWalk DEF Create, CreateStatefulSet, Finish, End, Have
<1>3. CASE Apply
  BY <1>3, RotationAssumption DEF Apply, UpdateTemplate, KeepTemplate, GoTo, Have, WhereInv
<1>4. CASE CheckRevision \/ MembersChanged \/ VersionsRewritten
  BY <1>4, RotateToWalk DEF CheckRevision, MembersChanged, VersionsRewritten, Early
<1>5. CASE RotateMembers
  BY <1>5, RotateToWalk, StopWithWalk
  DEF RotateMembers, MemberMissing, MemberMatches, SkipMember, ChangeMember, Mismatch, At, Early
<1>6. CASE RewriteVersion
  <2>1. \/ StopWith("Error", mem)
        \/ walk'.step = walk.step /\ pc' = pc /\ walk.step \in Early
    <3>1. \/ StopWith("Error", mem)
          \/ \E v : walk' = [walk EXCEPT !.left = @ \ {v}]
      BY <1>6 DEF RewriteVersion
    <3>2. StopWith("Error", mem) \/ pc' = pc
      BY <1>6 DEF RewriteVersion, RewriteSecret, vars, opVars
    <3>3. walk.step \in Early /\ \A v : [walk EXCEPT !.left = @ \ {v}].step = walk.step
      BY <1>6 DEF RewriteVersion, Early
    <3> QED
      BY <3>1, <3>2, <3>3
  <2> QED
    BY <2>1, StopWithWalk DEF WhereInv, Early
<1>7. CASE UpdateStatus
  BY <1>7, StopWithWalk, RotateToWalk DEF UpdateStatus, Early
<1>8. CASE ManagePods
  BY <1>8, HaveKeepsWalk DEF ManagePods, Have, Early
<1>9. CASE AllReady
  BY <1>9, HaveKeepsWalk DEF AllReady, RemoveUnwantedSecrets, Finish, End, Have
<1> QED
  BY <1>1, <1>2, <1>3, <1>4, <1>5, <1>6, <1>7, <1>8, <1>9 DEF Operator

LEMMA WalkStep == WhereInv /\ [RotationNext]_shcVars => WhereInv'
<1>1. WhereInv /\ UNCHANGED shcVars => WhereInv'
  BY DEF WhereInv, shcVars, vars, opVars, rotVars
<1> QED
  BY <1>1, OperatorWalk, SurroundingsWalk DEF RotationNext

\* Where Update returns before UpdateStatefulSetPods, ManagerStops allows it.
LEMMA StopWithStep ==
  ASSUME NEW m, NEW p \in {"Pending", "Error"}, StopWith(p, m),
         pc \in {"apply", "scale"}
  PROVE  Reconcile
BY RotationAssumption DEF StopWith, ManagerStops, Reconcile

LEMMA OperatorStep ==
  ASSUME WhereInv, Operator
  PROVE  Next \/ UNCHANGED vars
<1>1. walk.step \in Early => pc \in {"apply", "scale"}
  BY DEF WhereInv
<1>2. CASE Start \/ Create \/ Apply
  BY <1>2 DEF Start, Create, Apply, Reconcile, Next
<1>3. CASE CheckRevision \/ MembersChanged \/ VersionsRewritten
  BY <1>3 DEF CheckRevision, MembersChanged, VersionsRewritten, RotateTo
<1>4. CASE RotateMembers
  <2>1. pc \in {"apply", "scale"}
    BY <1>1, <1>4 DEF RotateMembers, MemberMissing, MemberMatches, SkipMember, ChangeMember,
                      Mismatch, At, Early
  <2>2. (\E m : StopWith("Error", m)) \/ UNCHANGED vars
    BY <1>4 DEF RotateMembers, MemberMissing, MemberMatches, SkipMember, ChangeMember, RotateTo
  <2> QED
    BY <2>1, <2>2, StopWithStep DEF Next
<1>5. CASE RewriteVersion
  <2>1. pc \in {"apply", "scale"}
    BY <1>1, <1>5 DEF RewriteVersion, Early
  <2>2. UNCHANGED vars \/ RewriteSecret \/ StopWith("Error", mem)
    BY <1>5 DEF RewriteVersion
  <2> QED
    BY <2>1, <2>2, StopWithStep DEF Reconcile, Next
<1>6. CASE UpdateStatus
  <2>1. pc \in {"apply", "scale"}
    BY <1>1, <1>6 DEF UpdateStatus, Early
  <2> QED
    BY <1>6, <2>1, StopWithStep DEF UpdateStatus, RotateTo, Next
<1>7. CASE ManagePods
  BY <1>7, RotationAssumption DEF ManagePods, Reconcile, Next
<1>8. CASE AllReady
  BY <1>8 DEF AllReady, Reconcile, Next
<1> QED
  BY <1>2, <1>3, <1>4, <1>5, <1>6, <1>7, <1>8 DEF Operator

LEMMA SurroundingsStep ==
  ASSUME EditSecret \/ Elsewhere \/ Fails \/ Crashes
         \/ \E i \in Ordinals : SplunkStarted(i) \/ PodsGo(i) \/ ChangeForgotten(i)
  PROVE  Next
BY DEF EditSecret, Elsewhere, Fails, Crashes, SplunkStarted, PodsGo, ChangeForgotten,
       Kubernetes, Failure, Next

\* Whatever ApplyShcSecret finds, changes, or fails at, a behaviour of a search head cluster
\* that rotates its shc_secret and its password is one of StatefulSetPods.
THEOREM ShcRotationImplementsPods == RotationSpec => ImplementsPods
<1>1. RotationInit => Init
  BY DEF RotationInit
<1>2. WhereInv /\ [RotationNext]_shcVars => [Next]_vars
  <2>1. UNCHANGED shcVars => UNCHANGED vars
    BY DEF shcVars
  <2> QED
    BY <2>1, OperatorStep, SurroundingsStep DEF RotationNext
<1> QED
  BY <1>1, <1>2, WalkInit, WalkStep, PTL DEF RotationSpec, ImplementsPods, Spec

-----------------------------------------------------------------------------
(***************************************************************************)
(* What the reconcile remembers of a rotation                              *)
(***************************************************************************)

\* Where the loops of ApplyShcSecret are, for what they have read.
Shape(w, m) ==
  /\ w.step \in {"apply", "revision"} => w.want = NoKeys /\ w.at = 0 /\ w.part = "shc"
  /\ w.left \subseteq m.rewrite
  /\ w.step # "rewrite" => w.left = {}

BookInv ==
  /\ status \in Statuses /\ mem \in Statuses /\ walk \in Walks
  /\ pc = "idle" => mem = status /\ walk = NoWalk
  /\ walk.step \in Early => pc \in {"apply", "scale"}
  /\ Shape(walk, mem)

\* Versions are numbered from 1, and the pods mount some of them.
BoundInv ==
  /\ secrets \subseteq 1 .. latest /\ latest <= MaxSecrets
  /\ nsChanged => latest < MaxSecrets
  /\ \A i \in Ordinals : pods[i].state # "absent" => pods[i].rev.secret \in 1 .. latest

KeysInv ==
  /\ ns \in [Tokens -> Keys]
  /\ data \in [Versions -> [Tokens -> {0} \union Keys]]
  /\ run \in [Ordinals -> [Tokens -> {0} \union Keys]]
  /\ nsChanged <=> latest = 0 \/ data[latest] # ns

LEMMA FreshWalk == NoWalk \in Walks /\ \A m \in Statuses : Shape(NoWalk, m)
BY ReplicasAssumption DEF NoWalk, Walks, Shape, NoKeys, Tokens

LEMMA HaveBook ==
  ASSUME BookInv, NEW m \in Statuses, NEW w \in Walks, Have(m, w), Shape(w, m),
         pc' # "idle" /\ w.step \in Early => pc' \in {"apply", "scale"}
  PROVE  BookInv'
<1>1. CASE pc' = "idle"
  <2>1. status' \in Statuses /\ mem' = status' /\ walk' = NoWalk
    BY <1>1 DEF Have, BookInv
  <2>2. NoWalk.step \notin Early
    BY DEF NoWalk, Early
  <2> QED
    BY <2>1, <2>2, FreshWalk DEF BookInv, Shape
<1>2. CASE pc' # "idle"
  <2>1. status' = status /\ mem' = m /\ walk' = w
    BY <1>2 DEF Have
  <2> QED
    BY <1>2, <2>1 DEF BookInv, Shape
<1> QED
  BY <1>1, <1>2

LEMMA StopBook ==
  ASSUME BookInv, NEW m \in Statuses, NEW p, StopWith(p, m)
  PROVE  BookInv'
<1>1. pc' = "idle" /\ Have(m, NoWalk)
  BY DEF StopWith, Finish, End
<1> QED
  BY <1>1, FreshWalk, HaveBook

LEMMA RotateToBook ==
  ASSUME BookInv, NEW m \in Statuses, NEW w \in Walks, RotateTo(m, w), Shape(w, m),
         walk.step \in Early
  PROVE  BookInv'
BY DEF BookInv, RotateTo, vars, opVars, Shape

LEMMA SameBook ==
  ASSUME BookInv, UNCHANGED <<status, mem, walk>>, pc' = pc
  PROVE  BookInv'
BY DEF BookInv, Shape

\* A pod is flagged at its index, or at the end.
LEMMA FlagTypes ==
  ASSUME NEW m \in Statuses, NEW i \in Ordinals, NEW t \in Tokens
  PROVE  /\ Flag(m, i, t) \in Statuses
         /\ Flag(m, i, t).rev = m.rev /\ Flag(m, i, t).rewrite = m.rewrite
         /\ \A u \in Tokens : u # t => Flag(m, i, t).flags[u] = m.flags[u]
         /\ i >= Len(m.flags[t]) => Len(Flag(m, i, t).flags[t]) = Len(m.flags[t]) + 1
<1> DEFINE s == m.flags[t]
           f == IF i < Len(s) THEN [s EXCEPT ![i + 1] = TRUE] ELSE Append(s, TRUE)
<1>1. /\ m.flags \in [Tokens -> Seq(BOOLEAN)] /\ s \in Seq(BOOLEAN) /\ Len(s) \in Nat
      /\ m.rewrite \subseteq Versions /\ m.rev \in {"none", "seen", "old"} /\ i \in Nat
  BY DEF Statuses, Ordinals
<1>2. f \in Seq(BOOLEAN) /\ (i >= Len(s) => Len(f) = Len(s) + 1)
  <2>1. CASE i < Len(s)
    BY <1>1, <2>1
  <2>2. CASE ~ (i < Len(s))
    BY <1>1, <2>2
  <2> QED
    BY <2>1, <2>2
<1>3. Flag(m, i, t) = [m EXCEPT !.flags = [m.flags EXCEPT ![t] = f]]
  BY DEF Flag
<1> HIDE DEF f, s
<1> QED
  BY <1>1, <1>2, <1>3 DEF Statuses, s

\* Changing a member: what is remembered grows by it.
LEMMA MembersBook ==
  ASSUME TypeOK, BookInv, KeysInv, secrets \subseteq Versions, RotateMembers
  PROVE  BookInv'
<1>1. PICK i \in Ordinals :
        MemberMissing(i) \/ \E t \in Tokens : MemberMatches(i, t) \/ SkipMember(i, t) \/ ChangeMember(i, t)
  BY DEF RotateMembers
<1>2. /\ walk.step = "members" /\ walk.step \in Early /\ walk.at = i /\ i < req.replicas
      /\ walk \in Walks /\ mem \in Statuses /\ walk.left = {}
  BY <1>1 DEF MemberMissing, MemberMatches, SkipMember, ChangeMember, Mismatch, At, Early, BookInv, Shape
<1>3. NextMember \in Walks /\ NextMember.step = "members" /\ NextMember.left = {}
  <2>1. walk.at + 1 \in 0 .. MaxReplicas
    BY <1>2, ReplicasAssumption DEF TypeOK, Ordinals
  <2> QED
    BY <1>2, <2>1 DEF NextMember, Walks, Tokens
<1>4. \A t \in Tokens :
        NextToken(t) \in Walks /\ NextToken(t).step = "members" /\ NextToken(t).left = {}
  BY <1>2, <1>3 DEF NextToken, Walks, Tokens
<1>5. \A w \in Walks : \A m : w.step = "members" /\ w.left = {} => Shape(w, m)
  BY DEF Shape
<1>6. CASE MemberMissing(i)
  BY <1>2, <1>6, StopBook DEF MemberMissing
<1>7. ASSUME NEW t \in Tokens, MemberMatches(i, t) \/ SkipMember(i, t)
      PROVE  BookInv'
  BY <1>2, <1>3, <1>4, <1>5, <1>7, RotateToBook DEF MemberMatches, SkipMember
<1>8. ASSUME NEW t \in Tokens, ChangeMember(i, t)
      PROVE  BookInv'
  <2>1. Mounted(i) \in Versions
    BY <1>8 DEF ChangeMember, Mismatch, HasSecret
  <2>2. Flag(mem, i, t) \in Statuses
    BY <1>2, FlagTypes
  <2> DEFINE m == [Flag(mem, i, t) EXCEPT
                     !.rewrite = IF t = "admin" THEN @ \union {Mounted(i)} ELSE @]
  <2>3. m \in Statuses
    BY <2>1, <2>2 DEF Statuses
  <2>4. RotateTo(m, NextToken(t)) \/ StopWith("Error", mem)
    BY <1>8 DEF ChangeMember
  <2> HIDE DEF m
  <2> QED
    BY <1>2, <1>4, <1>5, <2>3, <2>4, RotateToBook, StopBook
<1> QED
  BY <1>1, <1>6, <1>7, <1>8

LEMMA BookStep ==
  ASSUME TypeOK, BookInv, KeysInv, secrets \subseteq Versions, MaxFaults = 0, RotationNext
  PROVE  BookInv'
<1>0. /\ status \in Statuses /\ mem \in Statuses /\ walk \in Walks /\ Shape(walk, mem)
      /\ walk.step \in Early => pc \in {"apply", "scale"}
      /\ pc = "idle" => walk = NoWalk
  BY DEF BookInv
<1>1. CASE Start
  BY <1>1, <1>0 DEF Start, StartReconcile, Build, BookInv, Shape, NoWalk, Early
<1>2. CASE Create
  <2>1. [mem EXCEPT !.rev = IF @ = "none" THEN "seen" ELSE @] \in Statuses
    BY <1>0 DEF Statuses
  <2>2. pc' = "idle"
    BY <1>2 DEF Create, CreateStatefulSet, Finish, End
  <2> QED
    BY <1>2, <2>1, <2>2, FreshWalk, HaveBook DEF Create
<1>3. CASE Apply
  <2> DEFINE w == [walk EXCEPT !.step = "revision"]
  <2>1. w \in Walks /\ Shape(w, mem)
    BY <1>3, <1>0 DEF Apply, Walks, Shape
  <2>2. pc' = "scale" /\ Have(mem, w)
    BY <1>3, RotationAssumption DEF Apply, UpdateTemplate, KeepTemplate, GoTo
  <2> HIDE DEF w
  <2> QED
    BY <1>0, <2>1, <2>2, HaveBook
<1>4. CASE CheckRevision
  <2>1. walk.step = "revision" /\ walk.step \in Early /\ walk.left = {}
    BY <1>4, <1>0 DEF CheckRevision, Early, Shape
  <2>2. CASE mem.rev = "old"
    <3> DEFINE w == [walk EXCEPT !.step = "members", !.want = ns]
    <3>1. w \in Walks /\ Shape(w, mem)
      BY <1>0, <2>1 DEF Walks, Shape, KeysInv
    <3>2. RotateTo(mem, w)
      BY <1>4, <2>2 DEF CheckRevision
    <3> HIDE DEF w
    <3> QED
      BY <1>0, <2>1, <3>1, <3>2, RotateToBook
  <2>3. CASE mem.rev # "old"
    <3> DEFINE w == [walk EXCEPT !.step = "status"]
               m == [mem EXCEPT !.rev = "seen"]
    <3>1. w \in Walks /\ m \in Statuses /\ Shape(w, m)
      BY <1>0, <2>1 DEF Walks, Statuses, Shape
    <3>2. RotateTo(m, w)
      BY <1>4, <2>3 DEF CheckRevision
    <3> HIDE DEF w, m
    <3> QED
      BY <2>1, <3>1, <3>2, RotateToBook
  <2> QED
    BY <2>2, <2>3
<1>5. CASE RotateMembers
  BY <1>5, MembersBook
<1>6. CASE MembersChanged
  <2> DEFINE w == [walk EXCEPT !.step = "rewrite", !.left = mem.rewrite]
  <2>1. w \in Walks /\ Shape(w, mem) /\ walk.step \in Early
    BY <1>0, <1>6 DEF MembersChanged, Walks, Shape, Statuses, Early
  <2>2. RotateTo(mem, w)
    BY <1>6 DEF MembersChanged
  <2> HIDE DEF w
  <2> QED
    BY <1>0, <2>1, <2>2, RotateToBook
<1>7. CASE RewriteVersion
  <2>1. CASE StopWith("Error", mem)
    BY <1>0, <2>1, StopBook
  <2>2. CASE ~ StopWith("Error", mem)
    <3>1. PICK v : walk' = [walk EXCEPT !.left = @ \ {v}]
      BY <1>7, <2>2 DEF RewriteVersion
    <3>2. pc' = pc /\ status' = status /\ mem' = mem /\ walk.step = "rewrite"
      BY <1>7, <2>2 DEF RewriteVersion, RewriteSecret, vars, opVars
    <3>3. walk' \in Walks /\ Shape(walk', mem) /\ walk'.step = "rewrite"
      BY <1>0, <3>1, <3>2 DEF Walks, Shape
    <3>4. pc \in {"apply", "scale"}
      BY <1>0, <3>2 DEF Early
    <3> QED
      BY <1>0, <3>2, <3>3, <3>4 DEF BookInv, Shape
  <2> QED
    BY <2>1, <2>2
<1>8. CASE VersionsRewritten
  <2> DEFINE w == [walk EXCEPT !.step = "status"]
  <2>1. w \in Walks /\ Shape(w, mem) /\ walk.step \in Early
    BY <1>0, <1>8 DEF VersionsRewritten, Walks, Shape, Early
  <2>2. RotateTo(mem, w)
    BY <1>8 DEF VersionsRewritten
  <2> HIDE DEF w
  <2> QED
    BY <1>0, <2>1, <2>2, RotateToBook
<1>9. CASE UpdateStatus
  <2> DEFINE w == [walk EXCEPT !.step = "pods"]
  <2>1. w \in Walks /\ Shape(w, mem) /\ walk.step \in Early
    BY <1>0, <1>9 DEF UpdateStatus, Walks, Shape, Early
  <2>2. RotateTo(mem, w) \/ StopWith("Pending", mem)
    BY <1>9 DEF UpdateStatus
  <2> HIDE DEF w
  <2> QED
    BY <1>0, <2>1, <2>2, RotateToBook, StopBook
<1>10. CASE ManagePods
  <2>1. walk.step \notin Early
    BY <1>10 DEF ManagePods, Early
  <2> QED
    BY <1>0, <1>10, <2>1, HaveBook DEF ManagePods
<1>11. CASE AllReady
  <2> DEFINE m == [rev |-> walk.nsRead, flags |-> [t \in Tokens |-> << >>], rewrite |-> {}]
  <2>1. << >> \in Seq(BOOLEAN) /\ walk.nsRead \in {"seen", "old"}
    BY <1>0 DEF Walks
  <2>2. m \in Statuses
    BY <2>1 DEF Statuses
  <2>3. pc' = "idle" /\ Have(m, NoWalk)
    BY <1>11 DEF AllReady, RemoveUnwantedSecrets, Finish, End
  <2> HIDE DEF m
  <2> QED
    BY <2>2, <2>3, FreshWalk, HaveBook
<1>12. CASE EditSecret
  <2>1. /\ status' = [status EXCEPT !.rev = IF @ = "seen" THEN "old" ELSE @]
        /\ mem' = [mem EXCEPT !.rev = IF @ = "seen" THEN "old" ELSE @]
        /\ walk' = [walk EXCEPT !.nsRead = IF pc = "idle" THEN @ ELSE "old"]
        /\ pc' = pc
    BY <1>12 DEF EditSecret, EditNamespaceSecret, opVars
  <2>2. /\ status' \in Statuses /\ mem' \in Statuses /\ mem'.rewrite = mem.rewrite
        /\ walk' \in Walks /\ walk'.step = walk.step
        /\ walk'.want = walk.want /\ walk'.at = walk.at
        /\ walk'.part = walk.part /\ walk'.left = walk.left
    BY <1>0, <2>1 DEF Statuses, Walks
  <2>3. pc = "idle" => mem' = status' /\ walk' = NoWalk
    BY <1>0, <2>1 DEF BookInv, NoWalk
  <2> QED
    BY <1>0, <2>1, <2>2, <2>3 DEF BookInv, Shape
<1>13. CASE Elsewhere
  BY <1>13, SameBook DEF Elsewhere, SyncStatefulSet, EditResource, opVars, rotVars
<1>14. CASE \E i \in Ordinals : SplunkStarted(i) \/ PodsGo(i)
  BY <1>14, SameBook DEF SplunkStarted, PodsGo, PodStarted, PodStopped, PodGone, SetPod, opVars
<1>15. CASE Fails \/ Crashes \/ \E i \in Ordinals : ChangeForgotten(i)
  BY <1>15, NothingFails DEF Fails, Crashes, ChangeForgotten, Failure
<1> QED
  BY <1>1, <1>2, <1>3, <1>4, <1>5, <1>6, <1>7, <1>8, <1>9, <1>10, <1>11, <1>12, <1>13, <1>14, <1>15
  DEF RotationNext, Operator

\* The steps that change neither tokens nor versions.
LEMMA KeysKept ==
  ASSUME KeysInv, UNCHANGED <<ns, data, latest, nsChanged>>, run' \in {run, Running}
  PROVE  KeysInv'
BY DEF KeysInv, Running, NoKeys

LEMMA KeysStep ==
  ASSUME TypeOK, BookInv, KeysInv, BoundInv, MaxFaults = 0, RotationNext
  PROVE  KeysInv'
<1> USE DEF crVars, secretVars, kubeVars, opVars
<1>0. /\ ns \in [Tokens -> Keys] /\ Keys \subseteq {0} \union Keys
      /\ data \in [Versions -> [Tokens -> {0} \union Keys]]
      /\ run \in [Ordinals -> [Tokens -> {0} \union Keys]]
      /\ nsChanged <=> latest = 0 \/ data[latest] # ns
      /\ walk \in Walks /\ latest \in Nat
  BY DEF KeysInv, BookInv, TypeOK
<1>1. CASE Start
  <2>1. CASE nsChanged
    <3>1. /\ latest' = latest + 1 /\ nsChanged' = FALSE /\ run' = run /\ ns' = ns
          /\ data' = [data EXCEPT ![latest'] = ns]
      BY <1>1, <2>1 DEF Start, StartReconcile, ApplyVersionedSecret
    <3>2. latest + 1 \in Versions /\ latest + 1 # 0 /\ ns \in [Tokens -> {0} \union Keys]
      BY <1>0, <2>1, RotationAssumption DEF BoundInv, Versions
    <3>3. data'[latest'] = ns
      BY <1>0, <3>1, <3>2
    <3>4. data' \in [Versions -> [Tokens -> {0} \union Keys]]
      BY <1>0, <3>1, <3>2
    <3> QED
      BY <1>0, <3>1, <3>2, <3>3, <3>4 DEF KeysInv
  <2>2. CASE ~ nsChanged
    BY <1>1, <2>2, KeysKept DEF Start, StartReconcile, ApplyVersionedSecret
  <2> QED
    BY <2>1, <2>2
<1>2. CASE Create \/ Apply
  BY <1>2, KeysKept DEF Create, Apply, CreateStatefulSet, UpdateTemplate, KeepTemplate
<1>3. CASE CheckRevision \/ MembersChanged \/ VersionsRewritten \/ UpdateStatus
  BY <1>3, KeysKept DEF CheckRevision, MembersChanged, VersionsRewritten, UpdateStatus, RotateTo,
     StopWith, vars
<1>4. CASE RotateMembers
  <2>1. UNCHANGED <<ns, data, latest, nsChanged>>
    BY <1>4 DEF RotateMembers, MemberMissing, MemberMatches, SkipMember, ChangeMember, RotateTo,
       StopWith, vars
  <2>2. run' \in [Ordinals -> [Tokens -> {0} \union Keys]]
    <3>1. \/ run' = run
          \/ \E i \in Ordinals, t \in Tokens : run' = [run EXCEPT ![i][t] = walk.want[t]]
      BY <1>4 DEF RotateMembers, MemberMissing, MemberMatches, SkipMember, ChangeMember, StopWith
    <3>2. \A t \in Tokens : walk.want[t] \in {0} \union Keys
      BY <1>0 DEF Walks
    <3> QED
      BY <1>0, <3>1, <3>2
  <2> QED
    BY <1>0, <2>1, <2>2 DEF KeysInv
<1>5. CASE RewriteVersion
  <2>1. CASE StopWith("Error", mem)
    BY <2>1, KeysKept DEF StopWith
  <2>2. CASE ~ StopWith("Error", mem)
    <3>1. PICK v : /\ data' = [data EXCEPT ![v].admin = walk.want.admin]
                   /\ IF data' = data THEN UNCHANGED vars
                      ELSE RewriteSecret /\ nsChanged' = (data'[latest] # ns)
                   /\ UNCHANGED <<ns, run>>
      BY <1>5, <2>2 DEF RewriteVersion
    <3>2. "admin" \in Tokens /\ walk.want.admin \in {0} \union Keys
      BY <1>0 DEF Walks, Tokens
    <3>3. data' \in [Versions -> [Tokens -> {0} \union Keys]]
      BY <1>0, <3>1, <3>2
    <3>4. CASE data' = data
      BY <3>1, <3>4, KeysKept DEF vars
    <3>5. CASE data' # data
      <4>1. latest' = latest /\ latest # 0 /\ nsChanged' = (data'[latest] # ns)
        BY <3>1, <3>5 DEF RewriteSecret
      <4> QED
        BY <1>0, <3>1, <3>3, <4>1 DEF KeysInv
    <3> QED
      BY <3>4, <3>5
  <2> QED
    BY <2>1, <2>2
<1>6. CASE ManagePods \/ AllReady
  BY <1>6, KeysKept DEF ManagePods, AllReady, WaitForReplicas, ScaleUp, NoScaling, WaitForPod,
     DeleteClaim, ClaimNotFound, ClaimsDeleted, ScaleDown, RecyclePod, FinishPod,
     RemoveUnwantedSecrets
<1>7. CASE EditSecret
  <2>1. PICK T \in (SUBSET Tokens) \ {{}} :
          /\ \A t \in T : ns[t] < MaxKeys
          /\ ns' = [t \in Tokens |-> IF t \in T THEN ns[t] + 1 ELSE ns[t]]
    BY <1>7 DEF EditSecret
  <2>2. ns' \in [Tokens -> Keys]
    BY <1>0, <2>1, RotationAssumption DEF Keys
  <2>3. PICK t \in Tokens : t \in T
    <3>1. T \in SUBSET Tokens /\ T \notin {{}}
      OBVIOUS
    <3>2. \E t : t \in T
      BY <3>1
    <3> QED
      BY <3>1, <3>2
  <2>4. ns'[t] # ns[t]
    BY <1>0, <2>1, <2>3 DEF Keys
  <2>5. ~ nsChanged /\ nsChanged' = TRUE /\ UNCHANGED <<data, run, latest>>
    BY <1>7 DEF EditSecret, EditNamespaceSecret
  <2> QED
    BY <1>0, <2>2, <2>4, <2>5 DEF KeysInv
<1>8. CASE Elsewhere
  BY <1>8, KeysKept DEF Elsewhere, SyncStatefulSet, EditResource, rotVars
<1>9. ASSUME NEW i \in Ordinals, SplunkStarted(i)
      PROVE  KeysInv'
  <2>1. Mounted(i) \in Versions
    BY <1>9, <1>0, RotationAssumption DEF SplunkStarted, PodStarted, BoundInv, Mounted, Versions
  <2>2. run' \in [Ordinals -> [Tokens -> {0} \union Keys]]
    BY <1>0, <1>9, <2>1 DEF SplunkStarted
  <2>3. UNCHANGED <<ns, data, latest, nsChanged>>
    BY <1>9 DEF SplunkStarted, PodStarted, SetPod
  <2> QED
    BY <1>0, <2>2, <2>3 DEF KeysInv
<1>10. CASE \E i \in Ordinals : PodsGo(i)
  BY <1>10, KeysKept DEF PodsGo, PodStopped, PodGone, SetPod
<1>11. CASE Fails \/ Crashes \/ \E i \in Ordinals : ChangeForgotten(i)
  BY <1>11, NothingFails DEF Fails, Crashes, ChangeForgotten, Failure
<1> QED
  BY <1>1, <1>2, <1>3, <1>4, <1>5, <1>6, <1>7, <1>8, <1>9, <1>10, <1>11 DEF RotationNext, Operator

\* Pods mount what the template names, which is one of the versions.
LEMMA BoundStep ==
  ASSUME RolloutInv, BoundInv, WhereInv, MaxFaults = 0, RotationNext
  PROVE  BoundInv'
<1> USE DEF crVars, secretVars, kubeVars, opVars
<1>0. TypeOK /\ latest \in Nat /\ secrets \subseteq 1 .. latest
  BY DEF RolloutInv, RoundInv, PodsInv, TypeOK, BoundInv
<1>1. CASE Start
  <2>1. pods' = pods /\ \/ /\ nsChanged /\ latest' = latest + 1 /\ ~ nsChanged'
                           /\ secrets' = secrets \union {latest + 1}
                        \/ UNCHANGED <<nsChanged, latest, secrets>>
    BY <1>1, <1>0 DEF Start, StartReconcile, ApplyVersionedSecret, Build, TypeOK
  <2>2. MaxSecrets \in Nat /\ 1 .. latest \subseteq 1 .. latest + 1
    BY <1>0, RotationAssumption
  <2>3. secrets \union {latest + 1} \subseteq 1 .. latest + 1
    BY <1>0
  <2> QED
    BY <1>0, <2>1, <2>2, <2>3 DEF BoundInv
<1>2. CASE Elsewhere
  <2>1. UNCHANGED <<secrets, latest, nsChanged>>
    BY <1>2 DEF Elsewhere, SyncStatefulSet, EditResource
  <2>2. CASE SyncStatefulSet
    <3>1. sts.template.secret \in 1 .. latest
      BY <2>2, <1>0 DEF RolloutInv, MountInv, InUse, SyncStatefulSet
    <3>2. \A i \in Ordinals : \/ pods'[i].rev = sts.template
                              \/ pods'[i].rev = pods[i].rev /\ pods'[i].state = pods[i].state
      BY <2>2, <1>0 DEF SyncStatefulSet, TypeOK, Pods
    <3> QED
      BY <2>1, <3>1, <3>2 DEF BoundInv
  <2>3. CASE EditResource
    BY <2>1, <2>3 DEF EditResource, BoundInv
  <2> QED
    BY <1>2, <2>2, <2>3 DEF Elsewhere
<1>3. ASSUME NEW i \in Ordinals, SplunkStarted(i) \/ PodsGo(i)
      PROVE  BoundInv'
  <2>1. UNCHANGED <<secrets, latest, nsChanged>> /\ \A j \in Ordinals : j # i => pods'[j] = pods[j]
    BY <1>3, <1>0 DEF SplunkStarted, PodsGo, PodStarted, PodStopped, PodGone, SetPod, TypeOK
  <2>2. NoPod.state = "absent"
    BY DEF NoPod
  <2>3. pods[i] \in Pods /\ \A p : SetPod(i, p) => pods'[i] = p
    BY <1>0 DEF SetPod, TypeOK
  <2>4. pods'[i].state = "absent" \/ (pods[i].state # "absent" /\ pods'[i].rev = pods[i].rev)
    BY <1>3, <2>2, <2>3 DEF SplunkStarted, PodsGo, PodStarted, PodStopped, PodGone, Pods
  <2> QED
    BY <2>1, <2>4 DEF BoundInv
<1>4. CASE EditSecret
  BY <1>4, <1>0, RotationAssumption DEF EditSecret, EditNamespaceSecret, BoundInv
<1>5. CASE Operator /\ ~ Start
  <2>1. /\ latest' = latest /\ (nsChanged' => nsChanged) /\ secrets' \subseteq secrets
        /\ \A i \in Ordinals : pods'[i].state = pods[i].state /\ pods'[i].rev = pods[i].rev
    <3>1. CASE Create \/ Apply
      <4>1. UNCHANGED <<latest, nsChanged, secrets, pods>>
        BY <3>1 DEF Create, Apply, CreateStatefulSet, UpdateTemplate, KeepTemplate
      <4> QED
        BY <4>1
    <3>2. CASE CheckRevision \/ MembersChanged \/ VersionsRewritten \/ UpdateStatus
      BY <3>2 DEF CheckRevision, MembersChanged, VersionsRewritten, UpdateStatus, RotateTo,
         StopWith, vars
    <3>3. CASE RotateMembers
      BY <3>3 DEF RotateMembers, MemberMissing, MemberMatches, SkipMember, ChangeMember, RotateTo,
         StopWith, vars
    <3>4. CASE RewriteVersion
      BY <3>4 DEF RewriteVersion, RewriteSecret, StopWith, vars
    <3>5. CASE AllReady
      BY <3>5 DEF AllReady, RemoveUnwantedSecrets
    <3>6. CASE ManagePods
      <4>1. UNCHANGED <<latest, nsChanged, secrets>>
        BY <3>6 DEF ManagePods, WaitForReplicas, ScaleUp, NoScaling, WaitForPod,
           DeleteClaim, ClaimNotFound, ClaimsDeleted, ScaleDown, RecyclePod, FinishPod
      <4>2. pods' \in {pods, [pods EXCEPT ![ord].deleting = TRUE]}
        BY <3>6 DEF ManagePods, WaitForReplicas, ScaleUp, NoScaling, WaitForPod,
           DeleteClaim, ClaimNotFound, ClaimsDeleted, ScaleDown, RecyclePod, FinishPod
      <4> QED
        BY <1>0, <4>1, <4>2 DEF TypeOK, Pods
    <3> QED
      BY <1>5, <3>1, <3>2, <3>3, <3>4, <3>5, <3>6 DEF Operator
  <2> QED
    BY <1>0, <2>1 DEF BoundInv
<1>6. CASE Fails \/ Crashes \/ \E i \in Ordinals : ChangeForgotten(i)
  BY <1>0, <1>6, NothingFails DEF Fails, Crashes, ChangeForgotten, Failure
<1> QED
  BY <1>1, <1>2, <1>3, <1>4, <1>5, <1>6 DEF RotationNext

-----------------------------------------------------------------------------
(***************************************************************************)
(* The course of a rotation, when the user changes the namespace secret    *)
(* only after the last rotation is forgotten, and nothing fails            *)
(***************************************************************************)

\* Nothing is remembered of a rotation.
Cleared(m) == m.rewrite = {} /\ \A t \in Tokens : m.flags[t] = << >>

\* The user changes the namespace secret only when neither the status nor the reconcile under
\* way remembers members and versions of the last change.
AfterTheLast == ns' # ns => Cleared(status) /\ Cleared(mem)

\* A reconcile that reported Ready has stored the resource version it read.
SeenInv == phase = "Ready" => mem.rev # "none" /\ status.rev # "none"

\* Every search head runs the tokens of the namespace secret, and the operator can log in.
Rotated ==
  /\ \A i \in Ordinals :
       pods[i].state # "absent"
       => /\ data[Mounted(i)].admin = ns.admin
          /\ pods[i].state = "ready" => run[i] = ns
          /\ pods[i].state = "unready" => pods[i].deleting \/ data[Mounted(i)] = ns
  /\ walk.step \in {"members", "rewrite"} => walk.want = ns
  /\ walk.step \in {"status", "pods"} => walk.want \in {NoKeys, ns}

\* The tokens of the version that pod 0 mounts.
Old == data[Mounted(0)]

\* All search heads are up and mount a version with other tokens than the namespace secret.
Outstanding ==
  /\ sts.exists /\ sts.replicas = Wanted /\ AllRun(pods[0].rev)
  /\ Old # ns

\* No search head is changed yet: the next reconcile will do it, and the one under way when
\* it has not read the resource version yet.
Before ==
  /\ Outstanding
  /\ \A i \in Ordinals : i < sts.replicas => run[i] = Old
  /\ \A m \in {mem, status} : Cleared(m) /\ m.rev = "old"
  /\ walk.step \notin {"apply", "revision"}
     => /\ walk.want # ns /\ walk.nsRead = "old" /\ walk.left = {}
        /\ walk.step \in {"members", "rewrite"} => walk.want = Old
        /\ Settled

\* The search heads are being changed, in order.
Done(i, t) == i < walk.at \/ (i = walk.at /\ walk.part = "admin" /\ t = "shc")

During ==
  /\ Outstanding
  /\ walk.step \in {"members", "rewrite"} /\ walk.want = ns
  /\ \A i \in Ordinals, t \in Tokens :
       i < sts.replicas => run[i][t] = IF Done(i, t) THEN ns[t] ELSE Old[t]
  /\ mem.rewrite \subseteq {Mounted(0)}
  /\ Old.admin # ns.admin /\ walk.at > 0 => Mounted(0) \in mem.rewrite
  /\ walk.step = "members" => walk.at <= sts.replicas
  /\ walk.step = "rewrite" => walk.at = sts.replicas /\ Mounted(0) \in walk.left
  /\ \A t \in Tokens : Len(mem.flags[t]) <= walk.at
                       \/ (Len(mem.flags[t]) = walk.at + 1 /\ walk.part = "admin" /\ t = "shc")

CourseInv == Rotated \/ Before \/ During

LoginInv == BookInv /\ KeysInv /\ BoundInv /\ SeenInv /\ CourseInv

LEMMA OutstandingPods ==
  ASSUME RolloutInv, BoundInv, Outstanding
  PROVE  /\ 0 \in Ordinals /\ 0 < sts.replicas /\ sts.replicas \in 1 .. MaxReplicas
         /\ Mounted(0) \in secrets /\ Mounted(0) \in Versions
         /\ \A i \in Ordinals :
              IF i < sts.replicas
              THEN pods[i].state = "ready" /\ ~ pods[i].deleting /\ Mounted(i) = Mounted(0)
              ELSE pods[i].state = "absent"
         /\ pc # "idle" => req.replicas = sts.replicas
<1>1. Wanted \in 1 .. MaxReplicas /\ 0 \in Ordinals
  BY ReplicasAssumption DEF Wanted, Ordinals, RolloutInv, RoundInv, PodsInv, TypeOK
<1>2. NoPod.state = "absent"
  BY DEF NoPod
<1>3. \A i \in Ordinals :
        pods[i] = IF i < sts.replicas
                  THEN [state |-> "ready", deleting |-> FALSE, rev |-> pods[0].rev]
                  ELSE NoPod
  BY DEF Outstanding, AllRun
<1>4. 0 < sts.replicas /\ sts.replicas \in 1 .. MaxReplicas
  BY <1>1 DEF Outstanding
<1>5. \A i \in Ordinals :
        IF i < sts.replicas
        THEN pods[i].state = "ready" /\ ~ pods[i].deleting /\ Mounted(i) = Mounted(0)
        ELSE pods[i].state = "absent"
  BY <1>2, <1>3 DEF Mounted
<1>6. Mounted(0) \in secrets
  BY <1>1, <1>4, <1>5 DEF RolloutInv, MountInv, InUse, Mounted
<1>7. Mounted(0) \in Versions
  <2>1. latest \in Nat /\ MaxSecrets \in Nat
    BY RotationAssumption DEF RolloutInv, RoundInv, PodsInv, TypeOK
  <2>2. secrets \subseteq 1 .. latest /\ latest <= MaxSecrets
    BY DEF BoundInv
  <2>3. 1 .. latest \subseteq 1 .. MaxSecrets
    BY <2>1, <2>2
  <2> QED
    BY <1>6, <2>2, <2>3 DEF Versions
<1>8. pc # "idle" => req.replicas = sts.replicas
  BY DEF RolloutInv, RoundInv, ChangeInv, Current, Idling, Outstanding
<1> QED
  BY <1>1, <1>4, <1>5, <1>6, <1>7, <1>8

\* Meanwhile the user waits, the kubelet has nothing to do, and the StatefulSet controller
\* only writes the status.
LEMMA OutstandingWaits ==
  ASSUME RolloutInv, BoundInv, KeysInv, Outstanding
  PROVE  /\ ~ Converged
         /\ \A i \in Ordinals : ~ SplunkStarted(i) /\ ~ PodsGo(i)
         /\ SyncStatefulSet => pods' = pods
<1>1. ~ Converged
  <2> SUFFICES ASSUME Converged PROVE FALSE
    OBVIOUS
  <2>1. pods[0].rev = sts.template
    BY OutstandingPods DEF Converged, Outstanding
  <2>2. ~ nsChanged /\ sts.template.secret = latest
    BY DEF Converged
  <2> QED
    BY <2>1, <2>2 DEF KeysInv, Outstanding, Old, Mounted
<1>2. \A i \in Ordinals : ~ SplunkStarted(i) /\ ~ PodsGo(i)
  BY OutstandingPods DEF SplunkStarted, PodsGo, PodStarted, PodStopped, PodGone
<1>3. ASSUME SyncStatefulSet
      PROVE  pods' = pods
  <2>0. sts.replicas \in Int /\ Ordinals \subseteq Int
    BY OutstandingPods DEF Ordinals
  <2>1. MissingPods = {} /\ SurplusPods = {}
    <3>1. \A i \in Ordinals : /\ i < sts.replicas => pods[i].state # "absent"
                              /\ i >= sts.replicas => pods[i].state = "absent"
      BY <2>0, OutstandingPods
    <3> QED
      BY <3>1 DEF MissingPods, SurplusPods
  <2>2. \A i \in Ordinals : pods'[i] = [pods[i] EXCEPT !.deleting = @ \/ i \in SurplusPods]
    BY <1>3, <2>1 DEF SyncStatefulSet
  <2>3. \A i \in Ordinals : pods[i] \in Pods
    BY DEF RolloutInv, RoundInv, PodsInv, TypeOK
  <2>4. \A i \in Ordinals : pods'[i] = pods[i]
    BY <2>1, <2>2, <2>3 DEF Pods
  <2>5. DOMAIN pods = Ordinals /\ DOMAIN pods' = Ordinals
        /\ pods = [i \in Ordinals |-> pods[i]] /\ pods' = [i \in Ordinals |-> pods'[i]]
    BY <1>3 DEF SyncStatefulSet, RolloutInv, RoundInv, PodsInv, TypeOK
  <2> QED
    BY <2>4, <2>5
<1> QED
  BY <1>1, <1>2, <1>3

\* What StatefulSetPods does to the StatefulSet and the pods while a change is outstanding.
LEMMA OutstandingKept ==
  ASSUME Outstanding, UNCHANGED <<cr, pods, ns, sts.exists, sts.replicas>>,
         data'[Mounted(0)] = data[Mounted(0)]
  PROVE  Outstanding' /\ Old' = Old /\ Mounted(0)' = Mounted(0)
BY DEF Outstanding, Wanted, AllRun, Old, Mounted

-----------------------------------------------------------------------------
(***************************************************************************)
(* Before the search heads are changed                                     *)
(***************************************************************************)

LEMMA BeforeKept ==
  ASSUME Before, UNCHANGED <<cr, pods, ns, run, sts.exists, sts.replicas>>,
         data'[Mounted(0)] = data[Mounted(0)],
         \A m \in {mem', status'} : Cleared(m) /\ m.rev = "old",
         walk'.step \notin {"apply", "revision"}
         => /\ walk'.want # ns /\ walk'.nsRead = "old" /\ walk'.left = {}
            /\ walk'.step \in {"members", "rewrite"} => walk'.want = Old
            /\ Settled'
  PROVE  Before'
<1>1. Outstanding' /\ Old' = Old
  BY OutstandingKept DEF Before
<1> QED
  BY <1>1 DEF Before

LEMMA BeforeHave ==
  ASSUME Before, NEW m, NEW w, Cleared(m), m.rev = "old", Have(m, w)
  PROVE  /\ \A n \in {mem', status'} : Cleared(n) /\ n.rev = "old"
         /\ walk' = NoWalk \/ walk' = w
BY DEF Have, Before

LEMMA BeforeRotates ==
  ASSUME Before, NEW w, RotateTo(mem, w), run' = run, walk.step \notin {"apply", "revision"},
         w.want = walk.want, w.nsRead = walk.nsRead, w.left = {},
         w.step \in {"members", "rewrite"} => walk.step \in {"members", "rewrite"}
  PROVE  Before'
<1>1. /\ UNCHANGED <<cr, pods, ns, data, sts, status, mem>> /\ walk' = w
  BY DEF RotateTo, vars, crVars, kubeVars
<1>2. Settled' <=> Settled
  BY <1>1 DEF Settled, AllRun
<1> QED
  BY <1>1, <1>2, BeforeKept DEF Before

LEMMA BeforeStops ==
  ASSUME Before, NEW p, StopWith(p, mem)
  PROVE  Before'
<1>1. UNCHANGED <<cr, pods, ns, data, run, sts>> /\ pc' = "idle" /\ Have(mem, NoWalk)
  BY DEF StopWith, crVars, kubeVars, Finish, End
<1>2. \A n \in {mem', status'} : Cleared(n) /\ n.rev = "old"
  BY <1>1, BeforeHave DEF Before
<1>3. walk' = NoWalk
  BY <1>1 DEF Have
<1> QED
  BY <1>1, <1>2, <1>3, BeforeKept DEF NoWalk

\* What the managers do with the pods is done: the StatefulSet and its pods stay.
LEMMA BeforeManage ==
  ASSUME RolloutInv, BoundInv, Before, ManagePods
  PROVE  UNCHANGED <<cr, sts, pods>>
<1>1. walk.step = "pods" /\ Settled
  BY DEF ManagePods, Before
<1>2. ~ ScaleUp \/ UNCHANGED <<cr, sts, pods>>
  BY OutstandingPods
  DEF ScaleUp, crVars, Before, RolloutInv, RoundInv, PodsInv, ViewInv, TypeOK
<1>3. \A v : ~ ScaleDown(v) \/ UNCHANGED <<cr, sts, pods>>
  <2>1. pc = "scale" => sts.replicas = view.replicas /\ sts.replicas = req.replicas
                        /\ sts.replicas \in Int
    BY OutstandingPods DEF Before, RolloutInv, RoundInv, PodsInv, ViewInv
  <2>2. \A v : ScaleDown(v) => pc = "scale" /\ view.replicas > req.replicas
    BY DEF ScaleDown
  <2> QED
    BY <2>1, <2>2
<1>4. \A v : ~ RecyclePod(v)
  BY <1>1, RecyclesCurrent DEF RecyclePod, RolloutInv
<1>5. CASE WaitForReplicas \/ NoScaling \/ WaitForPod \/ DeleteClaim \/ ClaimNotFound \/ ClaimsDeleted
           \/ \E v : FinishPod(v)
  BY <1>5 DEF WaitForReplicas, NoScaling, WaitForPod, DeleteClaim, ClaimNotFound, ClaimsDeleted,
     FinishPod, crVars, kubeVars
<1> QED
  BY <1>2, <1>3, <1>4, <1>5 DEF ManagePods

LEMMA BeforeMembers ==
  ASSUME RolloutInv, BoundInv, BookInv, KeysInv, Before, RotateMembers
  PROVE  Before'
<1>1. PICK i \in Ordinals :
        MemberMissing(i) \/ \E t \in Tokens : MemberMatches(i, t) \/ SkipMember(i, t) \/ ChangeMember(i, t)
  BY DEF RotateMembers
<1>2. walk.step = "members" /\ i < req.replicas /\ walk.want = Old /\ walk.left = {}
  BY <1>1 DEF MemberMissing, MemberMatches, SkipMember, ChangeMember, Mismatch, At, Before
<1>3. pods[i].state = "ready" /\ Mounted(i) = Mounted(0) /\ HasSecret(i)
  <2>1. pc # "idle"
    BY <1>2 DEF BookInv, NoWalk
  <2>2. i < sts.replicas
    BY <1>2, <2>1, OutstandingPods DEF Before
  <2>3. pods[i].state = "ready" /\ Mounted(i) = Mounted(0) /\ Mounted(0) \in secrets
    BY <2>2, OutstandingPods DEF Before
  <2> QED
    BY <2>3 DEF HasSecret
<1>4. PICK t \in Tokens : MemberMatches(i, t)
  BY <1>1, <1>2, <1>3 DEF MemberMissing, SkipMember, ChangeMember, Mismatch, Old
<1>5. /\ NextToken(t).want = walk.want /\ NextToken(t).nsRead = walk.nsRead
      /\ NextToken(t).left = {} /\ NextToken(t).step = "members"
  BY <1>2 DEF NextToken, NextMember, BookInv, Walks
<1>6. RotateTo(mem, NextToken(t)) /\ run' = run
  BY <1>4 DEF MemberMatches
<1> QED
  BY <1>2, <1>5, <1>6, BeforeRotates

LEMMA BeforeStep ==
  ASSUME RolloutInv, BoundInv, BookInv, KeysInv, Before, PatientUser, MaxFaults = 0, RotationNext
  PROVE  Before' \/ During'
<1> USE DEF crVars, secretVars, kubeVars, opVars
<1>0. /\ Outstanding /\ walk \in Walks /\ mem \in Statuses /\ Shape(walk, mem)
      /\ pc = "idle" => walk = NoWalk
      /\ \A m \in {mem, status} : Cleared(m) /\ m.rev = "old"
      /\ Mounted(0) \in 1 .. latest /\ latest \in Nat /\ sts \in StatefulSets
      /\ Mounted(0) \in secrets
  <2>1. Outstanding
    BY DEF Before
  <2>2. Mounted(0) \in secrets
    BY <2>1, OutstandingPods
  <2> QED
    BY <2>1, <2>2 DEF Before, BookInv, BoundInv, RolloutInv, RoundInv, PodsInv, TypeOK
<1>1. CASE Start
  <2>1. UNCHANGED <<cr, pods, ns, run, sts, mem, status, walk>> /\ walk.step = "apply"
    BY <1>0, <1>1 DEF Start, StartReconcile, Build, NoWalk
  <2>2. nsChanged => latest' = latest + 1
    BY <1>1 DEF Start, StartReconcile, ApplyVersionedSecret
  <2>3. data'[Mounted(0)] = data[Mounted(0)]
    BY <1>0, <1>1, <2>2 DEF Start, KeysInv
  <2> QED
    BY <1>0, <2>1, <2>3, BeforeKept
<1>2. ~ Create
  BY <1>0 DEF Create, CreateStatefulSet, Outstanding
<1>3. CASE Apply
  <2> DEFINE w == [walk EXCEPT !.step = "revision"]
  <2>1. /\ UNCHANGED <<cr, pods, ns, run, data, sts.exists, sts.replicas>>
        /\ pc' = "scale" /\ Have(mem, w)
    BY <1>0, <1>3, RotationAssumption DEF Apply, UpdateTemplate, KeepTemplate, GoTo, StatefulSets
  <2>2. walk' = w /\ w.step = "revision"
    BY <1>0, <2>1 DEF Have, Walks
  <2> HIDE DEF w
  <2> QED
    BY <1>0, <2>1, <2>2, BeforeHave, BeforeKept
<1>4. CASE CheckRevision
  <2>1. walk.step = "revision" /\ walk.at = 0 /\ walk.part = "shc" /\ walk.left = {}
    BY <1>0, <1>4 DEF CheckRevision, Shape
  <2>2. RotateTo(mem, [walk EXCEPT !.step = "members", !.want = ns]) /\ run' = run
    BY <1>0, <1>4 DEF CheckRevision
  <2>3. UNCHANGED <<cr, pods, ns, run, data, sts, mem>>
    BY <2>2 DEF RotateTo, vars
  <2>4. /\ walk'.step = "members" /\ walk'.want = ns /\ walk'.at = 0 /\ walk'.part = "shc"
    BY <1>0, <2>1, <2>2 DEF RotateTo, Walks
  <2>5. Outstanding' /\ Old' = Old /\ Mounted(0)' = Mounted(0)
    BY <1>0, <2>3, OutstandingKept
  <2>6. \A i \in Ordinals, t \in Tokens : ~ Done(i, t)'
    BY <2>4 DEF Done, Ordinals
  <2>7. \A t \in Tokens : Len(mem'.flags[t]) = 0
    BY <1>0, <2>3 DEF Cleared
  <2>8. mem'.rewrite = {} /\ 0 < sts.replicas /\ \A i \in Ordinals : i < sts.replicas => run'[i] = Old'
    BY <1>0, <2>3, <2>5, OutstandingPods DEF Cleared, Before
  <2>9. During'
    <3>1. \A i \in Ordinals, t \in Tokens :
            i < sts'.replicas => run'[i][t] = IF Done(i, t)' THEN ns'[t] ELSE Old'[t]
      BY <2>3, <2>6, <2>8
    <3>2. 0 <= sts'.replicas
      BY <1>0, <2>3 DEF StatefulSets
    <3> QED
      BY <2>3, <2>4, <2>5, <2>7, <2>8, <3>1, <3>2 DEF During
  <2> QED
    BY <2>9
<1>5. CASE RotateMembers
  BY <1>5, BeforeMembers
<1>6. CASE MembersChanged
  <2>1. /\ RotateTo(mem, [walk EXCEPT !.step = "rewrite", !.left = mem.rewrite])
        /\ run' = run /\ walk.step = "members"
    BY <1>6 DEF MembersChanged
  <2> QED
    BY <1>0, <2>1, BeforeRotates DEF Cleared, Walks
<1>7. ~ RewriteVersion
  BY DEF RewriteVersion, Before
<1>8. CASE VersionsRewritten
  <2>1. /\ RotateTo(mem, [walk EXCEPT !.step = "status"])
        /\ run' = run /\ walk.step = "rewrite" /\ walk.left = {}
    BY <1>8 DEF VersionsRewritten
  <2> QED
    BY <1>0, <2>1, BeforeRotates DEF Walks
<1>9. CASE UpdateStatus
  <2>1. walk.step = "status" /\ walk.left = {}
    BY <1>9, <1>0 DEF UpdateStatus, Shape
  <2>2. \/ RotateTo(mem, [walk EXCEPT !.step = "pods"]) /\ run' = run
        \/ StopWith("Pending", mem)
    BY <1>9 DEF UpdateStatus
  <2>3. CASE StopWith("Pending", mem)
    BY <2>3, BeforeStops
  <2>4. CASE RotateTo(mem, [walk EXCEPT !.step = "pods"]) /\ run' = run
    BY <1>0, <2>1, <2>4, BeforeRotates DEF Walks
  <2> QED
    BY <2>2, <2>3, <2>4
<1>10. CASE ManagePods
  <2>1. UNCHANGED <<cr, sts, pods, ns, data, run>> /\ Have(mem, walk) /\ walk.step = "pods"
    BY <1>10, BeforeManage DEF ManagePods
  <2>2. Settled' /\ walk' \in {walk, NoWalk}
    BY <2>1 DEF Before, Settled, AllRun, Have
  <2> QED
    BY <1>0, <2>1, <2>2, BeforeHave, BeforeKept DEF Before, NoWalk
<1>11. CASE AllReady
  <2> DEFINE m == [rev |-> walk.nsRead, flags |-> [t \in Tokens |-> << >>], rewrite |-> {}]
  <2>1. /\ UNCHANGED <<cr, sts, pods, ns, data, run>> /\ Have(m, NoWalk) /\ pc' = "idle"
        /\ walk.step = "pods"
    BY <1>11 DEF AllReady, RemoveUnwantedSecrets, Finish, End
  <2>2. Cleared(m) /\ m.rev = "old"
    BY <2>1 DEF Before, Cleared
  <2> HIDE DEF m
  <2>3. walk' = NoWalk
    BY <2>1 DEF Have
  <2> QED
    BY <1>0, <2>1, <2>2, <2>3, BeforeHave, BeforeKept DEF NoWalk
<1>12. ~ EditSecret /\ ~ EditResource
  BY <1>0, OutstandingWaits DEF EditSecret, EditNamespaceSecret, EditResource, Edit
<1>13. CASE Elsewhere
  <2>1. SyncStatefulSet /\ UNCHANGED rotVars
    BY <1>12, <1>13 DEF Elsewhere
  <2>2. pods' = pods
    BY <1>0, <2>1, OutstandingWaits
  <2>3. /\ UNCHANGED <<cr, ns, data, run, mem, status, walk>>
        /\ UNCHANGED <<sts.exists, sts.replicas, sts.template>> /\ sts'.updateRev = sts.template
    BY <1>0, <2>1 DEF SyncStatefulSet, StatefulSets, rotVars
  <2>4. Settled => Settled'
    BY <2>2, <2>3 DEF Settled, AllRun
  <2> QED
    BY <1>0, <2>2, <2>3, <2>4, BeforeKept DEF Before
<1>14. \A i \in Ordinals : ~ SplunkStarted(i) /\ ~ PodsGo(i)
  BY <1>0, OutstandingWaits
<1>15. ~ (Fails \/ Crashes \/ \E i \in Ordinals : ChangeForgotten(i))
  BY NothingFails DEF Fails, Crashes, ChangeForgotten, Failure, RolloutInv, RoundInv, PodsInv
<1> QED
  BY <1>1, <1>2, <1>3, <1>4, <1>5, <1>6, <1>7, <1>8, <1>9, <1>10, <1>11, <1>12, <1>13, <1>14, <1>15
  DEF RotationNext, Operator

-----------------------------------------------------------------------------
(***************************************************************************)
(* While the search heads are changed                                      *)
(***************************************************************************)

\* One token of one member is done: it has the new value in splunkd.
LEMMA DuringNext ==
  ASSUME RolloutInv, BoundInv, BookInv, KeysInv, During, walk.step = "members",
         walk.at < sts.replicas, NEW m, RotateTo(m, NextToken(walk.part)),
         m.rewrite \subseteq {Mounted(0)}, mem.rewrite \subseteq m.rewrite,
         walk.part = "admin" /\ Old.admin # ns.admin => Mounted(0) \in m.rewrite,
         \A t \in Tokens : IF t = walk.part THEN Len(m.flags[t]) <= walk.at + 1
                                            ELSE m.flags[t] = mem.flags[t],
         \A i \in Ordinals, t \in Tokens :
           run'[i][t] = IF i = walk.at /\ t = walk.part THEN ns[t] ELSE run[i][t]
  PROVE  During'
<1>1. /\ UNCHANGED <<cr, pods, ns, data, sts>> /\ mem' = m /\ walk' = NextToken(walk.part)
      /\ Outstanding /\ walk.want = ns
  BY DEF RotateTo, vars, crVars, kubeVars, During
<1>2. Outstanding' /\ Old' = Old /\ Mounted(0)' = Mounted(0)
  BY <1>1, OutstandingKept
<1>3. /\ walk.part \in {"shc", "admin"} /\ walk.at \in Nat /\ walk \in Walks
      /\ sts.replicas \in Nat /\ mem \in Statuses
  BY <1>1, OutstandingPods DEF BookInv, Walks, Tokens
<1>4. walk'.step = "members" /\ walk'.want = ns'
  BY <1>1, <1>3 DEF NextToken, NextMember, Walks
<1>5. IF walk.part = "shc" THEN walk'.at = walk.at /\ walk'.part = "admin"
      ELSE walk'.at = walk.at + 1 /\ walk'.part = "shc"
  BY <1>1, <1>3 DEF NextToken, NextMember, Walks
<1>6. \A i \in Ordinals, t \in Tokens :
        Done(i, t)' <=> Done(i, t) \/ (i = walk.at /\ t = walk.part)
  BY <1>3, <1>5 DEF Done, Ordinals, Tokens
<1>7. \A i \in Ordinals, t \in Tokens :
        i < sts'.replicas => run'[i][t] = IF Done(i, t)' THEN ns'[t] ELSE Old'[t]
  BY <1>1, <1>2, <1>6 DEF During
<1>8. \A t \in Tokens : Len(mem.flags[t]) \in Nat
  BY <1>3 DEF Statuses
<1>9. \A t \in Tokens : Len(mem'.flags[t]) <= walk'.at
                        \/ (Len(mem'.flags[t]) = walk'.at + 1 /\ walk'.part = "admin" /\ t = "shc")
  BY <1>1, <1>3, <1>5, <1>8 DEF During, Tokens
<1>10. Old.admin # ns.admin /\ walk'.at > 0 => Mounted(0) \in m.rewrite
  BY <1>3, <1>5 DEF During
<1>11. walk'.at <= sts.replicas
  BY <1>3, <1>5
<1> QED
  BY <1>1, <1>2, <1>4, <1>7, <1>9, <1>10, <1>11 DEF During

LEMMA DuringMembers ==
  ASSUME RolloutInv, BoundInv, BookInv, KeysInv, During, RotateMembers
  PROVE  During'
<1>1. PICK i \in Ordinals :
        MemberMissing(i) \/ \E t \in Tokens : MemberMatches(i, t) \/ SkipMember(i, t) \/ ChangeMember(i, t)
  BY DEF RotateMembers
<1>2. /\ walk.step = "members" /\ walk.at = i /\ i < req.replicas
      /\ walk.want = ns /\ Outstanding /\ mem.rewrite \subseteq {Mounted(0)} /\ mem \in Statuses
      /\ run \in [Ordinals -> [Tokens -> {0} \union Keys]] /\ i \in Nat
  <2>1. walk.step = "members" /\ walk.at = i /\ i < req.replicas
    BY <1>1 DEF MemberMissing, MemberMatches, SkipMember, ChangeMember, Mismatch, At
  <2> QED
    BY <2>1 DEF During, BookInv, KeysInv, Ordinals
<1>3. pods[i].state = "ready" /\ Mounted(i) = Mounted(0) /\ HasSecret(i) /\ i < sts.replicas
  <2>1. pc # "idle"
    BY <1>2 DEF BookInv, NoWalk
  <2>2. i < sts.replicas
    BY <1>2, <2>1, OutstandingPods
  <2>3. pods[i].state = "ready" /\ Mounted(i) = Mounted(0) /\ Mounted(0) \in secrets
    BY <1>2, <2>2, OutstandingPods
  <2> QED
    BY <2>2, <2>3 DEF HasSecret
<1>4. \A t \in Tokens : Len(mem.flags[t]) \in Nat
  BY <1>2 DEF Statuses
<1>5. ~ MemberMissing(i)
  BY <1>3 DEF MemberMissing
<1>6. ASSUME NEW t \in Tokens, At(i, t)
      PROVE  Len(mem.flags[t]) <= i /\ walk.part = t
  BY <1>2, <1>6 DEF During, At
<1>7. \A t \in Tokens : ~ SkipMember(i, t)
  BY <1>2, <1>4, <1>6 DEF SkipMember, Mismatch, Flagged
<1>8. ASSUME NEW t \in Tokens, MemberMatches(i, t)
      PROVE  During'
  <2>1. /\ RotateTo(mem, NextToken(walk.part)) /\ run' = run /\ Old[t] = ns[t]
        /\ Len(mem.flags[t]) <= walk.at /\ walk.part = t
    BY <1>2, <1>3, <1>6, <1>8 DEF MemberMatches, Old
  <2>2. run[i][t] = ns[t]
    BY <1>2, <1>3, <2>1 DEF During
  <2> QED
    BY <1>2, <1>3, <1>4, <2>1, <2>2, DuringNext
<1>9. ASSUME NEW t \in Tokens, ChangeMember(i, t)
      PROVE  During'
  <2>1. At(i, t) /\ ~ Flagged(i, t) /\ walk.part = t
    BY <1>6, <1>9 DEF ChangeMember, Mismatch
  <2>2. Authorized(i)
    <3>1. "admin" \in Tokens /\ ~ Done(i, "admin")
      BY <1>2 DEF Tokens, Done
    <3>2. run[i].admin = Old.admin
      BY <1>3, <3>1 DEF During
    <3> QED
      BY <1>3, <3>2 DEF Authorized, Old
  <2> DEFINE m == [Flag(mem, i, t) EXCEPT
                     !.rewrite = IF t = "admin" THEN @ \union {Mounted(i)} ELSE @]
  <2>3. RotateTo(m, NextToken(walk.part)) /\ run' = [run EXCEPT ![i][t] = ns[t]]
    BY <1>2, <1>9, <2>1, <2>2 DEF ChangeMember
  <2>4. /\ Flag(mem, i, t) \in Statuses /\ Flag(mem, i, t).rewrite = mem.rewrite
        /\ \A u \in Tokens : u # t => Flag(mem, i, t).flags[u] = mem.flags[u]
        /\ Len(Flag(mem, i, t).flags[t]) <= i + 1
    BY <1>2, <1>4, <1>6, <2>1, FlagTypes
  <2>5. /\ m.rewrite = IF t = "admin" THEN mem.rewrite \union {Mounted(0)} ELSE mem.rewrite
        /\ m.flags = Flag(mem, i, t).flags
    BY <1>3, <2>4 DEF Statuses
  <2> HIDE DEF m
  <2>6. \A j \in Ordinals, u \in Tokens :
          run'[j][u] = IF j = walk.at /\ u = walk.part THEN ns[u] ELSE run[j][u]
    BY <1>2, <2>1, <2>3
  <2>7. \A u \in Tokens : IF u = walk.part THEN Len(m.flags[u]) <= walk.at + 1
                                           ELSE m.flags[u] = mem.flags[u]
    BY <1>2, <2>1, <2>4, <2>5
  <2> QED
    BY <1>2, <1>3, <2>1, <2>3, <2>5, <2>6, <2>7, DuringNext
<1> QED
  BY <1>1, <1>5, <1>7, <1>8, <1>9

\* When every member is changed, so is the version they mount.
LEMMA DuringRewrite ==
  ASSUME RolloutInv, BoundInv, BookInv, KeysInv, During, MembersChanged \/ RewriteVersion
  PROVE  Rotated' \/ (MembersChanged /\ During')
<1>1. /\ Outstanding /\ walk.want = ns /\ walk.at = sts.replicas /\ walk \in Walks
      /\ mem.rewrite \subseteq {Mounted(0)} /\ walk.left \subseteq mem.rewrite
      /\ ns \in [Tokens -> Keys] /\ run \in [Ordinals -> [Tokens -> {0} \union Keys]]
      /\ data \in [Versions -> [Tokens -> {0} \union Keys]]
  <2>1. Outstanding /\ pc # "idle"
    BY DEF During, BookInv, NoWalk
  <2> QED
    BY <2>1, OutstandingPods DEF During, BookInv, KeysInv, MembersChanged, RewriteVersion, Shape
<1>2. \A i \in Ordinals : pods[i].state # "absent"
                          => i < sts.replicas /\ Mounted(i) = Mounted(0) /\ pods[i].state = "ready"
  BY <1>1, OutstandingPods
<1>3. ASSUME NEW i \in Ordinals, pods[i].state # "absent"
      PROVE  run[i] = ns
  <2>1. \A t \in Tokens : Done(i, t)
    BY <1>1, <1>2, <1>3 DEF Done
  <2>2. \A t \in Tokens : run[i][t] = ns[t]
    BY <1>2, <1>3, <2>1 DEF During
  <2> QED
    BY <1>1, <2>2
<1>4. CASE MembersChanged
  <2> DEFINE w == [walk EXCEPT !.step = "rewrite", !.left = mem.rewrite]
  <2>1. RotateTo(mem, w) /\ run' = run
    BY <1>4 DEF MembersChanged
  <2>2. UNCHANGED <<cr, pods, ns, data, sts, mem>> /\ walk' = w
    BY <2>1 DEF RotateTo, vars, crVars, kubeVars
  <2>3. /\ walk'.step = "rewrite" /\ walk'.left = mem.rewrite /\ walk'.want = walk.want
        /\ walk'.at = walk.at /\ walk'.part = walk.part
    BY <1>1, <2>2 DEF Walks
  <2> HIDE DEF w
  <2>4. CASE Old.admin = ns.admin
    <3>1. \A i \in Ordinals :
            pods'[i].state # "absent" => Mounted(i)' = Mounted(0) /\ pods'[i].state = "ready"
      BY <1>2, <2>2 DEF Mounted
    <3> QED
      BY <1>1, <1>3, <2>1, <2>2, <2>3, <2>4, <3>1 DEF Rotated, Old
  <2>5. CASE Old.admin # ns.admin
    <3>1. Outstanding' /\ Old' = Old /\ Mounted(0)' = Mounted(0)
      BY <1>1, <2>2, OutstandingKept
    <3>2. walk.at > 0
      BY <1>1, OutstandingPods
    <3>3. \A i \in Ordinals, t \in Tokens : Done(i, t)' <=> Done(i, t)
      BY <2>3 DEF Done
    <3> QED
      BY <1>1, <1>4, <2>1, <2>2, <2>3, <2>5, <3>1, <3>2, <3>3 DEF During
  <2> QED
    BY <1>4, <2>4, <2>5
<1>5. CASE RewriteVersion
  <2>1. Mounted(0) \in secrets /\ Mounted(0) \in Versions
    BY <1>1, OutstandingPods
  <2>2. \A v \in walk.left : v = Mounted(0)
    BY <1>1
  <2>3. /\ data' = [data EXCEPT ![Mounted(0)].admin = ns.admin]
        /\ UNCHANGED vars \/ RewriteSecret
        /\ walk' = [walk EXCEPT !.left = @ \ {Mounted(0)}]
        /\ UNCHANGED <<ns, run>>
    BY <1>1, <1>5, <2>1, <2>2 DEF RewriteVersion
  <2>4. UNCHANGED pods /\ walk'.want = ns' /\ walk'.step = walk.step
    BY <1>1, <2>3 DEF vars, kubeVars, RewriteSecret, Walks
  <2>5. walk.step = "rewrite"
    BY <1>5 DEF RewriteVersion
  <2>6. "admin" \in Tokens /\ data'[Mounted(0)].admin = ns'.admin
    BY <1>1, <2>1, <2>3 DEF Tokens
  <2>7. \A i \in Ordinals :
          pods'[i].state # "absent" => Mounted(i)' = Mounted(0) /\ pods'[i].state = "ready"
    BY <1>2, <2>4 DEF Mounted
  <2> QED
    BY <1>3, <2>3, <2>4, <2>5, <2>6, <2>7 DEF Rotated
<1> QED
  BY <1>4, <1>5

LEMMA DuringStep ==
  ASSUME RolloutInv, BoundInv, BookInv, KeysInv, During, PatientUser, MaxFaults = 0, RotationNext
  PROVE  During' \/ Rotated'
<1>1. /\ Outstanding /\ walk.step \in {"members", "rewrite"} /\ pc \in {"apply", "scale"}
      /\ walk.step = "rewrite" => walk.left # {}
  BY DEF During, BookInv, Early
<1>2. CASE Operator
  BY <1>1, <1>2, DuringMembers, DuringRewrite
  DEF Operator, Start, StartReconcile, Build, Create, Apply, CheckRevision, VersionsRewritten,
      UpdateStatus, ManagePods, AllReady
<1>3. ~ EditSecret /\ ~ EditResource
  BY <1>1, OutstandingWaits DEF EditSecret, EditNamespaceSecret, EditResource, Edit
<1>4. CASE Elsewhere
  <2>1. SyncStatefulSet /\ UNCHANGED rotVars
    BY <1>3, <1>4 DEF Elsewhere
  <2>2. sts \in StatefulSets /\ pods' = pods
    BY <1>1, <2>1, OutstandingWaits DEF RolloutInv, RoundInv, PodsInv, TypeOK
  <2>3. /\ UNCHANGED <<cr, ns, data, run, mem, walk, pods>>
        /\ UNCHANGED <<sts.exists, sts.replicas>>
    BY <2>1, <2>2 DEF SyncStatefulSet, StatefulSets, rotVars, crVars
  <2>4. Outstanding' /\ Old' = Old /\ Mounted(0)' = Mounted(0)
    BY <1>1, <2>3, OutstandingKept
  <2>5. \A i \in Ordinals, t \in Tokens : Done(i, t)' <=> Done(i, t)
    BY <2>3 DEF Done
  <2> QED
    BY <2>3, <2>4, <2>5 DEF During
<1>5. \A i \in Ordinals : ~ SplunkStarted(i) /\ ~ PodsGo(i)
  BY <1>1, OutstandingWaits
<1>6. ~ (Fails \/ Crashes \/ \E i \in Ordinals : ChangeForgotten(i))
  BY NothingFails DEF Fails, Crashes, ChangeForgotten, Failure, RolloutInv, RoundInv, PodsInv
<1> QED
  BY <1>2, <1>3, <1>4, <1>5, <1>6 DEF RotationNext

-----------------------------------------------------------------------------
(***************************************************************************)
(* Between two rotations                                                   *)
(***************************************************************************)

\* The walk has read what every search head runs.
WalkRotated ==
  /\ walk.step \in {"members", "rewrite"} => walk.want = ns
  /\ walk.step \in {"status", "pods"} => walk.want \in {NoKeys, ns}

LEMMA RotatedKept ==
  ASSUME Rotated, UNCHANGED <<ns, data, run>>, WalkRotated',
         \A i \in Ordinals : /\ pods'[i].state = pods[i].state /\ pods'[i].rev = pods[i].rev
                             /\ pods[i].deleting => pods'[i].deleting
  PROVE  Rotated'
BY DEF Rotated, WalkRotated, Mounted

LEMMA RotatedStops ==
  ASSUME Rotated, NEW p, StopWith(p, mem)
  PROVE  Rotated'
<1>1. UNCHANGED <<pods, ns, data, run>> /\ walk' = NoWalk
  BY DEF StopWith, Finish, End, Have, kubeVars
<1>2. WalkRotated'
  BY <1>1 DEF WalkRotated, NoWalk
<1> QED
  BY <1>1, <1>2, RotatedKept

LEMMA RotatedGoesOn ==
  ASSUME Rotated, BookInv, NEW m, NEW w, RotateTo(m, w), run' = run, w.want = walk.want,
         \/ w.step \in {"members", "rewrite"} /\ walk.step \in {"members", "rewrite"}
         \/ w.step \in {"status", "pods"} /\ walk.step \in {"revision", "rewrite", "status"}
  PROVE  Rotated'
<1>1. UNCHANGED <<pods, ns, data>> /\ walk' = w
  BY DEF RotateTo, vars, kubeVars
<1>2. WalkRotated'
  BY <1>1 DEF WalkRotated, Rotated, BookInv, Shape
<1> QED
  BY <1>1, <1>2, RotatedKept

LEMMA MountsVersions ==
  ASSUME TypeOK, BoundInv
  PROVE  \A i \in Ordinals :
           pods[i].state # "absent" => Mounted(i) \in Versions /\ Mounted(i) # latest + 1
<1>1. latest \in Nat /\ MaxSecrets \in Nat /\ latest <= MaxSecrets
  BY RotationAssumption DEF TypeOK, BoundInv
<1>2. 1 .. latest \subseteq 1 .. MaxSecrets /\ latest + 1 \notin 1 .. latest
  BY <1>1
<1> QED
  BY <1>2 DEF BoundInv, Versions, Mounted

\* Every search head already runs the tokens that the loop gives it.
LEMMA RotatedMembers ==
  ASSUME KeysInv, BookInv, Rotated, RotateMembers
  PROVE  Rotated'
<1>1. PICK i \in Ordinals :
        MemberMissing(i) \/ \E t \in Tokens : MemberMatches(i, t) \/ SkipMember(i, t) \/ ChangeMember(i, t)
  BY DEF RotateMembers
<1>2. walk.step = "members" /\ walk.want = ns /\ walk \in Walks
  BY <1>1 DEF MemberMissing, MemberMatches, SkipMember, ChangeMember, Mismatch, At, Rotated, BookInv
<1>3. CASE MemberMissing(i)
  BY <1>3, RotatedStops DEF MemberMissing
<1>4. /\ NextMember.step = "members" /\ NextMember.want = walk.want
      /\ \A t \in Tokens : NextToken(t).step = "members" /\ NextToken(t).want = walk.want
  BY <1>2 DEF NextToken, NextMember, Walks
<1>5. ASSUME NEW t \in Tokens, MemberMatches(i, t) \/ SkipMember(i, t)
      PROVE  Rotated'
  BY <1>2, <1>4, <1>5, RotatedGoesOn DEF MemberMatches, SkipMember
<1>6. ASSUME NEW t \in Tokens, ChangeMember(i, t)
      PROVE  Rotated'
  <2>1. CASE StopWith("Error", mem)
    BY <2>1, RotatedStops
  <2>2. CASE ~ StopWith("Error", mem)
    <3>1. /\ pods[i].state = "ready"
          /\ run' = [run EXCEPT ![i][t] = ns[t]]
          /\ \E m : RotateTo(m, NextToken(t))
      BY <1>2, <1>6, <2>2 DEF ChangeMember, Authorized
    <3>2. run[i] = ns
      BY <3>1 DEF Rotated
    <3>3. run' = run
      BY <3>1, <3>2 DEF KeysInv
    <3> QED
      BY <1>2, <1>4, <3>1, <3>3, RotatedGoesOn
  <2> QED
    BY <2>1, <2>2
<1> QED
  BY <1>1, <1>3, <1>5, <1>6

LEMMA RotatedRewrite ==
  ASSUME TypeOK, BoundInv, KeysInv, BookInv, Rotated, RewriteVersion
  PROVE  Rotated'
<1>1. CASE StopWith("Error", mem)
  BY <1>1, RotatedStops
<1>2. CASE ~ StopWith("Error", mem)
  <2>1. PICK v : /\ data' = [data EXCEPT ![v].admin = walk.want.admin]
                 /\ UNCHANGED vars \/ RewriteSecret
                 /\ walk' = [walk EXCEPT !.left = @ \ {v}]
                 /\ UNCHANGED <<ns, run>>
    BY <1>2 DEF RewriteVersion
  <2>2. /\ pods' = pods /\ walk'.want = ns' /\ walk'.step = "rewrite" /\ walk.want = ns
    BY <2>1 DEF RewriteVersion, Rotated, RewriteSecret, vars, kubeVars, BookInv, Walks
  <2>3. \A u \in Versions : data[u].admin = ns.admin => data'[u] = data[u]
    <3> SUFFICES ASSUME NEW u \in Versions, data[u].admin = ns.admin
                 PROVE  data'[u] = data[u]
      OBVIOUS
    <3>1. u # v => data'[u] = data[u]
      BY <2>1 DEF KeysInv
    <3>2. u = v => [data[u] EXCEPT !.admin = ns.admin] = data[u]
      BY DEF KeysInv, Tokens
    <3> QED
      BY <2>1, <2>2, <3>1, <3>2 DEF KeysInv
  <2> QED
    BY <2>1, <2>2, <2>3, MountsVersions DEF Rotated, Mounted
<1> QED
  BY <1>1, <1>2

LEMMA RotatedOperator ==
  ASSUME TypeOK, KeysInv, BookInv, BoundInv, Rotated, Operator
  PROVE  Rotated'
<1> USE DEF kubeVars
<1>0. walk \in Walks /\ (pc = "idle" => walk = NoWalk) /\ Shape(walk, mem)
  BY DEF BookInv
<1>1. CASE Start
  <2>1. /\ UNCHANGED <<pods, ns, run, walk>>
        /\ data' = data \/ data' = [data EXCEPT ![latest + 1] = ns]
    BY <1>1 DEF Start, StartReconcile, ApplyVersionedSecret, Build
  <2>2. \A i \in Ordinals : pods[i].state # "absent" => data'[Mounted(i)] = data[Mounted(i)]
    BY <2>1, MountsVersions DEF KeysInv
  <2> QED
    BY <2>1, <2>2 DEF Rotated, Mounted
<1>2. CASE Create \/ Apply
  <2>1. UNCHANGED <<pods, ns, data, run>>
    BY <1>2 DEF Create, Apply, CreateStatefulSet, UpdateTemplate, KeepTemplate
  <2>2. walk' = NoWalk \/ walk' = [walk EXCEPT !.step = "revision"]
    BY <1>2 DEF Create, Apply, Have
  <2>3. walk'.step \in {"apply", "revision"}
    BY <1>0, <2>2 DEF NoWalk, Walks
  <2> QED
    BY <2>1, <2>3, RotatedKept DEF WalkRotated
<1>3. CASE CheckRevision
  <2>1. CASE mem.rev = "old"
    <3>1. RotateTo(mem, [walk EXCEPT !.step = "members", !.want = ns]) /\ run' = run
      BY <1>3, <2>1 DEF CheckRevision
    <3>2. UNCHANGED <<pods, ns, data>> /\ walk'.step = "members" /\ walk'.want = ns'
      BY <1>0, <3>1 DEF RotateTo, vars, Walks
    <3> QED
      BY <3>1, <3>2, RotatedKept DEF WalkRotated
  <2>2. CASE mem.rev # "old"
    <3>1. /\ RotateTo([mem EXCEPT !.rev = "seen"], [walk EXCEPT !.step = "status"])
          /\ run' = run /\ walk.step = "revision"
      BY <1>3, <2>2 DEF CheckRevision
    <3> QED
      BY <1>0, <3>1, RotatedGoesOn DEF Walks
  <2> QED
    BY <2>1, <2>2
<1>4. CASE RotateMembers
  BY <1>4, RotatedMembers
<1>5. CASE MembersChanged
  <2>1. /\ RotateTo(mem, [walk EXCEPT !.step = "rewrite", !.left = mem.rewrite])
        /\ run' = run /\ walk.step = "members"
    BY <1>5 DEF MembersChanged
  <2> QED
    BY <1>0, <2>1, RotatedGoesOn DEF Walks
<1>6. CASE RewriteVersion
  BY <1>6, RotatedRewrite
<1>7. CASE VersionsRewritten
  <2>1. RotateTo(mem, [walk EXCEPT !.step = "status"]) /\ run' = run /\ walk.step = "rewrite"
    BY <1>7 DEF VersionsRewritten
  <2> QED
    BY <1>0, <2>1, RotatedGoesOn DEF Walks
<1>8. CASE UpdateStatus
  <2>1. \/ /\ RotateTo(mem, [walk EXCEPT !.step = "pods"]) /\ run' = run
           /\ walk.step = "status"
        \/ StopWith("Pending", mem)
    BY <1>8 DEF UpdateStatus
  <2>2. CASE StopWith("Pending", mem)
    BY <2>2, RotatedStops
  <2> QED
    BY <1>0, <2>1, <2>2, RotatedGoesOn DEF Walks
<1>9. CASE ManagePods \/ AllReady
  <2>1. UNCHANGED <<ns, data, run>> /\ walk' \in {walk, NoWalk}
    BY <1>9 DEF ManagePods, AllReady, Have
  <2>2. pods' \in {pods, [pods EXCEPT ![ord].deleting = TRUE]}
    BY <1>9 DEF ManagePods, AllReady, WaitForReplicas, ScaleUp, NoScaling, WaitForPod,
       DeleteClaim, ClaimNotFound, ClaimsDeleted, ScaleDown, RecyclePod, FinishPod,
       RemoveUnwantedSecrets
  <2>3. \A i \in Ordinals : /\ pods'[i].state = pods[i].state /\ pods'[i].rev = pods[i].rev
                            /\ pods[i].deleting => pods'[i].deleting
    BY <2>2 DEF TypeOK, Pods
  <2>4. WalkRotated'
    BY <2>1 DEF WalkRotated, Rotated, NoWalk
  <2> QED
    BY <2>1, <2>3, <2>4, RotatedKept
<1> QED
  BY <1>1, <1>2, <1>3, <1>4, <1>5, <1>6, <1>7, <1>8, <1>9 DEF Operator

\* The user changes the secret of a cluster that has forgotten the last change.
LEMMA RotatedEdited ==
  ASSUME RolloutInv, KeysInv, BookInv, BoundInv, SeenInv, Rotated, EditSecret, PatientUser,
         AfterTheLast, ns' # ns, ns' \in [Tokens -> Keys]
  PROVE  Before'
<1>1. /\ Converged /\ UNCHANGED <<cr, sts, pods, data, run>> /\ pc' = pc
      /\ status' = [status EXCEPT !.rev = IF @ = "seen" THEN "old" ELSE @]
      /\ mem' = [mem EXCEPT !.rev = IF @ = "seen" THEN "old" ELSE @]
      /\ walk' = [walk EXCEPT !.nsRead = IF pc = "idle" THEN @ ELSE "old"]
  BY DEF EditSecret, EditNamespaceSecret, Edit, kubeVars, opVars
<1>2. Settled /\ sts.template = Wants /\ sts.replicas = Wanted /\ ~ nsChanged
  BY <1>1, ConvergedSettled DEF RolloutInv
<1>3. 0 \in Ordinals /\ 0 < sts.replicas
  BY <1>2, ReplicasAssumption DEF Wanted, Ordinals, RolloutInv, RoundInv, PodsInv, TypeOK
<1>4. AllRun(pods[0].rev) /\ Mounted(0) = latest
  <2>1. pods[0].rev = sts.template
    BY <1>2, <1>3 DEF Settled, AllRun
  <2> QED
    BY <1>2, <2>1 DEF Settled, Mounted, Wants
<1>5. Old = ns
  <2>1. latest # 0
    BY <1>2 DEF RolloutInv, RoundInv, PodsInv, VersionInv
  <2> QED
    BY <1>2, <1>4, <2>1 DEF KeysInv, Old
<1>6. Outstanding' /\ Old' = ns
  BY <1>1, <1>2, <1>4, <1>5 DEF Outstanding, Settled, AllRun, Wanted, Old, Mounted
<1>7. \A i \in Ordinals : i < sts'.replicas => run'[i] = Old'
  <2>1. \A i \in Ordinals : i < sts.replicas => pods[i].state = "ready"
    BY <1>2 DEF Settled, AllRun
  <2> QED
    BY <1>1, <1>6, <2>1 DEF Rotated
<1>8. \A m \in {mem', status'} : Cleared(m) /\ m.rev = "old"
  <2>1. \A m \in {mem, status} : Cleared(m) /\ m.rev # "none" /\ m \in Statuses
    BY <1>1 DEF SeenInv, Converged, AfterTheLast, BookInv
  <2> QED
    BY <1>1, <2>1 DEF Cleared, Statuses
<1>9. ASSUME walk'.step \notin {"apply", "revision"}
      PROVE  /\ walk'.want # ns' /\ walk'.nsRead = "old" /\ walk'.left = {}
             /\ walk'.step \in {"members", "rewrite"} => walk'.want = Old'
             /\ Settled'
  <2>1. /\ walk'.step = walk.step /\ walk'.want = walk.want /\ walk'.left = walk.left
        /\ walk'.nsRead = IF pc = "idle" THEN walk.nsRead ELSE "old"
    BY <1>1 DEF BookInv, Walks
  <2>2. pc # "idle"
    BY <1>9, <2>1 DEF BookInv, NoWalk
  <2>3. walk.step \in {"members", "rewrite", "status", "pods"}
    BY <1>9, <2>1 DEF BookInv, Walks
  <2>4. NoKeys # ns' /\ walk.want \in {ns, NoKeys}
    <3>1. "shc" \in Tokens /\ NoKeys["shc"] = 0 /\ ns'["shc"] # 0
      BY DEF NoKeys, Tokens, Keys
    <3> QED
      BY <2>3, <3>1 DEF Rotated
  <2>5. walk.left = {}
    BY DEF AfterTheLast, Cleared, BookInv, Shape
  <2>6. Settled'
    BY <1>1, <1>2 DEF Settled, AllRun
  <2> QED
    BY <1>6, <2>1, <2>2, <2>3, <2>4, <2>5, <2>6 DEF Rotated
<1> QED
  BY <1>6, <1>7, <1>8, <1>9 DEF Before

LEMMA RotatedStep ==
  ASSUME RolloutInv, KeysInv, BookInv, BoundInv, SeenInv, Rotated, KeysInv', PatientUser,
         MaxFaults = 0, RotationNext, AfterTheLast
  PROVE  Rotated' \/ Before'
<1> USE DEF kubeVars
<1>0. TypeOK /\ WalkRotated
  BY DEF RolloutInv, RoundInv, PodsInv, Rotated, WalkRotated
<1>1. CASE Operator
  BY <1>0, <1>1, RotatedOperator
<1>2. CASE EditSecret
  <2>1. CASE ns' = ns
    <3>1. UNCHANGED <<pods, data, run>> /\ walk'.step = walk.step /\ walk'.want = walk.want
      BY <1>2 DEF EditSecret, EditNamespaceSecret, BookInv, Walks
    <3> QED
      BY <1>0, <2>1, <3>1, RotatedKept DEF WalkRotated
  <2>2. CASE ns' # ns
    <3>1. ns' \in [Tokens -> Keys]
      BY DEF KeysInv
    <3> QED
      BY <1>2, <2>2, <3>1, RotatedEdited
  <2> QED
    BY <2>1, <2>2
<1>3. CASE Elsewhere
  <2>1. UNCHANGED <<ns, data, run, walk>> /\ WalkRotated'
    BY <1>0, <1>3 DEF Elsewhere, rotVars, WalkRotated
  <2>2. CASE EditResource
    BY <2>1, <2>2, RotatedKept DEF EditResource
  <2>3. CASE SyncStatefulSet
    <3>1. ASSUME NEW i \in MissingPods
          PROVE  data[sts.template.secret] = ns
      <4>1. i \in Ordinals /\ i < sts.replicas /\ pods[i].state = "absent"
        BY DEF MissingPods
      <4>2. ~ Settled
        BY <4>1 DEF Settled, AllRun
      <4>3. ~ nsChanged /\ sts.template = Wants
        BY <2>3, <4>2 DEF SyncStatefulSet, RolloutInv, RoundInv, ChangeInv
      <4>4. latest # 0
        BY <4>3 DEF RolloutInv, RoundInv, PodsInv, VersionInv
      <4> QED
        BY <4>3, <4>4 DEF KeysInv, Wants
    <3>2. ASSUME NEW i \in Ordinals
          PROVE  IF i \in MissingPods
                 THEN pods'[i] = [state |-> "unready", deleting |-> FALSE, rev |-> sts.template]
                 ELSE /\ pods'[i].state = pods[i].state /\ pods'[i].rev = pods[i].rev
                      /\ pods[i].deleting => pods'[i].deleting
      <4>1. pods[i] \in Pods
        BY <1>0 DEF TypeOK
      <4>2. CASE i \in MissingPods
        BY <2>3, <4>2 DEF SyncStatefulSet
      <4>3. CASE i \notin MissingPods
        <5>1. pods'[i] = [pods[i] EXCEPT !.deleting = @ \/ i \in SurplusPods]
          BY <2>3, <4>3 DEF SyncStatefulSet
        <5> QED
          BY <4>1, <4>3, <5>1 DEF Pods
      <4> QED
        BY <4>2, <4>3
    <3>3. ASSUME NEW i \in Ordinals, pods'[i].state # "absent"
          PROVE  /\ data'[Mounted(i)'].admin = ns'.admin
                 /\ pods'[i].state = "ready" => run'[i] = ns'
                 /\ pods'[i].state = "unready" => pods'[i].deleting \/ data'[Mounted(i)'] = ns'
      <4>1. CASE i \in MissingPods
        BY <2>1, <3>1, <3>2, <4>1 DEF Mounted
      <4>2. CASE i \notin MissingPods
        BY <2>1, <3>2, <3>3, <4>2 DEF Mounted, Rotated
      <4> QED
        BY <4>1, <4>2
    <3> QED
      BY <2>1, <3>3 DEF Rotated, WalkRotated
  <2> QED
    BY <1>3, <2>2, <2>3 DEF Elsewhere
<1>4. ASSUME NEW i \in Ordinals, SplunkStarted(i)
      PROVE  Rotated'
  <2>1. /\ pods[i].state = "unready" /\ ~ pods[i].deleting
        /\ pods' = [pods EXCEPT ![i].state = "ready"]
        /\ run' = [run EXCEPT ![i] = data[Mounted(i)]]
        /\ UNCHANGED <<ns, data, walk>>
    BY <1>0, <1>4 DEF SplunkStarted, PodStarted, SetPod, TypeOK
  <2>2. data[Mounted(i)] = ns
    BY <2>1 DEF Rotated
  <2>3. pods'[i].state = "ready" /\ pods'[i].rev = pods[i].rev /\ run'[i] = ns
    BY <1>0, <2>1, <2>2 DEF TypeOK, Pods, KeysInv
  <2>4. \A j \in Ordinals : j # i => pods'[j] = pods[j] /\ run'[j] = run[j]
    BY <1>0, <2>1 DEF TypeOK, KeysInv
  <2> QED
    BY <2>1, <2>2, <2>3, <2>4 DEF Rotated, Mounted
<1>5. ASSUME NEW i \in Ordinals, PodsGo(i)
      PROVE  Rotated'
  <2>1. UNCHANGED <<ns, data, walk>> /\ run' = Running /\ pods[i].deleting
    BY <1>5 DEF PodsGo, PodStopped, PodGone
  <2>2. \A j \in Ordinals : j # i => pods'[j] = pods[j]
    BY <1>0, <1>5 DEF PodsGo, PodStopped, PodGone, SetPod, TypeOK
  <2>3. NoPod.state = "absent"
    BY DEF NoPod
  <2>4. \A p : SetPod(i, p) => pods'[i] = p
    BY <1>0 DEF SetPod, TypeOK
  <2>5. \/ pods'[i].state = "absent"
        \/ /\ pods'[i].state = "unready" /\ pods'[i].deleting /\ pods'[i].rev = pods[i].rev
           /\ pods[i].state # "absent"
    BY <1>0, <1>5, <2>3, <2>4 DEF PodsGo, PodStopped, PodGone, TypeOK, Pods
  <2>6. \A j \in Ordinals : pods'[j].state = "ready" => run'[j] = run[j]
    BY <2>1 DEF Running
  <2> QED
    BY <2>1, <2>2, <2>5, <2>6 DEF Rotated, Mounted
<1>6. ~ (Fails \/ Crashes \/ \E i \in Ordinals : ChangeForgotten(i))
  BY <1>0, NothingFails DEF Fails, Crashes, ChangeForgotten, Failure
<1> QED
  BY <1>1, <1>2, <1>3, <1>4, <1>5, <1>6 DEF RotationNext

-----------------------------------------------------------------------------
(***************************************************************************)
(* The invariant                                                           *)
(***************************************************************************)

LEMMA SeenKept ==
  ASSUME SeenInv, phase' = "Ready" => phase = "Ready", NEW m, NEW w, Have(m, w),
         mem.rev # "none" => m.rev # "none"
  PROVE  SeenInv'
BY DEF SeenInv, Have

LEMMA SeenStops ==
  ASSUME SeenInv, NEW p \in {"Pending", "Error"}, StopWith(p, mem)
  PROVE  SeenInv'
<1>1. phase' = "Ready" => phase = "Ready"
  BY DEF StopWith, Finish, End
<1> QED
  BY <1>1, SeenKept DEF StopWith

LEMMA SeenGoesOn ==
  ASSUME SeenInv, NEW m, NEW w, RotateTo(m, w), mem.rev # "none" => m.rev # "none"
  PROVE  SeenInv'
BY DEF SeenInv, RotateTo, vars

LEMMA SeenStep ==
  ASSUME TypeOK, BookInv, SeenInv, MaxFaults = 0, RotationNext
  PROVE  SeenInv'
<1>0. /\ mem \in Statuses /\ status \in Statuses
      /\ [mem EXCEPT !.rev = IF @ = "none" THEN "seen" ELSE @].rev # "none"
      /\ [mem EXCEPT !.rev = "seen"].rev # "none"
  BY DEF BookInv, Statuses
<1>1. CASE Start
  BY <1>1 DEF Start, StartReconcile, Build, SeenInv
<1>2. CASE Create
  <2>1. phase' = "Ready" => phase = "Ready"
    BY <1>2 DEF Create, CreateStatefulSet, Finish, End
  <2> QED
    BY <1>0, <1>2, <2>1, SeenKept DEF Create
<1>3. CASE Apply
  <2>1. phase' = "Ready" => phase = "Ready"
    BY <1>3 DEF Apply, UpdateTemplate, KeepTemplate, GoTo, Finish, End
  <2> QED
    BY <1>3, <2>1, SeenKept DEF Apply
<1>4. CASE CheckRevision
  BY <1>0, <1>4, SeenGoesOn DEF CheckRevision
<1>5. CASE RotateMembers
  <2>1. PICK i \in Ordinals :
          MemberMissing(i) \/ \E t \in Tokens : MemberMatches(i, t) \/ SkipMember(i, t) \/ ChangeMember(i, t)
    BY <1>5 DEF RotateMembers
  <2>2. CASE MemberMissing(i) \/ \E t \in Tokens : MemberMatches(i, t) \/ SkipMember(i, t)
    BY <2>2, SeenStops, SeenGoesOn DEF MemberMissing, MemberMatches, SkipMember
  <2>3. ASSUME NEW t \in Tokens, ChangeMember(i, t)
        PROVE  SeenInv'
    <3> DEFINE m == [Flag(mem, i, t) EXCEPT
                       !.rewrite = IF t = "admin" THEN @ \union {Mounted(i)} ELSE @]
    <3>1. Flag(mem, i, t) \in Statuses /\ Flag(mem, i, t).rev = mem.rev
      BY <1>0, FlagTypes
    <3>2. m.rev = mem.rev
      BY <3>1 DEF Statuses
    <3>3. StopWith("Error", mem) \/ RotateTo(m, NextToken(t))
      BY <2>3 DEF ChangeMember
    <3> HIDE DEF m
    <3> QED
      BY <3>2, <3>3, SeenStops, SeenGoesOn
  <2> QED
    BY <2>1, <2>2, <2>3
<1>6. CASE MembersChanged \/ VersionsRewritten
  BY <1>6, SeenGoesOn DEF MembersChanged, VersionsRewritten
<1>7. CASE RewriteVersion
  <2>1. \/ StopWith("Error", mem)
        \/ UNCHANGED <<status, mem>> /\ (UNCHANGED vars \/ RewriteSecret)
    BY <1>7 DEF RewriteVersion
  <2> QED
    BY <2>1, SeenStops DEF SeenInv, RewriteSecret, vars
<1>8. CASE UpdateStatus
  BY <1>8, SeenStops, SeenGoesOn DEF UpdateStatus
<1>9. CASE ManagePods
  <2>1. phase' = "Ready" => phase = "Ready"
    BY <1>9 DEF ManagePods, WaitForReplicas, ScaleUp, NoScaling, WaitForPod, DeleteClaim,
       ClaimNotFound, ClaimsDeleted, ScaleDown, RecyclePod, FinishPod, GoTo, Finish, End
  <2> QED
    BY <1>9, <2>1, SeenKept DEF ManagePods
<1>10. CASE AllReady
  <2> DEFINE m == [rev |-> walk.nsRead, flags |-> [t \in Tokens |-> << >>], rewrite |-> {}]
  <2>1. m.rev # "none"
    BY DEF BookInv, Walks
  <2>2. Have(m, NoWalk) /\ pc' = "idle" /\ phase' = IF fresh THEN "Ready" ELSE phase
    BY <1>10 DEF AllReady, RemoveUnwantedSecrets, Finish, End
  <2> HIDE DEF m
  <2> QED
    BY <2>1, <2>2 DEF Have, SeenInv
<1>11. CASE EditSecret
  <2>1. phase' = phase /\ mem' = [mem EXCEPT !.rev = IF @ = "seen" THEN "old" ELSE @]
        /\ status' = [status EXCEPT !.rev = IF @ = "seen" THEN "old" ELSE @]
    BY <1>11 DEF EditSecret, EditNamespaceSecret
  <2> QED
    BY <1>0, <2>1 DEF SeenInv, Statuses
<1>12. CASE Elsewhere \/ \E i \in Ordinals : SplunkStarted(i) \/ PodsGo(i)
  BY <1>12 DEF Elsewhere, SyncStatefulSet, EditResource, SplunkStarted, PodsGo, PodStarted,
     PodStopped, PodGone, SetPod, rotVars, SeenInv
<1>13. ~ (Fails \/ Crashes \/ \E i \in Ordinals : ChangeForgotten(i))
  BY NothingFails DEF Fails, Crashes, ChangeForgotten, Failure
<1> QED
  BY <1>1, <1>2, <1>3, <1>4, <1>5, <1>6, <1>7, <1>8, <1>9, <1>10, <1>11, <1>12, <1>13
  DEF RotationNext, Operator

LEMMA LoginInit == RotationInit => LoginInv
<1> SUFFICES ASSUME RotationInit PROVE LoginInv
  OBVIOUS
<1>1. status \in Statuses
  <2>1. << >> \in Seq(BOOLEAN)
    OBVIOUS
  <2> QED
    BY <2>1 DEF RotationInit, Statuses
<1>2. BookInv
  BY <1>1, FreshWalk DEF RotationInit, Init, BookInv, NoWalk, Early
<1>3. KeysInv
  BY RotationAssumption DEF RotationInit, Init, KeysInv, Keys, NoKeys
<1>4. \A i \in Ordinals : pods[i].state = "absent"
  BY DEF RotationInit, Init, NoPod
<1>5. BoundInv
  BY <1>4, RotationAssumption DEF RotationInit, Init, BoundInv
<1>6. SeenInv /\ Rotated
  BY <1>4 DEF RotationInit, Init, SeenInv, Rotated, NoWalk
<1> QED
  BY <1>2, <1>3, <1>5, <1>6 DEF LoginInv, CourseInv

LEMMA LoginStutters ==
  ASSUME LoginInv, UNCHANGED shcVars
  PROVE  LoginInv'
<1>1. UNCHANGED <<cr, nsChanged, secrets, latest, sts, pods, phase, pc>>
      /\ UNCHANGED <<ns, data, run, status, mem, walk>>
  BY DEF shcVars, vars, rotVars, crVars, kubeVars, secretVars, opVars
<1>2. BookInv' /\ KeysInv' /\ BoundInv' /\ SeenInv'
  BY <1>1 DEF LoginInv, BookInv, Shape, KeysInv, BoundInv, SeenInv
<1>3. Rotated => Rotated'
  BY <1>1 DEF Rotated, Mounted
<1>4. /\ Outstanding => Outstanding' /\ Old' = Old /\ Mounted(0)' = Mounted(0)
      /\ Settled' <=> Settled
  BY <1>1, OutstandingKept DEF Settled, AllRun
<1>5. Before => Before'
  BY <1>1, <1>4 DEF Before, Cleared
<1>6. During => During'
  BY <1>1, <1>4 DEF During, Done
<1> QED
  BY <1>2, <1>3, <1>5, <1>6 DEF LoginInv, CourseInv

LEMMA LoginStep ==
  ASSUME RolloutInv, WhereInv, LoginInv, PatientUser, MaxFaults = 0, RotationNext,
         [AfterTheLast]_shcVars
  PROVE  LoginInv'
<1>0. TypeOK /\ secrets \subseteq Versions
  <2>1. TypeOK /\ latest \in Nat /\ MaxSecrets \in Nat /\ latest <= MaxSecrets
    BY RotationAssumption DEF RolloutInv, RoundInv, PodsInv, TypeOK, LoginInv, BoundInv
  <2>2. 1 .. latest \subseteq 1 .. MaxSecrets
    BY <2>1
  <2> QED
    BY <2>1, <2>2 DEF LoginInv, BoundInv, Versions
<1>1. BookInv' /\ KeysInv' /\ BoundInv' /\ SeenInv'
  BY <1>0, BookStep, KeysStep, BoundStep, SeenStep DEF LoginInv
<1>2. AfterTheLast
  BY DEF AfterTheLast, shcVars, rotVars
<1>3. CourseInv'
  <2>1. CASE Rotated
    BY <1>1, <1>2, <2>1, RotatedStep DEF LoginInv, CourseInv
  <2>2. CASE Before
    BY <2>2, BeforeStep DEF LoginInv, CourseInv
  <2>3. CASE During
    BY <2>3, DuringStep DEF LoginInv, CourseInv
  <2> QED
    BY <2>1, <2>2, <2>3 DEF LoginInv, CourseInv
<1> QED
  BY <1>1, <1>3 DEF LoginInv

\* In a cluster whose user changes the namespace secret after the last change is rolled out
\* and forgotten, each change follows its course, when nothing fails.
THEOREM LoginInvariant ==
  ASSUME PatientUser, MaxFaults = 0
  PROVE  RotationSpec /\ [][AfterTheLast]_shcVars => [](RolloutInv /\ LoginInv)
<1>1. RotationSpec => []RolloutInv
  BY ShcRotationImplementsPods, RolloutInvariant, PTL DEF ImplementsPods
<1>2. RotationSpec => []WhereInv
  BY WalkInit, WalkStep, PTL DEF RotationSpec
<1>3. RolloutInv /\ WhereInv /\ LoginInv /\ [RotationNext]_shcVars /\ [AfterTheLast]_shcVars
      => LoginInv'
  BY LoginStep, LoginStutters
<1> QED
  BY <1>1, <1>2, <1>3, LoginInit, PTL DEF RotationSpec

LEMMA RotatedLogsIn ==
  ASSUME RolloutInv, LoginInv, walk.step = "status", walk.want = ns
  PROVE  LoggedIn
<1>1. Rotated /\ pc \in {"apply", "scale"}
  BY DEF LoginInv, CourseInv, Before, During, BookInv, Early
<1>2. ASSUME NEW i \in Ordinals, i < req.replicas, pods[i].state = "ready"
      PROVE  Authorized(i) /\ run[i] = ns
  <2>1. i < sts.replicas
    <3>1. sts.replicas \in Int /\ i \in Int /\ req.replicas \in Int /\ Wanted \in Int
      BY ReplicasAssumption
      DEF RolloutInv, RoundInv, PodsInv, TypeOK, StatefulSets, Ordinals, Wanted
    <3>2. i >= sts.replicas => sts.replicas >= Wanted
      BY <1>2 DEF RolloutInv, DepartInv
    <3>3. req.replicas \in {Wanted, sts.replicas}
      BY <1>1 DEF RolloutInv, RoundInv, ChangeInv, Current, Idling
    <3> QED
      BY <1>2, <3>1, <3>2, <3>3
  <2>2. Mounted(i) \in secrets
    BY <1>2, <2>1 DEF RolloutInv, MountInv, InUse, Mounted
  <2> QED
    BY <1>1, <1>2, <2>2 DEF Rotated, Authorized, HasSecret
<1> QED
  BY <1>2 DEF LoggedIn

\* When ApplyShcSecret is done with a change, the operator can log in to every search head,
\* and each has the new shc_secret: for every number of search heads, changes and versions,
\* when nothing fails, and the next change comes after the last is forgotten.
THEOREM LoggedInCorrect ==
  ASSUME PatientUser, MaxFaults = 0
  PROVE  RotationSpec /\ [][AfterTheLast]_shcVars => []LoggedIn
<1>1. RolloutInv /\ LoginInv => LoggedIn
  BY RotatedLogsIn DEF LoggedIn
<1> QED
  BY <1>1, LoginInvariant, PTL

LEMMA OnlyTheseChangeData ==
  ASSUME RotationNext, data' # data
  PROVE  Start \/ RewriteVersion
BY DEF RotationNext, Operator, Create, Apply, CheckRevision, RotateMembers, MemberMissing,
       MemberMatches, SkipMember, ChangeMember, RotateTo, StopWith, MembersChanged,
       VersionsRewritten, UpdateStatus, ManagePods, AllReady, EditSecret, Elsewhere, rotVars,
       Fails, Crashes, SplunkStarted, PodsGo, ChangeForgotten

LEMMA NobodyLockedOut ==
  ASSUME RolloutInv, LoginInv, RotationNext, data' # data, NEW i \in Ordinals, Authorized(i)
  PROVE  Authorized(i)'
<1>0. /\ TypeOK /\ data \in [Versions -> [Tokens -> {0} \union Keys]]
      /\ pods[i].state = "ready" /\ Mounted(i) \in secrets
  BY DEF RolloutInv, RoundInv, PodsInv, LoginInv, KeysInv, Authorized, HasSecret
<1>1. CASE Start
  <2>1. UNCHANGED <<pods, run>> /\ secrets \subseteq secrets'
        /\ data' \in {data, [data EXCEPT ![latest + 1] = ns]}
    BY <1>1 DEF Start, StartReconcile, ApplyVersionedSecret, Build, kubeVars, secretVars
  <2>2. data'[Mounted(i)] = data[Mounted(i)]
    BY <1>0, <2>1, MountsVersions DEF LoginInv
  <2> QED
    BY <1>0, <2>1, <2>2 DEF Authorized, HasSecret, Mounted
<1>2. CASE RewriteVersion
  <2>1. UNCHANGED <<pods, secrets>>
    BY <1>2 DEF RewriteVersion, RewriteSecret, StopWith, vars, kubeVars, secretVars
  <2>2. Rotated'
    <3>1. ~ Before /\ ~ MembersChanged
      BY <1>2 DEF RewriteVersion, Before, MembersChanged
    <3> QED
      BY <1>0, <1>2, <3>1, RotatedRewrite, DuringRewrite DEF LoginInv, CourseInv
  <2>3. pods'[i].state = "ready" /\ Mounted(i)' = Mounted(i)
    BY <1>0, <2>1 DEF Mounted
  <2>4. run'[i] = ns' /\ data'[Mounted(i)'].admin = ns'.admin
    BY <2>2, <2>3 DEF Rotated
  <2> QED
    BY <1>0, <2>1, <2>3, <2>4 DEF Authorized, HasSecret
<1> QED
  BY <1>1, <1>2, OnlyTheseChangeData

\* Rewriting a version that pods mount locks the operator out of no search head.
THEOREM NoLockOutCorrect ==
  ASSUME PatientUser, MaxFaults = 0
  PROVE  RotationSpec /\ [][AfterTheLast]_shcVars => NoLockOut
<1>1. RolloutInv /\ LoginInv /\ [RotationNext]_shcVars
      => [faults' = 0 /\ data' # data
          => \A i \in Ordinals : Authorized(i) => Authorized(i)']_shcVars
  BY NobodyLockedOut
<1> QED
  BY <1>1, LoginInvariant, PTL DEF RotationSpec, NoLockOut
=============================================================================
