------------------------------ MODULE Namespace ------------------------------
(***************************************************************************)
(* What the custom resources of one namespace share: the namespace secret, *)
(* the ConfigMap with the URLs of all instances, and the monitoring        *)
(* console whose pod gets them (ApplyMonitoringConsole), and what happens  *)
(* to them, and to its claims, when a resource is deleted.                 *)
(*                                                                         *)
(* There is one worker for each kind of resource.  They change the shared  *)
(* objects with an Update that is refused when the object has changed      *)
(* since it was read.                                                      *)
(***************************************************************************)
EXTENDS Integers, FiniteSets, SequencesExt

CONSTANTS
  SearchHeadClusters, ClusterMasters,   \* the resources
  Multisite,    \* cluster masters that say they have several sites
  Namespaces,   \* the sets of resources that a namespace may have
  Sizes,        \* values of replicas of a search head cluster
  MaxFaults,    \* bound: API errors and crashes
  MaxEvents     \* bound: these, and how often the user changes or deletes a resource

Resources == SearchHeadClusters \union ClusterMasters
Workers   == {"SearchHeadCluster", "ClusterMaster"}

ASSUME NamespaceAssumption ==
  /\ SearchHeadClusters \intersect ClusterMasters = {}
  /\ "site0" \notin Resources
  /\ Multisite \subseteq ClusterMasters
  /\ Namespaces \subseteq SUBSET Resources
  /\ Sizes \subseteq Nat \ {0} /\ 1 \in Sizes
  /\ MaxEvents \in Nat /\ MaxFaults \in Nat

VARIABLES
  life,      \* of each resource: deletion may be requested
  size,      \* its replicas
  fresh,     \* nobody changed it since its worker read it
  pods,      \* its pods: they were never all ready, they are not now, they are, they became
             \* so after its deletion was requested
  claims,    \* its volume claims, by component
  resized,   \* history: replicas was changed after the resource was created
  secret,    \* the namespace secret
  urls,      \* the ConfigMap: the URLs in each environment variable
  console,   \* the StatefulSet of the monitoring console
  queue,     \* resources with a request in the work queue
  at,        \* of each worker: its resource, its place in the reconcile, and whether what
             \* it read there has changed
  mem,       \* what it has read
  edits, faults

userVars == <<life, size, resized, edits>>
podVars  == <<pods, claims>>
sharedVars == <<secret, urls, console>>
vars == <<userVars, fresh, podVars, sharedVars, queue, at, mem, faults>>

EnvNames ==
  {"SPLUNK_SEARCH_HEAD_URL", "SPLUNK_SEARCH_HEAD_CAPTAIN_URL", "SPLUNK_DEPLOYER_URL",
   "SPLUNK_CLUSTER_MASTER_URL", "SPLUNK_SITE", "SPLUNK_MULTISITE_MASTER"}

NoUrls == [exists |-> FALSE, env |-> [e \in EnvNames |-> << >>]]
NoMem  == [size |-> 0, deleting |-> FALSE, env |-> NoUrls.env, failed |-> FALSE]
Idle   == [resource |-> "none", pc |-> "idle", stale |-> FALSE]

Worker(c) == IF c \in SearchHeadClusters THEN "SearchHeadCluster" ELSE "ClusterMaster"

\* DeleteSplunkPvc looks at the components in this order.
Components(c) ==
  IF c \in SearchHeadClusters THEN <<"search-head", "deployer">> ELSE <<"cluster-master">>

Ready(c) == pods[c] \in {"up", "late"}

\* Its StatefulSet follows its reference to the secret.
Created(c) == c \in secret.owners \/ pods[c] # "new"

Places ==
  {"idle", "own", "pods", "write", "create", "apply", "setowner",
   "undo", "claims", "finalizer"}

\* The object that a worker has read at these places, and means to write or to use.
Holds ==
  [own |-> "secret", undo |-> "secret", write |-> "urls", apply |-> "urls",
   setowner |-> "console"]

NamespaceTypeOK ==
  /\ life \in [Resources -> {"live", "deleting", "gone"}]
  /\ size \in [Resources -> Sizes] /\ resized \in [Resources -> BOOLEAN]
  /\ fresh \in [Resources -> BOOLEAN] /\ pods \in [Resources -> {"new", "down", "up", "late"}]
  /\ \A c \in Resources :
       /\ DOMAIN claims[c] = ToSet(Components(c))
       /\ Range(claims[c]) \subseteq {"none", "bound", "deleted"}
  /\ secret.exists \in BOOLEAN /\ secret.owners \subseteq Resources
  /\ DOMAIN urls.env = EnvNames
  /\ \A e \in EnvNames : IsInjective(urls.env[e])
  /\ console.exists \in BOOLEAN /\ console.owners \subseteq Resources
  /\ queue \subseteq Resources
  /\ \A k \in Workers :
       /\ at[k].pc \in Places
       /\ at[k].pc = "idle" <=> at[k] = Idle
       /\ at[k].pc = "idle" => mem[k] = NoMem
       /\ at[k].stale => at[k].pc \in DOMAIN Holds

NamespaceInit ==
  /\ queue \in Namespaces
  /\ life = [c \in Resources |-> IF c \in queue THEN "live" ELSE "gone"]
  /\ \E n \in Sizes : size = [c \in Resources |-> IF c \in queue \intersect SearchHeadClusters THEN n ELSE 1]
  /\ resized = [c \in Resources |-> FALSE]
  /\ fresh = [c \in Resources |-> TRUE]
  /\ pods = [c \in Resources |-> "new"]
  /\ claims = [c \in Resources |-> [x \in ToSet(Components(c)) |-> "none"]]
  /\ secret = [exists |-> FALSE, owners |-> {}]
  /\ urls = NoUrls
  /\ console = [exists |-> FALSE, owners |-> {}, current |-> FALSE]
  /\ at = [k \in Workers |-> Idle]
  /\ mem = [k \in Workers |-> NoMem]
  /\ edits = 0 /\ faults = 0

-----------------------------------------------------------------------------
(***************************************************************************)
(* The URLs of a resource, and how they get into the ConfigMap             *)
(***************************************************************************)

Url(c, component, i) == [resource |-> c, component |-> component, ordinal |-> i]

\* getSearchHeadEnv, getClusterMasterExtraEnv and what ApplyMonitoringConsole adds for
\* several sites: the variables of a resource, in order.
Variables(c, n) ==
  IF c \in SearchHeadClusters
  THEN <<[name |-> "SPLUNK_SEARCH_HEAD_URL",
          urls |-> [i \in 1 .. n |-> Url(c, "search-head", i - 1)]],
         [name |-> "SPLUNK_SEARCH_HEAD_CAPTAIN_URL", urls |-> <<Url(c, "search-head", 0)>>],
         [name |-> "SPLUNK_DEPLOYER_URL", urls |-> <<Url(c, "deployer", 0)>>]>>
  ELSE <<[name |-> "SPLUNK_CLUSTER_MASTER_URL", urls |-> <<Url(c, "cluster-master", 0)>>]>>
       \o IF c \notin Multisite THEN << >>
          ELSE <<[name |-> "SPLUNK_SITE", urls |-> <<Url("site0", "site", 0)>>],
                 [name |-> "SPLUNK_MULTISITE_MASTER", urls |-> <<Url(c, "cluster-master", 0)>>]>>

\* The elements of s at the positions I, in order.
Pick(s, I) ==
  [k \in 1 .. Cardinality(I) |-> s[CHOOSE i \in I : Cardinality({j \in I : j <= i}) = k]]

\* No URL is listed twice: the list is in one place at most.
Cut(s, list) ==
  LET starts == {i \in DOMAIN s : i + Len(list) - 1 <= Len(s)
                                  /\ \A j \in DOMAIN list : s[i + j - 1] = list[j]}
      start  == CHOOSE i \in starts : TRUE
  IN IF starts = {} THEN s ELSE Pick(s, {i \in DOMAIN s : i < start \/ i >= start + Len(list)})

\* Names of resources that are not part of each other, and URLs of equal length.
Count(s, c) == Cardinality({i \in DOMAIN s : s[i].resource = c})

\* Scaling down removes what is not among the new URLs; deletion removes the list of
\* URLs, where it is in one piece.
DeleteURLsConfigMap(env, c, new, deleteCR) ==
  [e \in EnvNames |->
     IF \A i \in DOMAIN new : new[i].name # e THEN env[e]
     ELSE LET list == (CHOOSE v \in ToSet(new) : v.name = e).urls
          IN IF deleteCR
             THEN IF e = "SPLUNK_SITE" THEN << >> ELSE Cut(env[e], list)
             ELSE Pick(env[e], {i \in DOMAIN env[e] :
                                  env[e][i].resource = c => env[e][i] \in ToSet(list)})]

\* Mutant: scaling up does not look for the URLs that are there.
AddURLsAgain(env, c, new) ==
  [e \in EnvNames |->
     IF \A i \in DOMAIN new : new[i].name # e THEN env[e]
     ELSE LET v == CHOOSE v \in ToSet(new) : v.name = e
          IN IF Count(env[e], c) < Len(v.urls) THEN env[e] \o v.urls ELSE env[e]]

\* The i-th variable, if there is one: it gets the URLs that it does not have yet.
AddVariable(acc, c, new, i) ==
  LET e    == new[i].name
      old  == acc.env[e]
      list == new[i].urls
  IN IF acc.done \/ i > Len(new) THEN acc
     ELSE IF old = << >> THEN [acc EXCEPT !.env[e] = list]
     ELSE IF Count(old, c) = Len(list) THEN [acc EXCEPT !.done = TRUE]
     ELSE IF Count(old, c) < Len(list)
     THEN [acc EXCEPT !.env[e] =
             old \o Pick(list, {j \in DOMAIN list : list[j] \notin ToSet(old)})]
     ELSE [acc EXCEPT !.env = DeleteURLsConfigMap(acc.env, c, new, FALSE)]

\* One variable after the other, of which there are three at most, up to the first that has
\* as many URLs of the resource as it should.
AddURLsConfigMap(env, c, new) ==
  LET first  == AddVariable([env |-> env, done |-> FALSE], c, new, 1)
      second == AddVariable(first, c, new, 2)
  IN AddVariable(second, c, new, 3).env

-----------------------------------------------------------------------------
(***************************************************************************)
(* Bookkeeping of a worker                                                 *)
(***************************************************************************)

\* Worker k goes on at p; it has written the objects in W, if any.
Move(k, p, W) ==
  at' = [v \in Workers |->
           IF v = k THEN p
           ELSE IF at[v].pc \in DOMAIN Holds /\ Holds[at[v].pc] \in W
           THEN [at[v] EXCEPT !.stale = TRUE]
           ELSE at[v]]

GoTo(k, l, W) == Move(k, [at[k] EXCEPT !.pc = l, !.stale = FALSE], W)

\* Its reconcile ends.
Stop(k, W) == Move(k, Idle, W) /\ mem' = [mem EXCEPT ![k] = NoMem]

End(k, requeue) ==
  /\ Stop(k, {})
  /\ queue' = IF requeue THEN queue \union {at[k].resource} ELSE queue

\* An event of a watched object wakes up its owners.
Wakes(S) == {c \in S : life[c] # "gone"}

\* What follows the RemoveSecretOwnerRef of a deletion: nothing, if the console failed.
AfterDisown(k, failed, woken, W) ==
  IF failed
  THEN Stop(k, W) /\ queue' = queue \union woken \union {at[k].resource}
  ELSE GoTo(k, "claims", W) /\ queue' = queue \union woken /\ UNCHANGED mem

\* The Get of RemoveSecretOwnerRef.
ReadOwners(k, failed, woken, W) ==
  IF at[k].resource \in secret.owners
  THEN /\ GoTo(k, "undo", W)
       /\ mem' = [mem EXCEPT ![k].env = NoUrls.env, ![k].failed = failed]
       /\ queue' = queue \union woken
  ELSE AfterDisown(k, failed, woken, W)

\* An error of ApplyMonitoringConsole; a search head cluster that is being deleted gives
\* up the secret all the same.
ConsoleFails(k) ==
  IF mem[k].deleting /\ k = "SearchHeadCluster" THEN ReadOwners(k, TRUE, {}, {}) ELSE End(k, TRUE)

(***************************************************************************)
(* ApplySplunkConfig and the StatefulSets                                  *)
(***************************************************************************)

\* The worker reads the resource, and the secret: ApplyNamespaceScopedSecretObject and the
\* Get of SetSecretOwnerRef.
Take(k) ==
  /\ at[k].pc = "idle"
  /\ \E c \in queue :
       /\ Worker(c) = k
       /\ queue' = queue \ {c}
       /\ Move(k, [resource |-> c, pc |-> IF c \in secret.owners THEN "pods" ELSE "own",
                   stale |-> FALSE], {})
       /\ mem' = [mem EXCEPT ![k].size = size[c], ![k].deleting = (life[c] = "deleting")]
       /\ fresh' = [fresh EXCEPT ![c] = TRUE]
  /\ secret' = [secret EXCEPT !.exists = TRUE]
  /\ UNCHANGED <<userVars, podVars, urls, console, faults>>

\* Mutant: the Update of the secret is not refused.
OwnSecretAnyway(k) ==
  /\ at[k].pc = "own"
  /\ secret' = [secret EXCEPT !.owners = IF at[k].stale THEN {at[k].resource}
                                         ELSE @ \union {at[k].resource}]
  /\ GoTo(k, "pods", {"secret"}) /\ UNCHANGED <<queue, mem>>
  /\ UNCHANGED <<userVars, fresh, podVars, urls, console, faults>>

OwnSecret(k) ==
  /\ at[k].pc = "own"
  /\ IF at[k].stale
     THEN End(k, TRUE) /\ UNCHANGED secret
     ELSE /\ secret' = [secret EXCEPT !.owners = @ \union {at[k].resource}]
          /\ GoTo(k, "pods", {"secret"}) /\ UNCHANGED <<queue, mem>>
  /\ UNCHANGED <<userVars, fresh, podVars, urls, console, faults>>

\* The monitoring console comes when the resource's own pods are ready.
WaitForPods(k) ==
  /\ at[k].pc = "pods" /\ ~ mem[k].deleting /\ ~ Ready(at[k].resource)
  /\ End(k, TRUE)
  /\ UNCHANGED <<userVars, fresh, podVars, sharedVars, faults>>

(***************************************************************************)
(* ApplyMonitoringConsole                                                  *)
(***************************************************************************)

\* A deletion needs it too.  The cluster master is asked for its sites then as always.
NoClusterInfo(k) ==
  /\ at[k].pc = "pods" /\ mem[k].deleting
  /\ k = "ClusterMaster" /\ ~ Ready(at[k].resource)
  /\ ConsoleFails(k)
  /\ UNCHANGED <<userVars, fresh, podVars, sharedVars, faults>>

\* What ApplyMonitoringConsoleEnvConfigMap makes of the ConfigMap.
NewURLs(k) ==
  LET c   == at[k].resource
      new == Variables(c, mem[k].size)
  IN IF ~ urls.exists
     THEN IF mem[k].deleting THEN NoUrls.env ELSE AddURLsConfigMap(NoUrls.env, c, new)
     ELSE IF mem[k].deleting THEN DeleteURLsConfigMap(urls.env, c, new, TRUE)
     ELSE AddURLsConfigMap(urls.env, c, new)

\* It reads it.
ReadURLs(k) ==
  /\ at[k].pc = "pods"
  /\ Ready(at[k].resource) \/ (mem[k].deleting /\ k # "ClusterMaster")
  /\ \E env \in {NewURLs(k)} :
       /\ GoTo(k, IF ~ urls.exists THEN "create" ELSE IF env = urls.env THEN "apply" ELSE "write", {})
       /\ mem' = [mem EXCEPT ![k].env = IF urls.exists /\ env = urls.env THEN @ ELSE env]
  /\ UNCHANGED <<userVars, fresh, podVars, sharedVars, queue, faults>>

\* With the revision of the ConfigMap, getMonitoringConsoleStatefulSet builds the template.
PutURLs(k) ==
  /\ urls' = [exists |-> TRUE, env |-> mem[k].env]
  /\ console' = [console EXCEPT !.current = FALSE]
  /\ GoTo(k, "apply", {"urls"})
  /\ mem' = [mem EXCEPT ![k].env = NoUrls.env]
  /\ UNCHANGED <<secret, queue>>

WriteURLs(k) ==
  /\ at[k].pc = "write"
  /\ IF at[k].stale THEN ConsoleFails(k) /\ UNCHANGED sharedVars ELSE PutURLs(k)
  /\ UNCHANGED <<userVars, fresh, podVars, faults>>

\* CreateResource takes AlreadyExists for success.
CreateURLs(k) ==
  /\ at[k].pc = "create"
  /\ IF urls.exists THEN GoTo(k, "apply", {}) /\ mem' = [mem EXCEPT ![k].env = NoUrls.env]
                         /\ UNCHANGED <<sharedVars, queue>>
     ELSE PutURLs(k)
  /\ UNCHANGED <<userVars, fresh, podVars, faults>>

\* What comes after ApplyMonitoringConsole.
Go(k, woken, W) ==
  IF mem[k].deleting THEN ReadOwners(k, FALSE, woken, W)
  ELSE Stop(k, W) /\ queue' = queue \union woken

\* The StatefulSet gets that revision, which is not the current one if the ConfigMap has
\* changed since; its owners hear of it.  Then SetStatefulSetOwnerRef reads it.
ApplyConsole(k) ==
  /\ at[k].pc = "apply"
  /\ console' = [console EXCEPT !.exists = TRUE, !.current = ~ at[k].stale]
  /\ LET W == IF console' = console THEN {} ELSE {"console"}
         woken == IF W = {} THEN {} ELSE Wakes(console.owners)
     IN IF at[k].resource \notin console.owners
        THEN GoTo(k, "setowner", W) /\ queue' = queue \union woken /\ UNCHANGED mem
        ELSE Go(k, woken, W)
  /\ UNCHANGED <<userVars, fresh, podVars, secret, urls, faults>>

\* Mutant: a console that has an owner gets no other.
OwnConsoleOnce(k) ==
  /\ at[k].pc = "setowner"
  /\ IF at[k].stale \/ console.owners # {}
     THEN ConsoleFails(k) /\ UNCHANGED console
     ELSE /\ console' = [console EXCEPT !.owners = {at[k].resource}]
          /\ Go(k, {at[k].resource}, {"console"})
  /\ UNCHANGED <<userVars, fresh, podVars, secret, urls, faults>>

OwnConsole(k) ==
  /\ at[k].pc = "setowner"
  /\ IF at[k].stale
     THEN ConsoleFails(k) /\ UNCHANGED console
     ELSE /\ console' = [console EXCEPT !.owners = @ \union {at[k].resource}]
          /\ Go(k, Wakes(console'.owners), {"console"})
  /\ UNCHANGED <<userVars, fresh, podVars, secret, urls, faults>>

(***************************************************************************)
(* Deletion                                                                *)
(***************************************************************************)

\* The Update of RemoveSecretOwnerRef; nobody looks at its error.
DisownSecret(k) ==
  /\ at[k].pc = "undo"
  /\ IF at[k].stale THEN UNCHANGED secret /\ AfterDisown(k, mem[k].failed, {}, {})
     ELSE /\ secret' = [secret EXCEPT !.owners = @ \ {at[k].resource}]
          /\ AfterDisown(k, mem[k].failed, {}, {"secret"})
  /\ UNCHANGED <<userVars, fresh, podVars, urls, console, faults>>

DeleteClaims(k, Delete(_)) ==
  LET c == at[k].resource IN
  /\ at[k].pc = "claims"
  /\ claims' = [claims EXCEPT ![c] = [x \in DOMAIN @ |-> IF Delete(x) /\ @[x] # "none" THEN "deleted" ELSE @[x]]]
  /\ GoTo(k, "finalizer", {})
  /\ UNCHANGED <<userVars, fresh, pods, sharedVars, queue, mem, faults>>

\* Mutant: the loop over the components ends after the first.
DeleteFirstClaims(k) ==
  LET c == at[k].resource IN DeleteClaims(k, LAMBDA x : x = Components(c)[1])

\* DeleteSplunkPvc: a component without claims ends it.  A claim that a pod uses is still
\* listed after it was deleted.
DeleteSplunkPvc(k) ==
  LET c == at[k].resource IN
  DeleteClaims(k, LAMBDA x : \A i \in DOMAIN Components(c) :
                               Components(c)[i] = x
                               => \A j \in 1 .. i - 1 : claims[c][Components(c)[j]] # "none")

\* Mutant: an error of the deletion does not ask for a requeue.
RemoveFinalizerOnce(k) ==
  LET c == at[k].resource IN
  /\ at[k].pc = "finalizer"
  /\ IF fresh[c] THEN life' = [life EXCEPT ![c] = "gone"] ELSE UNCHANGED life
  /\ End(k, FALSE)
  /\ UNCHANGED <<size, resized, edits, fresh, podVars, sharedVars, faults>>

\* removeSplunkFinalizer: the Update is refused when the resource has changed.
RemoveSplunkFinalizer(k) ==
  LET c == at[k].resource IN
  /\ at[k].pc = "finalizer"
  /\ IF fresh[c]
     THEN /\ life' = [life EXCEPT ![c] = "gone"]
          /\ Stop(k, {})
          /\ queue' = queue \ {c}
     ELSE End(k, TRUE) /\ UNCHANGED life
  /\ UNCHANGED <<size, resized, edits, fresh, podVars, sharedVars, faults>>

-----------------------------------------------------------------------------
(***************************************************************************)
(* What happens besides                                                    *)
(***************************************************************************)

\* The user changes the replicas of a resource, or something else in it.
EditResource(c) ==
  /\ life[c] # "gone" /\ edits + faults < MaxEvents /\ edits' = edits + 1
  /\ \E n \in IF c \in SearchHeadClusters THEN Sizes ELSE {size[c]} :
       /\ size' = [size EXCEPT ![c] = n]
       /\ resized' = [resized EXCEPT ![c] = @ \/ n # size[c]]
       /\ pods' = [pods EXCEPT ![c] = IF n # size[c] /\ @ = "up" /\ life[c] = "live" THEN "down" ELSE @]
  /\ fresh' = [fresh EXCEPT ![c] = FALSE]
  /\ queue' = queue \union {c}
  /\ UNCHANGED <<life, claims, sharedVars, at, mem, faults>>

\* Some of the claims of a resource that was never ready may exist by then.
DeleteResource(c) ==
  /\ life[c] = "live" /\ edits + faults < MaxEvents /\ edits' = edits + 1
  /\ life' = [life EXCEPT ![c] = "deleting"]
  /\ claims' \in {[claims EXCEPT ![c] = f] : f \in
                    IF pods[c] # "new" \/ ~ Created(c) THEN {claims[c]}
                    ELSE [ToSet(Components(c)) -> {"none", "bound"}]}
  /\ fresh' = [fresh EXCEPT ![c] = FALSE]
  /\ queue' = queue \union {c}
  /\ UNCHANGED <<size, resized, pods, sharedVars, at, mem, faults>>

PodsUp(c) ==
  /\ life[c] # "gone" /\ ~ Ready(c) /\ Created(c)
  /\ pods' = [pods EXCEPT ![c] = IF @ = "new" /\ life[c] = "deleting" THEN "late" ELSE "up"]
  /\ claims' = [claims EXCEPT ![c] = [x \in DOMAIN @ |-> IF @[x] = "none" THEN "bound" ELSE @[x]]]
  /\ queue' = queue \union {c}
  /\ UNCHANGED <<userVars, fresh, sharedVars, at, mem, faults>>

\* The garbage collector removes references to owners that are gone, and the object with
\* the last of them.
CollectSecret ==
  /\ \E c \in secret.owners : life[c] = "gone"
  /\ secret' = LET rest == {c \in secret.owners : life[c] # "gone"}
               IN [exists |-> rest # {}, owners |-> rest]
  /\ Move("collector", Idle, {"secret"})
  /\ queue' = queue \union Wakes(secret.owners)
  /\ UNCHANGED <<userVars, fresh, podVars, urls, console, mem, faults>>

CollectConsole ==
  /\ \E c \in console.owners : life[c] = "gone"
  /\ console' = LET rest == {c \in console.owners : life[c] # "gone"}
                IN [exists |-> rest # {}, owners |-> rest, current |-> rest # {} /\ console.current]
  /\ Move("collector", Idle, {"console"})
  /\ queue' = queue \union Wakes(console.owners)
  /\ UNCHANGED <<userVars, fresh, podVars, secret, urls, mem, faults>>

\* A call of a worker fails.
Fails(k) ==
  /\ at[k].pc # "idle" /\ faults < MaxFaults /\ edits + faults < MaxEvents /\ faults' = faults + 1
  /\ End(k, TRUE)
  /\ UNCHANGED <<userVars, fresh, podVars, sharedVars>>

\* The operator restarts and lists every resource.
Crash ==
  /\ faults < MaxFaults /\ edits + faults < MaxEvents /\ faults' = faults + 1
  /\ at' = [k \in Workers |-> Idle] /\ mem' = [k \in Workers |-> NoMem]
  /\ queue' = {c \in Resources : life[c] # "gone"}
  /\ UNCHANGED <<userVars, fresh, podVars, sharedVars>>

-----------------------------------------------------------------------------
Reconcile(k) ==
  \/ Take(k) \/ OwnSecret(k) \/ WaitForPods(k)
  \/ NoClusterInfo(k) \/ ReadURLs(k) \/ WriteURLs(k) \/ CreateURLs(k)
  \/ ApplyConsole(k) \/ OwnConsole(k)
  \/ DisownSecret(k) \/ DeleteSplunkPvc(k) \/ RemoveSplunkFinalizer(k)

NamespaceNext ==
  \/ \E k \in Workers : Reconcile(k) \/ Fails(k)
  \/ \E c \in Resources : EditResource(c) \/ DeleteResource(c) \/ PodsUp(c)
  \/ CollectSecret \/ CollectConsole \/ Crash

NamespaceSpec == NamespaceInit /\ [][NamespaceNext]_vars

NamespaceFairSpec ==
  /\ NamespaceSpec
  /\ \A k \in Workers : WF_vars(Reconcile(k))
  /\ WF_vars(\E c \in Resources : PodsUp(c))
  /\ WF_vars(CollectSecret \/ CollectConsole)

-----------------------------------------------------------------------------
Listed(c) == {u \in UNION {ToSet(urls.env[e]) : e \in EnvNames} : u.resource = c}
Instances(c) == UNION {ToSet(v.urls) : v \in ToSet(Variables(c, size[c]))} \ {Url("site0", "site", 0)}

\* What one worker writes never undoes what another has written: a resource that stays
\* keeps its owner references, and its URLs but for those of pods it gives up.
OthersKept ==
  [][\A c \in Resources :
       life[c] = "live"
       => /\ c \in secret.owners => c \in secret'.owners
          /\ c \in console.owners => c \in console'.owners
          /\ urls' # urls /\ at[Worker(c)].resource # c => Listed(c) \subseteq Listed(c)']_vars

\* In the end the console knows the instances of every resource, no others, and has been
\* restarted with them; every resource hears of changes of the secret and of the console.
\* A resource whose replicas were changed may leave URLs behind.
ConsoleKnowsAll ==
  <>[]\A c \in Resources :
        /\ life[c] = "live"
           => /\ Listed(c) = Instances(c)
              /\ console.current /\ c \in console.owners /\ c \in secret.owners
        /\ life[c] = "gone" /\ ~ resized[c] => Listed(c) = {}

\* A deletion completes, unless it is that of a cluster master that never got a pod.
DeletionCompletes ==
  <>[]\A c \in Resources : life[c] = "deleting" => c \in ClusterMasters /\ pods[c] = "new"

\* A resource that was ready before its deletion leaves no claims behind when it goes.
ClaimsDeleted ==
  \A c \in Resources : life[c] = "gone" /\ pods[c] \in {"down", "up"} => "bound" \notin Range(claims[c])
=============================================================================
