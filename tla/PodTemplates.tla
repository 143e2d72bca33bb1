----------------------------- MODULE PodTemplates -----------------------------
(***************************************************************************)
(* How a StatefulSet and a Service follow the resource they are built from *)
(* (getSplunkStatefulSet, MergePodUpdates, ApplyStatefulSet, ApplyService, *)
(* as ApplyStandalone calls them).                                         *)
(*                                                                         *)
(* Each reconcile builds the pod template anew and writes it only if it    *)
(* differs materially from the stored one, since each new revision         *)
(* restarts all pods.  What is stored is not what was written: the API     *)
(* server fills in what was left out, and an empty slice becomes nil.      *)
(***************************************************************************)
EXTENDS Integers, FiniteSets, SequencesExt

CONSTANTS
  Images,
  Tolerations,    \* their keys
  VolumeKinds,    \* kinds of volumes in a spec; a volume has the name of its kind
  Licenses,       \* license masters that a resource may refer to
  ServiceTypes,
  WritesEmpty,    \* the user may write an empty list of tolerations
  MaxTexts,       \* number of texts of the inline defaults
  MaxEdits,       \* bound: changes of the resource and of its cluster master
  MaxFaults       \* bound: API errors and crashes

ASSUME TemplatesAssumption ==
  /\ Tolerations \subseteq Nat \ {0} /\ IsFiniteSet(Tolerations)
  /\ Images # {}
  /\ VolumeKinds \subseteq {"secret", "configMap", "projected"}
  /\ "ClusterIP" \in ServiceTypes /\ ServiceTypes \subseteq {"ClusterIP", "NodePort"}
  /\ WritesEmpty \in BOOLEAN
  /\ MaxTexts \in Nat /\ MaxEdits \in Nat /\ MaxFaults \in Nat

VARIABLES
  spec,       \* the resource
  master,     \* the license master of the cluster master it refers to
  unread,     \* of this and the ConfigMap: changed, or not to be read, when last read
  configMap,  \* the text of its defaults ConfigMap, 0 if there is none, and its revision
  template,   \* the pod template of its StatefulSet
  service,    \* its Service
  queued,     \* there is a request for it in the work queue
  pc,         \* the place of its worker in the reconcile
  mem,        \* what the worker has in memory: the spec, with its defaults, and the template
  applied,    \* history: what the stored template was last compared with
  edits, faults

stored == <<configMap, template, service>>
vars == <<spec, master, unread, stored, queued, pc, mem, applied, edits, faults>>

None == "none"

\* A slice of Go: its elements have a key to sort by, and a field that has a default.
El(key, value, field) == [key |-> key, value |-> value, field |-> field]
Slice(s)   == [items |-> s, nil |-> s = << >>]
EmptySlice == [items |-> << >>, nil |-> FALSE]

VolumeKey == [secret |-> 3, configMap |-> 4, projected |-> 5]

Lists(S) == UNION {{s \in [1 .. n -> S] : IsInjective(s)} : n \in 0 .. Cardinality(S)}

\* What the user may write: the tolerations and volumes in any order, without defaults.
Values ==
  [image       |-> Images,
   tolerations |-> {Slice([i \in DOMAIN s |-> El(s[i], "toleration", "set")]) : s \in Lists(Tolerations)}
                   \union IF WritesEmpty THEN {EmptySlice} ELSE {},
   volumes     |-> {Slice([i \in DOMAIN s |-> El(VolumeKey[s[i]], s[i], "unset")]) : s \in Lists(VolumeKinds)},
   ports       |-> {Slice(s) : s \in {<< >>, <<El(3, "port", "unset")>>}},
   license     |-> Licenses \union {None},
   defaults    |-> 0 .. MaxTexts,
   type        |-> ServiceTypes]

Slices == {"tolerations", "volumes", "ports", "env"}

NoTemplate == [exists |-> FALSE]
NoService  == [exists |-> FALSE]
NoMem      == [template |-> NoTemplate]

TemplatesTypeOK ==
  /\ \A f \in DOMAIN Values : spec[f] \in Values[f]
  /\ master \in Licenses \union {None}
  /\ configMap.text \in 0 .. MaxTexts /\ (configMap.text = 0 <=> configMap.revision = 0)
  /\ queued \in BOOLEAN
  /\ pc \in {"idle", "service", "build", "apply"}
  /\ pc = "idle" <=> mem = NoMem
  /\ pc = "apply" <=> mem.template.exists
  \* What is stored has its defaults, and no empty slice.
  /\ template.exists =>
       \A f \in Slices :
         /\ template[f].nil = (template[f].items = << >>)
         /\ \A i \in DOMAIN template[f].items : template[f].items[i].field = "set"

TemplatesInit ==
  /\ spec = [image |-> CHOOSE i \in Images : TRUE, tolerations |-> Slice(<< >>),
             volumes |-> Slice(<< >>), ports |-> Slice(<< >>), license |-> None,
             defaults |-> 0, type |-> "ClusterIP"]
  /\ master = None /\ unread = {}
  /\ configMap = [text |-> 0, revision |-> 0]
  /\ template = NoTemplate /\ service = NoService
  /\ queued = TRUE
  /\ pc = "idle" /\ mem = NoMem
  /\ applied = [exists |-> FALSE]
  /\ edits = 0 /\ faults = 0

-----------------------------------------------------------------------------
(***************************************************************************)
(* Slices                                                                  *)
(***************************************************************************)

\* SortSlice sorts by the key alone, elements of one key as they come: Go sorts slices as
\* short as these by insertion.
Before(s, j, i) == s[j].key < s[i].key \/ (s[j].key = s[i].key /\ j <= i)

Sorted(s) ==
  [k \in DOMAIN s |-> s[CHOOSE i \in DOMAIN s : Cardinality({j \in DOMAIN s : Before(s, j, i)}) = k]]

SortSlice(s) == [s EXCEPT !.items = Sorted(@)]

\* Mutant: the slices are compared as they are.
CompareUnsorted(a, b) == a # b

\* Mutant: only their lengths are compared.
CompareLengths(a, b) == Len(a.items) # Len(b.items)

sortAndCompareSlices(a, b) ==
  \/ Len(a.items) # Len(b.items)
  \/ SortSlice(a) # SortSlice(b)

\* What the API server stores.
WithField(s, P(_)) ==
  [s EXCEPT !.items = [i \in DOMAIN @ |-> IF P(@[i]) THEN [@[i] EXCEPT !.field = "set"] ELSE @[i]]]

StoredSlice(s) == Slice(WithField(s, LAMBDA e : TRUE).items)

Stored(t) ==
  [t EXCEPT !.tolerations = StoredSlice(@), !.volumes = StoredSlice(@),
            !.ports = StoredSlice(@), !.env = StoredSlice(@)]

-----------------------------------------------------------------------------
(***************************************************************************)
(* From the resource to the template                                       *)
(***************************************************************************)

\* Mutant: the mode of a ConfigMap volume is left to the API server.
SetSecretDefaults(s) == WithField(s, LAMBDA v : v.value = "secret")

setVolumeDefaults(s) == WithField(s, LAMBDA v : v.value \in {"secret", "configMap"})

setServiceTemplateDefaults(s) == WithField(s, LAMBDA p : TRUE)

\* validateCommonSplunkSpec.
Validated(s) ==
  [s EXCEPT !.volumes = setVolumeDefaults(@), !.ports = setServiceTemplateDefaults(@)]

SplunkPorts == <<El(1, "http-splunkweb", "set"), El(2, "https-splunkd", "set")>>

\* updateSplunkPodTemplateWithConfig: its volumes, with the defaults ConfigMap.
TemplateVolumes(s) ==
  Slice(s.volumes.items
        \o <<El(1, "mnt-splunk-secrets", "set")>>
        \o IF s.defaults = 0 THEN << >> ELSE <<El(2, "mnt-splunk-defaults", "set")>>)

\* Its environment: the license master twice, if the cluster master has one too.
License(l) == IF l = None THEN << >> ELSE <<El(2, l, "set")>>

TemplateEnv(s, masterLicense) ==
  Slice(<<El(1, IF s.defaults = 0 THEN "secrets" ELSE "defaults,secrets", "set")>>
        \o License(s.license) \o License(masterLicense)
        \o <<El(3, "SPLUNK_CLUSTER_MASTER_URL", "set")>>)

\* What the pods get from outside of the spec, as read: no annotation and no variable where
\* the read fails.
Read(s, failed) ==
  [master   |-> IF "master" \in failed THEN None ELSE master,
   revision |-> IF s.defaults = 0 \/ "configMap" \in failed THEN 0 ELSE configMap.revision]

BuildTemplate(s, read) ==
  [exists      |-> TRUE,
   image       |-> s.image,
   tolerations |-> s.tolerations,
   ports       |-> Slice(SplunkPorts \o s.ports.items),
   volumes     |-> TemplateVolumes(s),
   env         |-> TemplateEnv(s, read.master),
   annotation  |-> read.revision]

\* The same, without the order: what is a reason to restart the pods.
Inputs(s, read) ==
  [image |-> s.image, tolerations |-> ToSet(s.tolerations.items), ports |-> ToSet(s.ports.items),
   volumes |-> ToSet(s.volumes.items), license |-> s.license, defaults |-> s.defaults # 0,
   read |-> read]

\* MergePodSpecUpdates and MergePodMetaUpdates: the fields that differ.  The pull policy, the
\* probes, the service account and all of the init containers but their number may differ
\* as they like, and are not here.
Changed(current, revised) ==
  {f \in Slices : sortAndCompareSlices(current[f], revised[f])}
  \union {f \in {"image", "annotation"} : current[f] # revised[f]}

\* A comparison leaves both slices sorted, unless their lengths differ.
MergePodUpdates(current, revised) ==
  [f \in DOMAIN current |->
     LET x == IF f \in Changed(current, revised) THEN revised[f] ELSE current[f]
     IN IF f \in Slices /\ Len(current[f].items) = Len(revised[f].items) THEN SortSlice(x) ELSE x]

SortStatefulSetSlices(t) == [f \in DOMAIN t |-> IF f \in Slices THEN SortSlice(t[f]) ELSE t[f]]

getSplunkService(s) ==
  [exists |-> TRUE, type |-> s.type, ports |-> Slice(s.ports.items \o SplunkPorts)]

MergeServiceSpecUpdates(current, revised) ==
  [current EXCEPT !.type = revised.type,
                  !.ports = IF sortAndCompareSlices(@, revised.ports) THEN revised.ports ELSE @]

-----------------------------------------------------------------------------
(***************************************************************************)
(* The reconcile                                                           *)
(***************************************************************************)

\* The phase asks for another one until it is Ready.
End(requeue) ==
  /\ pc' = "idle" /\ mem' = NoMem
  /\ queued' = (queued \/ requeue)

\* Mutant: defaults that were removed are written too.
ApplyConfigMapAlways(text) ==
  configMap' = IF text = configMap.text THEN configMap
               ELSE [text |-> text, revision |-> configMap.revision + 1]

ApplyConfigMap(text) ==
  configMap' = IF text \in {0, configMap.text} THEN configMap
               ELSE [text |-> text, revision |-> configMap.revision + 1]

\* validateStandaloneSpec and ApplySplunkConfig, which keeps the ConfigMap of defaults that
\* were removed.
ApplySplunkConfig ==
  /\ pc = "idle" /\ queued
  /\ queued' = FALSE
  /\ ApplyConfigMap(spec.defaults)
  /\ mem' = [spec |-> Validated(spec), template |-> NoTemplate]
  /\ pc' = "service"
  /\ UNCHANGED <<spec, master, unread, template, service, applied, edits, faults>>

ApplyService ==
  /\ pc = "service"
  /\ service' = IF service.exists THEN MergeServiceSpecUpdates(service, getSplunkService(mem.spec))
                ELSE getSplunkService(mem.spec)
  /\ pc' = "build"
  /\ UNCHANGED <<spec, master, unread, configMap, template, queued, mem, applied, edits, faults>>

\* getSplunkStatefulSet.  Reads may fail without an error.
Build ==
  /\ pc = "build"
  /\ \E failed \in SUBSET {"master", "configMap"} :
       /\ faults + Cardinality(failed) <= MaxFaults /\ faults' = faults + Cardinality(failed)
       /\ LET read == Read(mem.spec, failed)
          IN mem' = [spec |-> mem.spec, template |-> BuildTemplate(mem.spec, read),
                     inputs |-> Inputs(mem.spec, read)]
       /\ unread' = failed
  /\ pc' = "apply"
  /\ UNCHANGED <<spec, master, stored, queued, applied, edits>>

\* ApplyStatefulSet.
ApplyStatefulSet ==
  /\ pc = "apply"
  /\ IF ~ template.exists
     THEN /\ template' = Stored(SortStatefulSetSlices(mem.template))
          /\ End(TRUE)
     ELSE IF Changed(template, mem.template) # {}
     THEN /\ template' = Stored(MergePodUpdates(template, mem.template))
          /\ End(TRUE)
     ELSE UNCHANGED template /\ End(FALSE)
  /\ applied' = mem.inputs
  /\ UNCHANGED <<spec, master, unread, configMap, service, edits, faults>>

-----------------------------------------------------------------------------
(***************************************************************************)
(* What happens besides                                                    *)
(***************************************************************************)

\* The user changes one field of the resource.
EditSpec ==
  /\ edits < MaxEdits /\ edits' = edits + 1
  /\ \E f \in DOMAIN Values : \E v \in Values[f] \ {spec[f]} : spec' = [spec EXCEPT ![f] = v]
  /\ queued' = TRUE
  /\ UNCHANGED <<master, unread, stored, pc, mem, applied, faults>>

\* No watch tells this resource of it.
EditMaster ==
  /\ edits < MaxEdits /\ edits' = edits + 1
  /\ master' \in (Licenses \union {None}) \ {master}
  /\ unread' = unread \union {"master"}
  /\ UNCHANGED <<spec, stored, queued, pc, mem, applied, faults>>

\* A call fails, such as an Update of what has changed meanwhile.
Fails ==
  /\ pc # "idle" /\ faults < MaxFaults /\ faults' = faults + 1
  /\ End(TRUE)
  /\ UNCHANGED <<spec, master, unread, stored, applied, edits>>

-----------------------------------------------------------------------------
Reconcile == ApplySplunkConfig \/ ApplyService \/ Build \/ ApplyStatefulSet

TemplatesNext == Reconcile \/ EditSpec \/ EditMaster \/ Fails

TemplatesSpec     == TemplatesInit /\ [][TemplatesNext]_vars
TemplatesFairSpec == TemplatesSpec /\ WF_vars(Reconcile)

-----------------------------------------------------------------------------
\* The pods are restarted only if something was changed that they depend on: not because
\* the user wrote a list in another order, not because of what the API server filled in, and
\* not because the template is built again.
RolloutsHaveACause ==
  [][template.exists /\ template' # template => mem.inputs # applied]_vars

\* The operator comes to rest: a template that never equals the stored one would keep it
\* from ever scaling and restarting the pods.
ComesToRest == <>[](pc = "idle" /\ ~ queued)

\* In the end the template and the Service say what the resource says, in some order, with
\* the defaults and the license master it refers to, and with that of its cluster master
\* unless nobody has read that since it was changed.  One failed read of the ConfigMap is
\* made up for; after another one its revision is missing, and stays so.
FollowsResource ==
  LET Contents(t, f) == ToSet(StoredSlice(t[f]).items)
      Like(m, r) == BuildTemplate(Validated(spec), [master |-> m, revision |-> r])
      revision   == IF spec.defaults = 0 THEN 0 ELSE configMap.revision
  IN <>[](/\ template.exists
          /\ template.image = spec.image
          /\ \E m \in IF "master" \in unread THEN Licenses \union {None} ELSE {master},
                r \in IF "configMap" \in unread /\ faults > 1 THEN {0, revision} ELSE {revision} :
               /\ \A f \in Slices : Contents(template, f) = Contents(Like(m, r), f)
               /\ template.annotation = r
          /\ spec.defaults # 0 => configMap.text = spec.defaults
          /\ service.type = spec.type
          /\ ToSet(service.ports.items) = Contents(getSplunkService(Validated(spec)), "ports"))
=============================================================================
