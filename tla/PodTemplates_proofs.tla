------------------------- MODULE PodTemplates_proofs -------------------------
(***************************************************************************)
(* Pods are restarted for a reason, whatever lists the user writes and     *)
(* reorders, and whatever fails.                                           *)
(*                                                                         *)
(* The argument: what is stored and what is built have, slice by slice,    *)
(* the elements that the inputs call for, each with a key of its own, and  *)
(* all with their defaults.  Two such slices are equal once sorted.        *)
(***************************************************************************)
EXTENDS PodTemplates, TLAPS, FiniteSetTheorems

-----------------------------------------------------------------------------
(***************************************************************************)
(* The inductive invariants                                                *)
(***************************************************************************)

Texts == Licenses \union
  {"toleration", "secret", "configMap", "projected", "port", "http-splunkweb", "https-splunkd",
   "mnt-splunk-secrets", "mnt-splunk-defaults", "secrets", "defaults,secrets",
   "SPLUNK_CLUSTER_MASTER_URL"}

Elements == [key : Nat, value : Texts, field : {"set", "unset"}]

IsSlice(x) == x.items \in Seq(Elements) /\ x = [items |-> x.items, nil |-> x.nil]

AllSet(s) == \A i \in DOMAIN s : s[i].field = "set"

\* No two elements have one key.
Keyed(s) == \A i, j \in DOMAIN s : s[i].key = s[j].key => i = j

TemplateFields == {"exists", "image", "annotation"} \union Slices

IsTemplate(t) ==
  /\ DOMAIN t = TemplateFields /\ t.exists = TRUE
  /\ \A f \in Slices : IsSlice(t[f])

\* The slices of a spec.
SpecSlices == {"tolerations", "volumes", "ports"}

HasSlices(s) ==
  /\ DOMAIN s = DOMAIN Values
  /\ \A f \in SpecSlices : IsSlice(s[f])
  /\ s.license \in Licenses \union {None}

SpecInv ==
  /\ DOMAIN spec = DOMAIN Values
  /\ \A f \in DOMAIN Values : spec[f] \in Values[f]
  /\ master \in Licenses \union {None}
  /\ configMap.text \in 0 .. MaxTexts /\ configMap.revision \in Nat
  /\ configMap.text = 0 <=> configMap.revision = 0
  /\ queued \in BOOLEAN

MemInv ==
  \/ pc = "idle" /\ mem = NoMem
  \/ /\ pc \in {"service", "build"}
     /\ mem = [spec |-> mem.spec, template |-> NoTemplate] /\ HasSlices(mem.spec)
  \/ /\ pc = "apply"
     /\ mem = [spec |-> mem.spec, template |-> mem.template, inputs |-> mem.inputs]
     /\ IsTemplate(mem.template)

StoredInv ==
  \/ template = NoTemplate
  \/ /\ IsTemplate(template)
     /\ \A f \in Slices :
          AllSet(template[f].items) /\ template[f].nil = (template[f].items = << >>)

TypesInv == SpecInv /\ MemInv /\ StoredInv

\* A slice with the elements of A in some order, as the API server returns it.
Holds(x, A) ==
  /\ x.items \in Seq(Elements) /\ x = Slice(x.items)
  /\ AllSet(x.items) /\ Keyed(x.items)
  /\ ToSet(x.items) = A

\* The slices that a resource with these inputs calls for; the order of the environment is
\* that of BuildTemplate.
PortsOf(in)   == in.ports \union ToSet(SplunkPorts)
VolumesOf(in) == in.volumes \union {El(1, "mnt-splunk-secrets", "set")}
                 \union IF in.defaults THEN {El(2, "mnt-splunk-defaults", "set")} ELSE {}
EnvOf(in)     == <<El(1, IF in.defaults THEN "defaults,secrets" ELSE "secrets", "set")>>
                 \o License(in.license) \o License(in.read.master)
                 \o <<El(3, "SPLUNK_CLUSTER_MASTER_URL", "set")>>

Fits(t, in) ==
  /\ DOMAIN t = TemplateFields /\ t.exists = TRUE
  /\ t.image = in.image /\ t.annotation = in.read.revision
  /\ Holds(t.tolerations, in.tolerations)
  /\ Holds(t.ports, PortsOf(in))
  /\ Holds(t.volumes, VolumesOf(in))
  /\ t.env = Slice(EnvOf(in))
  /\ in.defaults \in BOOLEAN
  /\ in.license \in Licenses \union {None} /\ in.read.master \in Licenses \union {None}

\* The slices of a spec with its defaults: their keys leave those of the operator's own
\* elements free.
FitsSpec(s) ==
  /\ Holds(s.tolerations, ToSet(s.tolerations.items))
  /\ Holds(s.volumes, ToSet(s.volumes.items))
  /\ Holds(s.ports, ToSet(s.ports.items))
  /\ \A f \in {"volumes", "ports"} : \A i \in DOMAIN s[f].items : s[f].items[i].key > 2

FitsInv ==
  /\ pc \in {"service", "build"} => FitsSpec(mem.spec)
  /\ pc = "apply" => Fits(mem.template, mem.inputs)
  /\ template.exists => Fits(template, applied)
-----------------------------------------------------------------------------
(***************************************************************************)
(* Sorting                                                                 *)
(***************************************************************************)

\* The place of the element at i in the sorted list.
Place(s) == [i \in DOMAIN s |-> Cardinality({j \in DOMAIN s : Before(s, j, i)})]

LEMMA UptoOf ==
  ASSUME NEW n \in Nat
  PROVE  IsFiniteSet(1 .. n) /\ Cardinality(1 .. n) = n
BY FS_Interval

LEMMA ElementOf ==
  ASSUME NEW s \in Seq(Elements), NEW i \in DOMAIN s
  PROVE  s[i] \in Elements /\ s[i].key \in Nat /\ i \in Nat
<1>1. s[i] \in Elements /\ i \in Nat
  OBVIOUS
<1> QED
  BY <1>1 DEF Elements

\* Every position has a place of its own.
LEMMA Places ==
  ASSUME NEW s \in Seq(Elements)
  PROVE  Place(s) \in Bijection(1 .. Len(s), 1 .. Len(s))
<1> DEFINE I == 1 .. Len(s)
           Upto(i) == {j \in I : Before(s, j, i)}
<1>1. I = DOMAIN s /\ IsFiniteSet(I) /\ Len(s) \in Nat /\ Cardinality(I) = Len(s)
  <2>1. I = DOMAIN s /\ Len(s) \in Nat
    OBVIOUS
  <2> QED
    BY <2>1, FS_Interval
<1>2. \A i \in I : s[i].key \in Int /\ i \in Int
  BY <1>1, ElementOf
<1>3. ASSUME NEW i \in I
      PROVE  IsFiniteSet(Upto(i)) /\ Cardinality(Upto(i)) \in I
  <2>1. Upto(i) \in SUBSET I /\ i \in Upto(i)
    BY <1>2 DEF Before
  <2>2. IsFiniteSet(Upto(i)) /\ Cardinality(Upto(i)) <= Len(s)
    BY <1>1, <2>1, FS_Subset
  <2>3. Cardinality(Upto(i)) \in Nat /\ Cardinality(Upto(i)) # 0
    <3> HIDE DEF Upto
    <3> QED
      BY <2>1, <2>2, FS_CardinalityType, FS_EmptySet
  <2> HIDE DEF Upto
  <2> QED
    BY <1>1, <2>2, <2>3
<1>4. ASSUME NEW i \in I, NEW j \in I, i # j, Before(s, i, j)
      PROVE  Cardinality(Upto(i)) # Cardinality(Upto(j))
  <2>1. \A x \in I : Before(s, x, i) => Before(s, x, j)
    BY <1>2, <1>4 DEF Before
  <2>2. Before(s, j, j) /\ ~ Before(s, j, i)
    BY <1>2, <1>4 DEF Before
  <2>3. Upto(i) \in SUBSET Upto(j) /\ j \in Upto(j) /\ j \notin Upto(i)
    BY <2>1, <2>2
  <2>4. IsFiniteSet(Upto(j))
    BY <1>3
  <2> HIDE DEF Upto
  <2> QED
    BY <2>3, <2>4, FS_Subset
<1>5. \A i, j \in I : Before(s, i, j) \/ Before(s, j, i)
  BY <1>2 DEF Before
<1>6. \A i \in I : Place(s)[i] = Cardinality(Upto(i))
  BY <1>1 DEF Place
<1>7. Place(s) \in [I -> I]
  BY <1>1, <1>3 DEF Place
<1> HIDE DEF Upto
<1>8. ASSUME NEW i \in I, NEW j \in I, Place(s)[i] = Place(s)[j]
      PROVE  i = j
  BY <1>4, <1>5, <1>6, <1>8
<1>9. Place(s) \in Injection(I, I)
  BY <1>7, <1>8 DEF Injection, IsInjective
<1>10. Place(s) \in Surjection(I, I)
  BY <1>1, <1>9, FS_Injection
<1> QED
  BY <1>9, <1>10 DEF Bijection

\* Sorted(s) has the elements of s, each at its place.
LEMMA SortedOf ==
  ASSUME NEW s \in Seq(Elements)
  PROVE  /\ Sorted(s) \in Seq(Elements) /\ Len(Sorted(s)) = Len(s)
         /\ \A k \in DOMAIN Sorted(s) :
              \E i \in DOMAIN s : Place(s)[i] = k /\ Sorted(s)[k] = s[i]
         /\ ToSet(Sorted(s)) = ToSet(s)
         /\ Keyed(s) => Keyed(Sorted(s))
<1> DEFINE n == Len(s)
           At(k) == CHOOSE i \in DOMAIN s : Cardinality({j \in DOMAIN s : Before(s, j, i)}) = k
<1>1. DOMAIN s = 1 .. n /\ n \in Nat
  OBVIOUS
<1>2. /\ \A i \in DOMAIN s : Place(s)[i] \in 1 .. n
      /\ \A k \in 1 .. n : \E i \in DOMAIN s : Place(s)[i] = k
      /\ \A i, j \in DOMAIN s : Place(s)[i] = Place(s)[j] => i = j
  BY <1>1, Places DEF Bijection, Injection, Surjection, IsInjective
<1>3. \A i \in DOMAIN s : Place(s)[i] = Cardinality({j \in DOMAIN s : Before(s, j, i)})
  BY DEF Place
<1>4. \A k \in 1 .. n : At(k) \in DOMAIN s /\ Place(s)[At(k)] = k
  <2> TAKE k \in 1 .. n
  <2>1. \E i \in DOMAIN s : Cardinality({j \in DOMAIN s : Before(s, j, i)}) = k
    <3>1. PICK i \in DOMAIN s : Place(s)[i] = k
      BY <1>2
    <3> QED
      BY <1>3, <3>1
  <2>2. At(k) \in DOMAIN s /\ Cardinality({j \in DOMAIN s : Before(s, j, At(k))}) = k
    BY <2>1
  <2> QED
    BY <1>3, <2>2
<1>5. \A i \in DOMAIN s : \E k \in 1 .. n : At(k) = i
  BY <1>2, <1>4
<1>6. Sorted(s) = [k \in 1 .. n |-> s[At(k)]]
  BY <1>1 DEF Sorted
<1> HIDE DEF At, n
<1>7. \A i \in DOMAIN s : s[i] \in Elements
  OBVIOUS
<1>8. Sorted(s) \in [1 .. n -> Elements]
  BY <1>4, <1>6, <1>7
<1>9. Sorted(s) \in Seq(Elements) /\ Len(Sorted(s)) = n /\ DOMAIN Sorted(s) = 1 .. n
  BY <1>1, <1>8
<1>10. \A k \in 1 .. n : \E i \in DOMAIN s : Place(s)[i] = k /\ Sorted(s)[k] = s[i]
  BY <1>1, <1>4, <1>6
<1>11. ToSet(Sorted(s)) = ToSet(s)
  <2>1. DOMAIN Sorted(s) = 1 .. n /\ \A k \in 1 .. n : Sorted(s)[k] = s[At(k)]
    BY <1>6
  <2>2. ToSet(Sorted(s)) \subseteq ToSet(s)
    BY <1>4, <2>1 DEF ToSet
  <2>3. ToSet(s) \subseteq ToSet(Sorted(s))
    BY <1>5, <2>1 DEF ToSet
  <2> QED
    BY <2>2, <2>3
<1>12. Keyed(s) => Keyed(Sorted(s))
  <2> SUFFICES ASSUME Keyed(s), NEW k \in 1 .. n, NEW l \in 1 .. n, s[At(k)].key = s[At(l)].key
               PROVE  k = l
    BY <1>6 DEF Keyed
  <2>1. At(k) = At(l)
    BY <1>1, <1>4 DEF Keyed
  <2> QED
    BY <1>4, <2>1
<1> QED
  BY <1>9, <1>10, <1>11, <1>12 DEF n

\* Two lists with the same elements, each with a key of its own, are equal once sorted.
LEMMA SortedTogether ==
  ASSUME NEW s \in Seq(Elements), NEW t \in Seq(Elements), Keyed(s), Keyed(t), ToSet(s) = ToSet(t)
  PROVE  Len(s) = Len(t) /\ Sorted(s) = Sorted(t)
<1> DEFINE A == ToSet(s)
           R(x) == Cardinality({y \in A : y.key <= x.key})
<1>1. ASSUME NEW u \in Seq(Elements), Keyed(u), ToSet(u) = A
      PROVE  /\ \A i \in DOMAIN u : Place(u)[i] = R(u[i])
             /\ Len(u) = Cardinality(A)
  <2>1. DOMAIN u = 1 .. Len(u) /\ Len(u) \in Nat
    OBVIOUS
  <2>2. \A i \in DOMAIN u : u[i].key \in Int /\ i \in Int /\ u[i] \in A
    <3> TAKE i \in DOMAIN u
    <3>1. u[i].key \in Int /\ i \in Int
      BY <1>1, ElementOf
    <3>2. u[i] \in ToSet(u)
      BY DEF ToSet
    <3> QED
      BY <1>1, <3>1, <3>2
  <2>3. \A x \in A : \E i \in DOMAIN u : u[i] = x
    BY <1>1 DEF ToSet
  <2>4. \A i, j \in DOMAIN u : u[i] = u[j] => i = j
    BY <1>1 DEF Keyed
  <2> HIDE DEF A
  <2>5. ASSUME NEW i \in DOMAIN u
        PROVE  Place(u)[i] = R(u[i])
    <3> DEFINE P == {j \in DOMAIN u : Before(u, j, i)}
               Q == {y \in A : y.key <= u[i].key}
               f == [j \in P |-> u[j]]
    <3>1. \A j \in DOMAIN u : Before(u, j, i) <=> u[j].key <= u[i].key
      BY <1>1, <2>2 DEF Before, Keyed
    <3>2. \A j \in P : f[j] \in Q
      BY <2>2, <3>1
    <3>3. \A j, l \in P : f[j] = f[l] => j = l
      BY <2>4
    <3>4. \A y \in Q : \E j \in P : f[j] = y
      BY <2>3, <3>1
    <3>5. f \in Bijection(P, Q)
      <4> HIDE DEF P, Q
      <4> QED
        BY <3>2, <3>3, <3>4 DEF Bijection, Injection, Surjection, IsInjective
    <3>6. IsFiniteSet(P)
      <4>1. P \in SUBSET (DOMAIN u)
        OBVIOUS
      <4>2. IsFiniteSet(DOMAIN u)
        <5>1. IsFiniteSet(1 .. Len(u))
          BY <2>1, FS_Interval
        <5> QED
          BY <2>1, <5>1
      <4> QED
        BY <4>1, <4>2, FS_Subset
    <3>7. Cardinality(Q) = Cardinality(P)
      <4> HIDE DEF P, Q, f
      <4> QED
        BY <3>5, <3>6, FS_Bijection DEF ExistsBijection
    <3> QED
      BY <3>7 DEF Place
  <2>6. Len(u) = Cardinality(A)
    <3> DEFINE f == [j \in 1 .. Len(u) |-> u[j]]
    <3>1. f \in Bijection(1 .. Len(u), A)
      BY <2>1, <2>2, <2>3, <2>4 DEF Bijection, Injection, Surjection, IsInjective
    <3>2. IsFiniteSet(1 .. Len(u)) /\ Cardinality(1 .. Len(u)) = Len(u)
      BY <2>1, UptoOf
    <3> HIDE DEF f
    <3> QED
      BY <3>1, <3>2, FS_Bijection DEF ExistsBijection
  <2> QED
    BY <2>5, <2>6
<1>2. Len(s) = Len(t)
  BY <1>1
<1>3. /\ \A i \in DOMAIN s : Place(s)[i] = R(s[i])
      /\ \A i \in DOMAIN t : Place(t)[i] = R(t[i])
  BY <1>1
<1>4. \A i \in DOMAIN t : \E j \in DOMAIN s : t[i] = s[j]
  BY DEF ToSet
<1> HIDE DEF A, R
<1>5. \A i, j \in DOMAIN s : Place(s)[i] = Place(s)[j] => i = j
  <2>1. DOMAIN s = 1 .. Len(s)
    OBVIOUS
  <2> QED
    BY <2>1, Places DEF Bijection, Injection, IsInjective
<1>6. ASSUME NEW k \in 1 .. Len(s)
      PROVE  Sorted(s)[k] = Sorted(t)[k]
  <2>1. DOMAIN Sorted(s) = 1 .. Len(s) /\ DOMAIN Sorted(t) = 1 .. Len(s)
    BY <1>2, SortedOf
  <2>2. PICK i \in DOMAIN s : Place(s)[i] = k /\ Sorted(s)[k] = s[i]
    BY <2>1, SortedOf
  <2>3. PICK l \in DOMAIN t : Place(t)[l] = k /\ Sorted(t)[k] = t[l]
    BY <2>1, SortedOf
  <2>4. PICK j \in DOMAIN s : t[l] = s[j]
    BY <1>4
  <2>5. Place(s)[i] = Place(s)[j]
    BY <1>3, <2>2, <2>3, <2>4
  <2> QED
    BY <1>5, <2>2, <2>3, <2>4, <2>5
<1>7. Sorted(s) \in Seq(Elements) /\ Sorted(t) \in Seq(Elements)
      /\ Len(Sorted(s)) = Len(s) /\ Len(Sorted(t)) = Len(s)
  BY <1>2, SortedOf
<1>8. Sorted(s) = Sorted(t)
  BY <1>6, <1>7
<1> QED
  BY <1>2, <1>8

\* A list whose keys never decrease is sorted.
LEMMA SortedStays ==
  ASSUME NEW s \in Seq(Elements), \A i, j \in DOMAIN s : i < j => s[i].key <= s[j].key
  PROVE  Sorted(s) = s
<1>1. DOMAIN s = 1 .. Len(s) /\ Len(s) \in Nat
  OBVIOUS
<1>2. \A i \in DOMAIN s : s[i].key \in Int /\ i \in Int
  BY ElementOf
<1>3. ASSUME NEW i \in DOMAIN s
      PROVE  Place(s)[i] = i
  <2>1. \A j \in DOMAIN s : Before(s, j, i) <=> j <= i
    BY <1>2 DEF Before
  <2>2. {j \in DOMAIN s : Before(s, j, i)} = 1 .. i
    BY <1>1, <2>1
  <2>3. Cardinality(1 .. i) = i
    BY <1>1, FS_Interval
  <2> QED
    BY <2>2, <2>3 DEF Place
<1>4. ASSUME NEW k \in 1 .. Len(s)
      PROVE  Sorted(s)[k] = s[k]
  <2>1. DOMAIN Sorted(s) = 1 .. Len(s)
    BY SortedOf
  <2>2. PICK i \in DOMAIN s : Place(s)[i] = k /\ Sorted(s)[k] = s[i]
    BY <2>1, SortedOf
  <2> QED
    BY <1>3, <2>2
<1>5. Sorted(s) \in Seq(Elements) /\ Len(Sorted(s)) = Len(s)
  BY SortedOf
<1> QED
  BY <1>4, <1>5
-----------------------------------------------------------------------------
(***************************************************************************)
(* Slices                                                                  *)
(***************************************************************************)

LEMMA ConcatOf ==
  ASSUME NEW s \in Seq(Elements), NEW t \in Seq(Elements)
  PROVE  /\ s \o t \in Seq(Elements)
         /\ ToSet(s \o t) = ToSet(s) \union ToSet(t)
         /\ AllSet(s) /\ AllSet(t) => AllSet(s \o t)
         /\ Keyed(s) /\ Keyed(t) /\ (\A i \in DOMAIN s, j \in DOMAIN t : s[i].key # t[j].key)
              => Keyed(s \o t)
<1> DEFINE u == s \o t
<1>1. u \in Seq(Elements) /\ Len(u) = Len(s) + Len(t) /\ Len(s) \in Nat /\ Len(t) \in Nat
  OBVIOUS
<1>2. /\ DOMAIN s = 1 .. Len(s) /\ DOMAIN t = 1 .. Len(t) /\ DOMAIN u = 1 .. (Len(s) + Len(t))
      /\ \A i \in 1 .. (Len(s) + Len(t)) : u[i] = IF i <= Len(s) THEN s[i] ELSE t[i - Len(s)]
  BY <1>1
<1> HIDE DEF u
<1>3. \A i \in DOMAIN u : \/ i \in DOMAIN s /\ u[i] = s[i]
                          \/ i - Len(s) \in DOMAIN t /\ u[i] = t[i - Len(s)]
  BY <1>1, <1>2
<1>4. \A i \in DOMAIN s : i \in DOMAIN u /\ u[i] = s[i]
  BY <1>1, <1>2
<1>5. \A i \in DOMAIN t : i + Len(s) \in DOMAIN u /\ u[i + Len(s)] = t[i]
  BY <1>1, <1>2
<1>6. ToSet(u) = ToSet(s) \union ToSet(t)
  BY <1>3, <1>4, <1>5 DEF ToSet
<1>7. AllSet(s) /\ AllSet(t) => AllSet(u)
  BY <1>3 DEF AllSet
<1>8. ASSUME Keyed(s), Keyed(t), \A i \in DOMAIN s, j \in DOMAIN t : s[i].key # t[j].key
      PROVE  Keyed(u)
  <2> SUFFICES ASSUME NEW i \in DOMAIN u, NEW j \in DOMAIN u, u[i].key = u[j].key
               PROVE  i = j
    BY DEF Keyed
  <2>1. i \in Int /\ j \in Int
    BY <1>1
  <2>2. CASE i \in DOMAIN s /\ u[i] = s[i] /\ j \in DOMAIN s /\ u[j] = s[j]
    BY <1>8, <2>2 DEF Keyed
  <2>3. CASE /\ i - Len(s) \in DOMAIN t /\ u[i] = t[i - Len(s)]
             /\ j - Len(s) \in DOMAIN t /\ u[j] = t[j - Len(s)]
    <3>1. i - Len(s) = j - Len(s)
      BY <1>8, <2>3 DEF Keyed
    <3> QED
      BY <1>1, <2>1, <3>1
  <2> QED
    BY <1>3, <1>8, <2>2, <2>3
<1> QED
  BY <1>1, <1>6, <1>7, <1>8 DEF u

\* A list of one element.
LEMMA OneOf ==
  ASSUME NEW e \in Elements
  PROVE  /\ <<e>> \in Seq(Elements) /\ ToSet(<<e>>) = {e} /\ Keyed(<<e>>)
         /\ Len(<<e>>) = 1 /\ <<e>>[1] = e /\ DOMAIN <<e>> = {1}
         /\ e.field = "set" => AllSet(<<e>>)
<1>1. <<e>> \in Seq(Elements) /\ DOMAIN <<e>> = {1} /\ <<e>>[1] = e /\ Len(<<e>>) = 1
  OBVIOUS
<1> QED
  BY <1>1 DEF ToSet, Keyed, AllSet

LEMMA NoneOf ==
  /\ << >> \in Seq(Elements) /\ ToSet(<< >>) = {} /\ Keyed(<< >>) /\ AllSet(<< >>)
  /\ DOMAIN << >> = {}
<1>1. << >> \in Seq(Elements) /\ DOMAIN << >> = {}
  OBVIOUS
<1> QED
  BY <1>1 DEF ToSet, Keyed, AllSet

LEMMA SliceOf ==
  ASSUME NEW s \in Seq(Elements)
  PROVE  /\ IsSlice(Slice(s)) /\ Slice(s).items = s
         /\ Slice(s).nil = (s = << >>)
BY DEF IsSlice, Slice

LEMMA RecordOf ==
  ASSUME NEW s \in Seq(Elements), NEW n, NEW y, y = [items |-> s, nil |-> n]
  PROVE  IsSlice(y) /\ y.items = s /\ y.nil = n
BY DEF IsSlice

\* Defaults filled in where B says so.
LEMMA FilledOf ==
  ASSUME NEW x, IsSlice(x), NEW B \in [DOMAIN x.items -> BOOLEAN], NEW y,
         y = [x EXCEPT !.items =
                [i \in DOMAIN @ |-> IF B[i] THEN [@[i] EXCEPT !.field = "set"] ELSE @[i]]]
  PROVE  /\ IsSlice(y) /\ Len(y.items) = Len(x.items) /\ y.nil = x.nil
         /\ \A i \in DOMAIN x.items :
              /\ y.items[i].key = x.items[i].key /\ y.items[i].value = x.items[i].value
              /\ y.items[i].field = IF B[i] THEN "set" ELSE x.items[i].field
         /\ AllSet(x.items) => y = x
<1> DEFINE s == x.items
           Filled(i) == IF B[i] THEN [s[i] EXCEPT !.field = "set"] ELSE s[i]
           r == [i \in DOMAIN s |-> Filled(i)]
<1>1. s \in Seq(Elements) /\ DOMAIN s = 1 .. Len(s) /\ Len(s) \in Nat
  BY DEF IsSlice
<1>2. y = [items |-> r, nil |-> x.nil]
  BY DEF IsSlice
<1>3. ASSUME NEW i \in DOMAIN s
      PROVE  /\ Filled(i) \in Elements
             /\ Filled(i).key = s[i].key /\ Filled(i).value = s[i].value
             /\ Filled(i).field = IF B[i] THEN "set" ELSE s[i].field
             /\ s[i].field = "set" => Filled(i) = s[i]
  <2>1. s[i] \in Elements
    BY <1>1
  <2> HIDE DEF s
  <2>2. s[i] = [key |-> s[i].key, value |-> s[i].value, field |-> s[i].field]
    BY <2>1 DEF Elements
  <2>3. [s[i] EXCEPT !.field = "set"] = [key |-> s[i].key, value |-> s[i].value, field |-> "set"]
    BY <2>2
  <2>4. CASE B[i]
    BY <2>1, <2>2, <2>3, <2>4 DEF Elements
  <2>5. CASE ~ B[i]
    BY <2>1, <2>5
  <2> QED
    BY <2>4, <2>5
<1> HIDE DEF Filled, s
<1>4. r \in [1 .. Len(s) -> Elements] /\ \A i \in DOMAIN s : r[i] = Filled(i)
  BY <1>1, <1>3
<1>5. r \in Seq(Elements) /\ Len(r) = Len(s)
  BY <1>1, <1>4
<1>6. AllSet(s) => r = s
  BY <1>1, <1>3, <1>4, <1>5 DEF AllSet
<1> HIDE DEF r
<1>7. y.items = r /\ y.nil = x.nil /\ IsSlice(y)
  BY <1>2, <1>5, RecordOf
<1>8. /\ IsSlice(y) /\ Len(y.items) = Len(s) /\ y.nil = x.nil
      /\ \A i \in DOMAIN s :
           /\ y.items[i].key = s[i].key /\ y.items[i].value = s[i].value
           /\ y.items[i].field = IF B[i] THEN "set" ELSE s[i].field
  BY <1>3, <1>4, <1>5, <1>6, <1>7
<1>9. AllSet(s) => y = x
  <2>1. x = [items |-> s, nil |-> x.nil]
    BY DEF IsSlice, s
  <2> QED
    BY <1>2, <1>6, <2>1
<1> QED
  BY <1>8, <1>9 DEF s

LEMMA VolumeDefaultsOf ==
  ASSUME NEW x, IsSlice(x)
  PROVE  LET y == setVolumeDefaults(x)
         IN /\ IsSlice(y) /\ Len(y.items) = Len(x.items) /\ y.nil = x.nil
            /\ \A i \in DOMAIN x.items :
                 /\ y.items[i].key = x.items[i].key
                 /\ y.items[i].field = IF x.items[i].value \in {"secret", "configMap"} THEN "set"
                                       ELSE x.items[i].field
<1> DEFINE B == [i \in DOMAIN x.items |-> x.items[i].value \in {"secret", "configMap"}]
           y == setVolumeDefaults(x)
<1>1. B \in [DOMAIN x.items -> BOOLEAN]
  OBVIOUS
<1>2. \A i \in DOMAIN x.items : B[i] <=> x.items[i].value \in {"secret", "configMap"}
  OBVIOUS
<1> HIDE DEF B
<1>3. y = [x EXCEPT !.items =
             [i \in DOMAIN @ |-> IF B[i] THEN [@[i] EXCEPT !.field = "set"] ELSE @[i]]]
  BY <1>2 DEF setVolumeDefaults, WithField
<1> HIDE DEF y
<1>4. /\ IsSlice(y) /\ Len(y.items) = Len(x.items) /\ y.nil = x.nil
      /\ \A i \in DOMAIN x.items :
           /\ y.items[i].key = x.items[i].key
           /\ y.items[i].field = IF B[i] THEN "set" ELSE x.items[i].field
  BY <1>1, <1>3, FilledOf
<1> QED
  BY <1>2, <1>4 DEF y

LEMMA PortDefaultsOf ==
  ASSUME NEW x, IsSlice(x)
  PROVE  LET y == setServiceTemplateDefaults(x)
         IN /\ IsSlice(y) /\ Len(y.items) = Len(x.items) /\ y.nil = x.nil
            /\ \A i \in DOMAIN x.items :
                 y.items[i].key = x.items[i].key /\ y.items[i].field = "set"
<1> DEFINE B == [i \in DOMAIN x.items |-> TRUE]
           y == setServiceTemplateDefaults(x)
<1>1. B \in [DOMAIN x.items -> BOOLEAN] /\ \A i \in DOMAIN x.items : B[i]
  OBVIOUS
<1> HIDE DEF B
<1>2. y = [x EXCEPT !.items =
             [i \in DOMAIN @ |-> IF B[i] THEN [@[i] EXCEPT !.field = "set"] ELSE @[i]]]
  BY <1>1 DEF setServiceTemplateDefaults, WithField
<1> HIDE DEF y
<1>3. /\ IsSlice(y) /\ Len(y.items) = Len(x.items) /\ y.nil = x.nil
      /\ \A i \in DOMAIN x.items :
           /\ y.items[i].key = x.items[i].key
           /\ y.items[i].field = IF B[i] THEN "set" ELSE x.items[i].field
  BY <1>1, <1>2, FilledOf
<1> QED
  BY <1>1, <1>3 DEF y

LEMMA StoredSliceOf ==
  ASSUME NEW x, IsSlice(x)
  PROVE  LET y == StoredSlice(x)
         IN /\ IsSlice(y) /\ y.nil = (y.items = << >>) /\ AllSet(y.items)
            /\ AllSet(x.items) => y = Slice(x.items)
<1> DEFINE B == [i \in DOMAIN x.items |-> TRUE]
           w == WithField(x, LAMBDA e : TRUE)
<1>1. B \in [DOMAIN x.items -> BOOLEAN] /\ \A i \in DOMAIN x.items : B[i]
  OBVIOUS
<1> HIDE DEF B
<1>2. w = [x EXCEPT !.items =
             [i \in DOMAIN @ |-> IF B[i] THEN [@[i] EXCEPT !.field = "set"] ELSE @[i]]]
  BY <1>1 DEF WithField
<1>3. StoredSlice(x) = Slice(w.items)
  BY DEF StoredSlice
<1> HIDE DEF w
<1>4. /\ IsSlice(w) /\ Len(w.items) = Len(x.items) /\ w.nil = x.nil
      /\ \A i \in DOMAIN x.items :
           /\ w.items[i].key = x.items[i].key
           /\ w.items[i].field = IF B[i] THEN "set" ELSE x.items[i].field
  BY <1>1, <1>2, FilledOf
<1>6. AllSet(x.items) => w = x
  BY <1>1, <1>2, FilledOf
<1>5. AllSet(w.items) /\ w.items \in Seq(Elements)
  <2>1. w.items \in Seq(Elements) /\ x.items \in Seq(Elements)
    BY <1>4 DEF IsSlice
  <2>2. DOMAIN w.items = DOMAIN x.items
    BY <1>4, <2>1
  <2> QED
    BY <1>1, <1>4, <2>1, <2>2 DEF AllSet
<1> QED
  BY <1>3, <1>4, <1>5, <1>6, SliceOf

LEMMA SortSliceOf ==
  ASSUME NEW x, IsSlice(x)
  PROVE  /\ SortSlice(x) = [items |-> Sorted(x.items), nil |-> x.nil]
         /\ IsSlice(SortSlice(x))
<1>1. SortSlice(x) = [items |-> Sorted(x.items), nil |-> x.nil]
  BY DEF SortSlice, IsSlice
<1>2. Sorted(x.items) \in Seq(Elements)
  BY SortedOf DEF IsSlice
<1> QED
  BY <1>1, <1>2 DEF IsSlice
-----------------------------------------------------------------------------
(***************************************************************************)
(* Templates                                                               *)
(***************************************************************************)

LEMMA SortTemplateOf ==
  ASSUME NEW t, IsTemplate(t)
  PROVE  LET u == SortStatefulSetSlices(t)
         IN /\ IsTemplate(u) /\ u.image = t.image /\ u.annotation = t.annotation
            /\ \A f \in Slices : u[f] = SortSlice(t[f])
<1> DEFINE u == SortStatefulSetSlices(t)
<1>1. u = [f \in TemplateFields |-> IF f \in Slices THEN SortSlice(t[f]) ELSE t[f]]
  BY DEF SortStatefulSetSlices, IsTemplate
<1>2. /\ {"exists", "image", "annotation"} \subseteq TemplateFields /\ Slices \subseteq TemplateFields
      /\ "exists" \notin Slices /\ "image" \notin Slices /\ "annotation" \notin Slices
  BY DEF TemplateFields, Slices
<1> HIDE DEF u
<1>3. /\ DOMAIN u = TemplateFields /\ \A f \in Slices : u[f] = SortSlice(t[f])
      /\ u.exists = t.exists /\ u.image = t.image /\ u.annotation = t.annotation
  BY <1>1, <1>2
<1>4. \A f \in Slices : IsSlice(SortSlice(t[f]))
  BY SortSliceOf DEF IsTemplate
<1> QED
  BY <1>3, <1>4 DEF IsTemplate, u

\* A merge leaves the revised slices, sorted or as they are.
LEMMA MergeOf ==
  ASSUME NEW t, IsTemplate(t), NEW r, IsTemplate(r)
  PROVE  LET u == MergePodUpdates(t, r)
         IN /\ IsTemplate(u) /\ u.image = r.image /\ u.annotation = r.annotation
            /\ \A f \in Slices : u[f] \in {r[f], SortSlice(r[f])}
<1> DEFINE u == MergePodUpdates(t, r)
           C == Changed(t, r)
<1>1. u = [f \in TemplateFields |->
             LET x == IF f \in C THEN r[f] ELSE t[f]
             IN IF f \in Slices /\ Len(t[f].items) = Len(r[f].items) THEN SortSlice(x) ELSE x]
  BY DEF MergePodUpdates, IsTemplate
<1>2. /\ {"exists", "image", "annotation"} \subseteq TemplateFields /\ Slices \subseteq TemplateFields
      /\ "exists" \notin Slices /\ "image" \notin Slices /\ "annotation" \notin Slices
  BY DEF TemplateFields, Slices
<1>3. /\ \A f \in Slices : f \in C <=> sortAndCompareSlices(t[f], r[f])
      /\ "image" \in C <=> t.image # r.image
      /\ "annotation" \in C <=> t.annotation # r.annotation
      /\ "exists" \notin C
  BY <1>2 DEF Changed
<1> HIDE DEF u, C
<1>4. /\ DOMAIN u = TemplateFields
      /\ u.exists = t.exists /\ u.image = r.image /\ u.annotation = r.annotation
  BY <1>1, <1>2, <1>3
<1>5. ASSUME NEW f \in Slices
      PROVE  u[f] \in {r[f], SortSlice(r[f])}
  <2>1. CASE f \in C
    BY <1>1, <1>2, <2>1
  <2>2. CASE f \notin C
    <3>1. Len(t[f].items) = Len(r[f].items) /\ SortSlice(t[f]) = SortSlice(r[f])
      BY <1>3, <2>2 DEF sortAndCompareSlices
    <3> QED
      BY <1>1, <1>2, <2>2, <3>1
  <2> QED
    BY <2>1, <2>2
<1>6. \A f \in Slices : IsSlice(r[f]) /\ IsSlice(SortSlice(r[f]))
  BY SortSliceOf DEF IsTemplate
<1>7. \A f \in Slices : IsSlice(u[f])
  BY <1>5, <1>6
<1> QED
  BY <1>4, <1>5, <1>7 DEF IsTemplate, u

LEMMA StoredOf ==
  ASSUME NEW t, IsTemplate(t)
  PROVE  LET u == Stored(t)
         IN /\ IsTemplate(u) /\ u.image = t.image /\ u.annotation = t.annotation
            /\ \A f \in Slices : u[f] = StoredSlice(t[f])
<1> DEFINE u == Stored(t)
<1>1. DOMAIN t = {"exists", "image", "annotation", "tolerations", "volumes", "ports", "env"}
  BY DEF IsTemplate, TemplateFields, Slices
<1>2. u = [t EXCEPT !.tolerations = StoredSlice(t.tolerations), !.volumes = StoredSlice(t.volumes),
                    !.ports = StoredSlice(t.ports), !.env = StoredSlice(t.env)]
  BY DEF Stored
<1> HIDE DEF u
<1>3. /\ DOMAIN u = DOMAIN t
      /\ u.exists = t.exists /\ u.image = t.image /\ u.annotation = t.annotation
      /\ u.tolerations = StoredSlice(t.tolerations) /\ u.volumes = StoredSlice(t.volumes)
      /\ u.ports = StoredSlice(t.ports) /\ u.env = StoredSlice(t.env)
  BY <1>1, <1>2
<1>4. \A f \in Slices : u[f] = StoredSlice(t[f])
  BY <1>3 DEF Slices
<1>5. \A f \in Slices : IsSlice(StoredSlice(t[f]))
  BY StoredSliceOf DEF IsTemplate
<1> QED
  BY <1>3, <1>4, <1>5 DEF IsTemplate, u

-----------------------------------------------------------------------------
(***************************************************************************)
(* From the resource to the template                                       *)
(***************************************************************************)

LEMMA FieldsOf ==
  DOMAIN Values = {"image", "tolerations", "volumes", "ports", "license", "defaults", "type"}
BY DEF Values

LEMMA KindsFinite == IsFiniteSet(VolumeKinds)
<1>1. IsFiniteSet({"secret", "configMap", "projected"})
  <2>1. IsFiniteSet({"secret"}) /\ IsFiniteSet({"configMap"}) /\ IsFiniteSet({"projected"})
    BY FS_Singleton
  <2>2. IsFiniteSet({"secret"} \union {"configMap"})
    BY <2>1, FS_Union
  <2>3. IsFiniteSet(({"secret"} \union {"configMap"}) \union {"projected"})
    BY <2>1, <2>2, FS_Union
  <2>4. ({"secret"} \union {"configMap"}) \union {"projected"} = {"secret", "configMap", "projected"}
    OBVIOUS
  <2> QED
    BY <2>3, <2>4
<1> QED
  BY <1>1, TemplatesAssumption, FS_Subset

LEMMA ListsOf ==
  ASSUME NEW S, IsFiniteSet(S), NEW s \in Lists(S)
  PROVE  s \in Seq(S) /\ \A i, j \in DOMAIN s : s[i] = s[j] => i = j
<1>1. PICK n \in 0 .. Cardinality(S) : s \in {l \in [1 .. n -> S] : IsInjective(l)}
  BY DEF Lists
<1>2. n \in Nat
  BY FS_CardinalityType
<1> QED
  BY <1>1, <1>2 DEF IsInjective

\* What the user may write.
LEMMA TolerationsOf ==
  ASSUME NEW x \in Values.tolerations
  PROVE  /\ IsSlice(x) /\ AllSet(x.items) /\ Keyed(x.items)
         /\ ~ WritesEmpty => x = Slice(x.items)
<1>1. Values.tolerations
        = {Slice([i \in DOMAIN s |-> El(s[i], "toleration", "set")]) : s \in Lists(Tolerations)}
          \union IF WritesEmpty THEN {EmptySlice} ELSE {}
  BY DEF Values
<1>2. CASE x \in {Slice([i \in DOMAIN s |-> El(s[i], "toleration", "set")]) : s \in Lists(Tolerations)}
  <2>1. PICK s \in Lists(Tolerations) : x = Slice([i \in DOMAIN s |-> El(s[i], "toleration", "set")])
    BY <1>2
  <2> DEFINE l == [i \in DOMAIN s |-> El(s[i], "toleration", "set")]
  <2>2. s \in Seq(Tolerations) /\ \A i, j \in DOMAIN s : s[i] = s[j] => i = j
    BY ListsOf, TemplatesAssumption
  <2>3. \A i \in DOMAIN s : s[i] \in Nat
    <3>1. \A i \in DOMAIN s : s[i] \in Tolerations
      BY <2>2
    <3> QED
      BY <3>1, TemplatesAssumption
  <2>4. \A i \in DOMAIN s : /\ El(s[i], "toleration", "set") \in Elements
                            /\ El(s[i], "toleration", "set").key = s[i]
                            /\ El(s[i], "toleration", "set").field = "set"
    BY <2>3 DEF El, Elements, Texts
  <2>5. DOMAIN s = 1 .. Len(s) /\ Len(s) \in Nat
    BY <2>2
  <2>6. l \in Seq(Elements) /\ DOMAIN l = DOMAIN s
    BY <2>4, <2>5
  <2>7. AllSet(l) /\ Keyed(l)
    BY <2>2, <2>4 DEF AllSet, Keyed
  <2>8. x = Slice(l)
    BY <2>1
  <2> HIDE DEF l
  <2> QED
    BY <2>6, <2>7, <2>8, SliceOf
<1>3. CASE WritesEmpty /\ x = EmptySlice
  <2>1. << >> \in Seq(Elements) /\ x = [items |-> << >>, nil |-> FALSE]
    BY <1>3, NoneOf DEF EmptySlice
  <2>2. IsSlice(x) /\ x.items = << >>
    BY <2>1 DEF IsSlice
  <2> QED
    BY <1>3, <2>2, NoneOf
<1> QED
  BY <1>1, <1>2, <1>3

LEMMA VolumesOfSpec ==
  ASSUME NEW x \in Values.volumes
  PROVE  /\ IsSlice(x) /\ Keyed(x.items) /\ x = Slice(x.items)
         /\ \A i \in DOMAIN x.items : x.items[i].value \in VolumeKinds /\ x.items[i].key > 2
<1>1. PICK s \in Lists(VolumeKinds) : x = Slice([i \in DOMAIN s |-> El(VolumeKey[s[i]], s[i], "unset")])
  BY DEF Values
<1> DEFINE l == [i \in DOMAIN s |-> El(VolumeKey[s[i]], s[i], "unset")]
<1>2. s \in Seq(VolumeKinds) /\ \A i, j \in DOMAIN s : s[i] = s[j] => i = j
  BY ListsOf, KindsFinite
<1>3. \A k \in VolumeKinds : k \in {"secret", "configMap", "projected"}
  BY TemplatesAssumption
<1>4. /\ \A k \in VolumeKinds : VolumeKey[k] \in Nat /\ VolumeKey[k] > 2
      /\ \A k, m \in VolumeKinds : VolumeKey[k] = VolumeKey[m] => k = m
  BY <1>3 DEF VolumeKey
<1>5. DOMAIN s = 1 .. Len(s) /\ Len(s) \in Nat /\ \A i \in DOMAIN s : s[i] \in VolumeKinds
  BY <1>2
<1>6. \A k \in VolumeKinds : /\ El(VolumeKey[k], k, "unset") \in Elements
                             /\ El(VolumeKey[k], k, "unset").key = VolumeKey[k]
                             /\ El(VolumeKey[k], k, "unset").value = k
  BY <1>3, <1>4 DEF El, Elements, Texts
<1>7. l \in Seq(Elements) /\ DOMAIN l = DOMAIN s
  BY <1>5, <1>6
<1>8. Keyed(l)
  BY <1>2, <1>4, <1>5, <1>6 DEF Keyed
<1>9. \A i \in DOMAIN l : l[i].value \in VolumeKinds /\ l[i].key > 2
  BY <1>4, <1>5, <1>6
<1>10. x = Slice(l)
  BY <1>1
<1> HIDE DEF l
<1> QED
  BY <1>7, <1>8, <1>9, <1>10, SliceOf

LEMMA PortsOfSpec ==
  ASSUME NEW x \in Values.ports
  PROVE  /\ IsSlice(x) /\ Keyed(x.items) /\ x = Slice(x.items)
         /\ \A i \in DOMAIN x.items : x.items[i].key > 2
<1>1. El(3, "port", "unset") \in Elements /\ El(3, "port", "unset").key > 2
  BY DEF El, Elements, Texts
<1>2. PICK l \in {<< >>, <<El(3, "port", "unset")>>} : x = Slice(l)
  BY DEF Values
<1>3. l \in Seq(Elements) /\ Keyed(l) /\ \A i \in DOMAIN l : l[i].key > 2
  <2>1. CASE l = << >>
    BY <2>1, NoneOf
  <2>2. CASE l = <<El(3, "port", "unset")>>
    BY <1>1, <2>2, OneOf
  <2> QED
    BY <2>1, <2>2
<1> QED
  BY <1>2, <1>3, SliceOf

LEMMA ValidatedOf ==
  ASSUME NEW s, DOMAIN s = DOMAIN Values
  PROVE  LET v == Validated(s)
         IN /\ DOMAIN v = DOMAIN Values /\ v.image = s.image /\ v.license = s.license
            /\ v.defaults = s.defaults /\ v.tolerations = s.tolerations
            /\ v.volumes = setVolumeDefaults(s.volumes)
            /\ v.ports = setServiceTemplateDefaults(s.ports)
<1> DEFINE v == Validated(s)
<1>1. v = [s EXCEPT !.volumes = setVolumeDefaults(s.volumes),
                    !.ports = setServiceTemplateDefaults(s.ports)]
  BY DEF Validated
<1> HIDE DEF v
<1>2. /\ DOMAIN v = DOMAIN Values /\ v.image = s.image /\ v.license = s.license
      /\ v.defaults = s.defaults /\ v.tolerations = s.tolerations
      /\ v.volumes = setVolumeDefaults(s.volumes)
      /\ v.ports = setServiceTemplateDefaults(s.ports)
  BY <1>1, FieldsOf
<1> QED
  BY <1>2 DEF v

LEMMA ValidSlices ==
  ASSUME SpecInv
  PROVE  HasSlices(Validated(spec))
<1>1. DOMAIN spec = DOMAIN Values
  BY DEF SpecInv
<1>2. /\ spec.tolerations \in Values.tolerations /\ spec.volumes \in Values.volumes
      /\ spec.ports \in Values.ports /\ spec.license \in Licenses \union {None}
  <2>1. \A f \in DOMAIN Values : spec[f] \in Values[f]
    BY DEF SpecInv
  <2>2. Values.license = Licenses \union {None}
    BY DEF Values
  <2> QED
    BY <2>1, <2>2, FieldsOf
<1> DEFINE v == Validated(spec)
<1>3. /\ DOMAIN v = DOMAIN Values /\ v.license = spec.license /\ v.tolerations = spec.tolerations
      /\ v.volumes = setVolumeDefaults(spec.volumes)
      /\ v.ports = setServiceTemplateDefaults(spec.ports)
  BY <1>1, ValidatedOf
<1>4. IsSlice(v.tolerations) /\ IsSlice(v.volumes) /\ IsSlice(v.ports)
  BY <1>2, <1>3, TolerationsOf, VolumesOfSpec, PortsOfSpec, VolumeDefaultsOf, PortDefaultsOf
<1> HIDE DEF v
<1>5. HasSlices(v)
  BY <1>2, <1>3, <1>4 DEF HasSlices, SpecSlices
<1> QED
  BY <1>5 DEF v
LEMMA TextsOf ==
  /\ \A i \in DOMAIN SplunkPorts : SplunkPorts[i].key < 3
  /\ SplunkPorts \in Seq(Elements) /\ AllSet(SplunkPorts) /\ Keyed(SplunkPorts)
  /\ El(1, "mnt-splunk-secrets", "set") \in Elements
  /\ El(2, "mnt-splunk-defaults", "set") \in Elements
  /\ \A b \in BOOLEAN : El(1, IF b THEN "defaults,secrets" ELSE "secrets", "set") \in Elements
  /\ El(3, "SPLUNK_CLUSTER_MASTER_URL", "set") \in Elements
  /\ \A l \in Licenses : El(2, l, "set") \in Elements
<1>1. El(1, "http-splunkweb", "set") \in Elements /\ El(2, "https-splunkd", "set") \in Elements
  BY DEF El, Elements, Texts
<1>2. SplunkPorts \in Seq(Elements) /\ DOMAIN SplunkPorts = {1, 2}
  BY <1>1 DEF SplunkPorts
<1>3. /\ SplunkPorts[1].key = 1 /\ SplunkPorts[2].key = 2
      /\ SplunkPorts[1].field = "set" /\ SplunkPorts[2].field = "set"
  BY DEF SplunkPorts, El
<1>4. AllSet(SplunkPorts) /\ Keyed(SplunkPorts) /\ \A i \in DOMAIN SplunkPorts : SplunkPorts[i].key < 3
  BY <1>2, <1>3 DEF AllSet, Keyed
<1>5. /\ El(1, "mnt-splunk-secrets", "set") \in Elements
      /\ El(2, "mnt-splunk-defaults", "set") \in Elements
      /\ El(3, "SPLUNK_CLUSTER_MASTER_URL", "set") \in Elements
  BY DEF El, Elements, Texts
<1>6. \A b \in BOOLEAN : El(1, IF b THEN "defaults,secrets" ELSE "secrets", "set") \in Elements
  BY DEF El, Elements, Texts
<1>7. \A l \in Licenses : El(2, l, "set") \in Elements
  BY DEF El, Elements, Texts
<1> QED
  BY <1>2, <1>4, <1>5, <1>6, <1>7

LEMMA LicenseOf ==
  ASSUME NEW l \in Licenses \union {None}
  PROVE  /\ License(l) \in Seq(Elements) /\ AllSet(License(l))
         /\ \A i \in DOMAIN License(l) : License(l)[i].key = 2
<1>1. CASE l = None
  BY <1>1, NoneOf DEF License
<1>2. CASE l # None
  <2>1. El(2, l, "set") \in Elements /\ El(2, l, "set").key = 2 /\ El(2, l, "set").field = "set"
    BY <1>2, TextsOf DEF El
  <2>2. License(l) = <<El(2, l, "set")>>
    BY <1>2 DEF License
  <2> QED
    BY <2>1, <2>2, OneOf
<1> QED
  BY <1>1, <1>2

\* The keys of a list lie between m and n, and never decrease.
Rises(s, m, n) ==
  /\ \A i \in DOMAIN s : s[i].key \in m .. n
  /\ \A i, j \in DOMAIN s : i < j => s[i].key <= s[j].key

LEMMA RisesOf ==
  ASSUME NEW s \in Seq(Elements), NEW t \in Seq(Elements),
         NEW k \in Nat, NEW l \in Nat, NEW m \in Nat, NEW n \in Nat,
         k <= l, l <= m, m <= n, Rises(s, k, l), Rises(t, m, n)
  PROVE  Rises(s \o t, k, n)
<1> DEFINE u == s \o t
<1>1. u \in Seq(Elements) /\ Len(u) = Len(s) + Len(t) /\ Len(s) \in Nat /\ Len(t) \in Nat
  OBVIOUS
<1>2. /\ DOMAIN s = 1 .. Len(s) /\ DOMAIN t = 1 .. Len(t) /\ DOMAIN u = 1 .. (Len(s) + Len(t))
      /\ \A i \in 1 .. (Len(s) + Len(t)) : u[i] = IF i <= Len(s) THEN s[i] ELSE t[i - Len(s)]
  BY <1>1
<1> HIDE DEF u
<1>3. \A i \in DOMAIN u :
        \/ i <= Len(s) /\ i \in DOMAIN s /\ u[i] = s[i]
        \/ i > Len(s) /\ i - Len(s) \in DOMAIN t /\ u[i] = t[i - Len(s)]
  BY <1>1, <1>2
<1>4. \A i \in DOMAIN u : u[i].key \in k .. n
  BY <1>3 DEF Rises
<1>5. ASSUME NEW i \in DOMAIN u, NEW j \in DOMAIN u, i < j
      PROVE  u[i].key <= u[j].key
  <2>1. i \in Int /\ j \in Int
    BY <1>1
  <2>2. CASE i \in DOMAIN s /\ u[i] = s[i] /\ j \in DOMAIN s /\ u[j] = s[j]
    BY <1>5, <2>2 DEF Rises
  <2>3. CASE i \in DOMAIN s /\ u[i] = s[i] /\ j - Len(s) \in DOMAIN t /\ u[j] = t[j - Len(s)]
    <3>1. u[i].key \in k .. l /\ u[j].key \in m .. n
      BY <2>3 DEF Rises
    <3> QED
      BY <3>1
  <2>4. CASE /\ i - Len(s) \in DOMAIN t /\ u[i] = t[i - Len(s)]
             /\ j - Len(s) \in DOMAIN t /\ u[j] = t[j - Len(s)]
    <3>1. i - Len(s) < j - Len(s)
      BY <1>1, <1>5, <2>1
    <3> QED
      BY <2>4, <3>1 DEF Rises
  <2>5. ~ (i > Len(s) /\ j <= Len(s))
    BY <1>1, <1>5, <2>1
  <2> QED
    BY <1>3, <2>2, <2>3, <2>4, <2>5
<1>6. Rises(u, k, n)
  BY <1>4, <1>5 DEF Rises
<1> QED
  BY <1>6 DEF u

\* The environment is sorted as it is built.
LEMMA EnvironmentOf ==
  ASSUME NEW b \in BOOLEAN, NEW l \in Licenses \union {None}, NEW m \in Licenses \union {None}
  PROVE  LET e == <<El(1, IF b THEN "defaults,secrets" ELSE "secrets", "set")>>
                  \o License(l) \o License(m) \o <<El(3, "SPLUNK_CLUSTER_MASTER_URL", "set")>>
         IN e \in Seq(Elements) /\ AllSet(e) /\ Sorted(e) = e
<1> DEFINE f == El(1, IF b THEN "defaults,secrets" ELSE "secrets", "set")
           g == El(3, "SPLUNK_CLUSTER_MASTER_URL", "set")
<1>1. f \in Elements /\ g \in Elements
  BY TextsOf
<1>2. f.key = 1 /\ f.field = "set" /\ g.key = 3 /\ g.field = "set"
  BY DEF El
<1> HIDE DEF f, g
<1>3. /\ <<f>> \in Seq(Elements) /\ AllSet(<<f>>) /\ <<g>> \in Seq(Elements) /\ AllSet(<<g>>)
      /\ Rises(<<f>>, 1, 1) /\ Rises(<<g>>, 3, 3)
  BY <1>1, <1>2, OneOf DEF Rises
<1>4. ASSUME NEW x \in Licenses \union {None}
      PROVE  License(x) \in Seq(Elements) /\ AllSet(License(x)) /\ Rises(License(x), 2, 2)
  BY LicenseOf DEF Rises
<1> DEFINE p == <<f>> \o License(l)
           q == p \o License(m)
           e == q \o <<g>>
<1>5. p \in Seq(Elements) /\ AllSet(p) /\ Rises(p, 1, 2)
  <2>1. License(l) \in Seq(Elements) /\ AllSet(License(l)) /\ Rises(License(l), 2, 2)
    BY <1>4
  <2>2. p \in Seq(Elements) /\ AllSet(p)
    BY <1>3, <2>1, ConcatOf
  <2>3. Rises(p, 1, 2)
    <3> DEFINE u == <<f>>
               v == License(l)
    <3>1. u \in Seq(Elements) /\ Rises(u, 1, 1) /\ v \in Seq(Elements) /\ Rises(v, 2, 2)
      BY <1>3, <2>1
    <3> HIDE DEF u, v
    <3>2. Rises(u \o v, 1, 2)
      BY <3>1, RisesOf
    <3> QED
      BY <3>2 DEF u, v
  <2> QED
    BY <2>2, <2>3
<1> HIDE DEF p
<1>6. q \in Seq(Elements) /\ AllSet(q) /\ Rises(q, 1, 2)
  <2>1. License(m) \in Seq(Elements) /\ AllSet(License(m)) /\ Rises(License(m), 2, 2)
    BY <1>4
  <2>2. q \in Seq(Elements) /\ AllSet(q)
    BY <1>5, <2>1, ConcatOf
  <2>3. Rises(q, 1, 2)
    BY <1>5, <2>1, RisesOf
  <2> QED
    BY <2>2, <2>3
<1> HIDE DEF q
<1>7. e \in Seq(Elements) /\ AllSet(e) /\ Rises(e, 1, 3)
  <2>1. e \in Seq(Elements) /\ AllSet(e)
    BY <1>3, <1>6, ConcatOf
  <2>2. Rises(e, 1, 3)
    BY <1>3, <1>6, RisesOf
  <2> QED
    BY <2>1, <2>2
<1> HIDE DEF e
<1>8. Sorted(e) = e
  BY <1>7, SortedStays DEF Rises
<1> QED
  BY <1>7, <1>8 DEF e, q, p, f, g

LEMMA BuildTypes ==
  ASSUME NEW s, HasSlices(s), NEW r, r.master \in Licenses \union {None}
  PROVE  IsTemplate(BuildTemplate(s, r))
<1> DEFINE t == BuildTemplate(s, r)
<1>1. /\ DOMAIN t = TemplateFields /\ t.exists = TRUE
      /\ t.tolerations = s.tolerations /\ t.ports = Slice(SplunkPorts \o s.ports.items)
      /\ t.volumes = TemplateVolumes(s) /\ t.env = TemplateEnv(s, r.master)
  BY DEF BuildTemplate, TemplateFields, Slices
<1>2. IsSlice(s.tolerations) /\ s.ports.items \in Seq(Elements) /\ s.volumes.items \in Seq(Elements)
  BY DEF HasSlices, SpecSlices, IsSlice
<1>3. IsSlice(t.ports)
  <2>1. SplunkPorts \o s.ports.items \in Seq(Elements)
    BY <1>2, ConcatOf, TextsOf
  <2> QED
    BY <1>1, <2>1, SliceOf
<1>4. IsSlice(t.volumes)
  <2> DEFINE a == <<El(1, "mnt-splunk-secrets", "set")>>
             b == IF s.defaults = 0 THEN << >> ELSE <<El(2, "mnt-splunk-defaults", "set")>>
  <2>1. a \in Seq(Elements) /\ b \in Seq(Elements)
    BY TextsOf, OneOf, NoneOf
  <2>2. TemplateVolumes(s) = Slice(s.volumes.items \o a \o b)
    BY DEF TemplateVolumes
  <2> HIDE DEF a, b
  <2>3. s.volumes.items \o a \o b \in Seq(Elements)
    BY <1>2, <2>1, ConcatOf
  <2> QED
    BY <1>1, <2>2, <2>3, SliceOf
<1>5. IsSlice(t.env)
  <2>1. PICK b \in BOOLEAN : b <=> s.defaults # 0
    OBVIOUS
  <2> DEFINE e == <<El(1, IF b THEN "defaults,secrets" ELSE "secrets", "set")>>
                  \o License(s.license) \o License(r.master)
                  \o <<El(3, "SPLUNK_CLUSTER_MASTER_URL", "set")>>
  <2>2. TemplateEnv(s, r.master) = Slice(e)
    BY <2>1 DEF TemplateEnv
  <2>3. e \in Seq(Elements)
    BY EnvironmentOf DEF HasSlices
  <2> HIDE DEF e
  <2> QED
    BY <1>1, <2>2, <2>3, SliceOf
<1> HIDE DEF t
<1>6. IsTemplate(t)
  BY <1>1, <1>2, <1>3, <1>4, <1>5 DEF IsTemplate, Slices
<1> QED
  BY <1>6 DEF t
-----------------------------------------------------------------------------
(***************************************************************************)
(* Types                                                                   *)
(***************************************************************************)

LEMMA EmptyList ==
  ASSUME NEW S, IsFiniteSet(S)
  PROVE  << >> \in Lists(S)
<1>1. 0 \in 0 .. Cardinality(S)
  BY FS_CardinalityType
<1>2. << >> \in {l \in [1 .. 0 -> S] : IsInjective(l)}
  BY DEF IsInjective
<1> QED
  BY <1>1, <1>2 DEF Lists

LEMMA InitValues ==
  /\ Slice(<< >>) \in Values.tolerations /\ Slice(<< >>) \in Values.volumes
  /\ Slice(<< >>) \in Values.ports
  /\ (CHOOSE i \in Images : TRUE) \in Values.image /\ None \in Values.license
  /\ 0 \in Values.defaults /\ "ClusterIP" \in Values.type
<1>1. << >> \in Lists(Tolerations) /\ << >> \in Lists(VolumeKinds)
  BY EmptyList, KindsFinite, TemplatesAssumption
<1>2. /\ [i \in DOMAIN << >> |-> El(<< >>[i], "toleration", "set")] = << >>
      /\ [i \in DOMAIN << >> |-> El(VolumeKey[<< >>[i]], << >>[i], "unset")] = << >>
  OBVIOUS
<1>3. Slice(<< >>) \in Values.tolerations
  <2>1. Slice(<< >>) \in
          {Slice([i \in DOMAIN s |-> El(s[i], "toleration", "set")]) : s \in Lists(Tolerations)}
    BY <1>1, <1>2
  <2> QED
    BY <2>1 DEF Values
<1>4. Slice(<< >>) \in Values.volumes
  <2>1. Slice(<< >>) \in
          {Slice([i \in DOMAIN s |-> El(VolumeKey[s[i]], s[i], "unset")]) : s \in Lists(VolumeKinds)}
    BY <1>1, <1>2
  <2> QED
    BY <2>1 DEF Values
<1>5. Slice(<< >>) \in Values.ports
  BY DEF Values
<1>6. (CHOOSE i \in Images : TRUE) \in Values.image /\ None \in Values.license
  BY TemplatesAssumption DEF Values
<1>7. 0 \in Values.defaults /\ "ClusterIP" \in Values.type
  BY TemplatesAssumption DEF Values
<1> QED
  BY <1>3, <1>4, <1>5, <1>6, <1>7

LEMMA TypesInit == TemplatesInit => TypesInv
<1> SUFFICES ASSUME TemplatesInit
             PROVE  TypesInv
  OBVIOUS
<1>1. DOMAIN spec = DOMAIN Values
  BY FieldsOf DEF TemplatesInit
<1>2. \A f \in DOMAIN Values : spec[f] \in Values[f]
  <2>1. /\ spec.image = (CHOOSE i \in Images : TRUE) /\ spec.tolerations = Slice(<< >>)
        /\ spec.volumes = Slice(<< >>) /\ spec.ports = Slice(<< >>) /\ spec.license = None
        /\ spec.defaults = 0 /\ spec.type = "ClusterIP"
    BY DEF TemplatesInit
  <2> QED
    BY <2>1, InitValues, FieldsOf
<1>3. SpecInv
  BY <1>1, <1>2, TemplatesAssumption DEF SpecInv, TemplatesInit
<1>4. MemInv /\ StoredInv
  BY DEF MemInv, StoredInv, TemplatesInit
<1> QED
  BY <1>3, <1>4 DEF TypesInv

\* Only a reconcile that builds or applies touches what is in memory.
LEMMA SpecStep ==
  ASSUME TypesInv, [TemplatesNext]_vars
  PROVE  SpecInv'
<1>1. SpecInv
  BY DEF TypesInv
<1>2. ASSUME ApplySplunkConfig
      PROVE  SpecInv'
  <2>1. spec.defaults \in 0 .. MaxTexts
    BY <1>1, FieldsOf DEF SpecInv, Values
  <2>2. /\ configMap'.text \in 0 .. MaxTexts /\ configMap'.revision \in Nat
        /\ configMap'.text = 0 <=> configMap'.revision = 0
    <3>1. CASE spec.defaults \in {0, configMap.text}
      BY <1>1, <1>2, <3>1 DEF SpecInv, ApplySplunkConfig, ApplyConfigMap
    <3>2. CASE spec.defaults \notin {0, configMap.text}
      <4>1. configMap' = [text |-> spec.defaults, revision |-> configMap.revision + 1]
        BY <1>2, <3>2 DEF ApplySplunkConfig, ApplyConfigMap
      <4> QED
        BY <1>1, <2>1, <3>2, <4>1 DEF SpecInv
    <3> QED
      BY <3>1, <3>2
  <2> QED
    BY <1>1, <1>2, <2>2 DEF SpecInv, ApplySplunkConfig
<1>3. ASSUME EditSpec
      PROVE  SpecInv'
  <2>1. PICK f \in DOMAIN Values : \E v \in Values[f] \ {spec[f]} : spec' = [spec EXCEPT ![f] = v]
    BY <1>3 DEF EditSpec
  <2>2. PICK v \in Values[f] : spec' = [spec EXCEPT ![f] = v]
    BY <2>1
  <2>3. DOMAIN spec = DOMAIN Values /\ \A g \in DOMAIN Values : spec[g] \in Values[g]
    BY <1>1 DEF SpecInv
  <2>4. DOMAIN spec' = DOMAIN Values /\ \A g \in DOMAIN Values : spec'[g] \in Values[g]
    BY <2>2, <2>3
  <2> QED
    BY <1>1, <1>3, <2>4 DEF SpecInv, EditSpec, stored
<1>4. ASSUME EditMaster
      PROVE  SpecInv'
  BY <1>1, <1>4 DEF SpecInv, EditMaster, stored
<1>5. ASSUME ApplyService \/ Build
      PROVE  SpecInv'
  BY <1>1, <1>5 DEF SpecInv, ApplyService, Build, stored
<1>6. ASSUME ApplyStatefulSet \/ Fails
      PROVE  SpecInv'
  <2>1. UNCHANGED <<spec, master, configMap>>
    BY <1>6 DEF ApplyStatefulSet, Fails, stored
  <2>2. queued' \in BOOLEAN
    BY <1>6 DEF ApplyStatefulSet, Fails, End
  <2> QED
    BY <1>1, <2>1, <2>2 DEF SpecInv
<1>7. ASSUME UNCHANGED vars
      PROVE  SpecInv'
  BY <1>1, <1>7 DEF SpecInv, vars, stored
<1> QED
  BY <1>2, <1>3, <1>4, <1>5, <1>6, <1>7 DEF TemplatesNext, Reconcile

LEMMA MemStep ==
  ASSUME TypesInv, [TemplatesNext]_vars
  PROVE  MemInv'
<1>1. MemInv /\ SpecInv
  BY DEF TypesInv
<1>2. ASSUME ApplySplunkConfig
      PROVE  MemInv'
  <2>1. mem' = [spec |-> Validated(spec), template |-> NoTemplate] /\ pc' = "service"
    BY <1>2 DEF ApplySplunkConfig
  <2>2. mem' = [spec |-> mem'.spec, template |-> NoTemplate] /\ mem'.spec = Validated(spec)
    BY <2>1
  <2> QED
    BY <1>1, <2>1, <2>2, ValidSlices DEF MemInv
<1>3. ASSUME ApplyService
      PROVE  MemInv'
  BY <1>1, <1>3 DEF MemInv, ApplyService
<1>4. ASSUME Build
      PROVE  MemInv'
  <2>1. PICK failed \in SUBSET {"master", "configMap"} :
          mem' = [spec |-> mem.spec, template |-> BuildTemplate(mem.spec, Read(mem.spec, failed)),
                  inputs |-> Inputs(mem.spec, Read(mem.spec, failed))]
    BY <1>4 DEF Build
  <2>2. HasSlices(mem.spec)
    BY <1>1, <1>4 DEF MemInv, Build
  <2>3. Read(mem.spec, failed).master \in Licenses \union {None}
    BY <1>1 DEF Read, SpecInv
  <2>4. IsTemplate(BuildTemplate(mem.spec, Read(mem.spec, failed)))
    BY <2>2, <2>3, BuildTypes
  <2>5. /\ mem' = [spec |-> mem'.spec, template |-> mem'.template, inputs |-> mem'.inputs]
        /\ mem'.template = BuildTemplate(mem.spec, Read(mem.spec, failed))
    BY <2>1
  <2>6. pc' = "apply"
    BY <1>4 DEF Build
  <2> QED
    BY <2>4, <2>5, <2>6 DEF MemInv
<1>5. ASSUME ApplyStatefulSet \/ Fails
      PROVE  MemInv'
  BY <1>5 DEF MemInv, ApplyStatefulSet, Fails, End
<1>6. ASSUME EditSpec \/ EditMaster \/ UNCHANGED vars
      PROVE  MemInv'
  <2>1. pc' = pc /\ mem' = mem
    BY <1>6 DEF EditSpec, EditMaster, vars
  <2> QED
    BY <1>1, <2>1 DEF MemInv
<1> QED
  BY <1>2, <1>3, <1>4, <1>5, <1>6 DEF TemplatesNext, Reconcile

\* What ApplyStatefulSet writes.
LEMMA AppliesOf ==
  ASSUME TypesInv, ApplyStatefulSet
  PROVE  /\ IsTemplate(mem.template)
         /\ \/ template = NoTemplate /\ template' = Stored(SortStatefulSetSlices(mem.template))
            \/ /\ IsTemplate(template) /\ Changed(template, mem.template) # {}
               /\ template' = Stored(MergePodUpdates(template, mem.template))
            \/ /\ IsTemplate(template) /\ Changed(template, mem.template) = {}
               /\ template' = template
<1>1. IsTemplate(mem.template)
  BY DEF TypesInv, MemInv, ApplyStatefulSet
<1>2. CASE template = NoTemplate
  <2>1. ~ template.exists
    BY <1>2 DEF NoTemplate
  <2> QED
    BY <1>1, <1>2, <2>1 DEF ApplyStatefulSet
<1>3. CASE IsTemplate(template)
  <2>1. template.exists
    BY <1>3 DEF IsTemplate
  <2> QED
    BY <1>1, <1>3, <2>1 DEF ApplyStatefulSet
<1> QED
  BY <1>2, <1>3 DEF TypesInv, StoredInv

LEMMA WrittenOf ==
  ASSUME NEW t, IsTemplate(t)
  PROVE  LET u == Stored(t)
         IN /\ IsTemplate(u)
            /\ \A f \in Slices : AllSet(u[f].items) /\ u[f].nil = (u[f].items = << >>)
<1> DEFINE u == Stored(t)
<1>1. IsTemplate(u) /\ \A f \in Slices : u[f] = StoredSlice(t[f])
  BY StoredOf
<1> HIDE DEF u
<1>2. ASSUME NEW f \in Slices
      PROVE  AllSet(u[f].items) /\ u[f].nil = (u[f].items = << >>)
  <2>1. IsSlice(t[f])
    BY DEF IsTemplate
  <2> QED
    BY <1>1, <2>1, StoredSliceOf
<1> QED
  BY <1>1, <1>2 DEF u

LEMMA StoredStep ==
  ASSUME TypesInv, [TemplatesNext]_vars
  PROVE  StoredInv'
<1>1. StoredInv
  BY DEF TypesInv
<1>2. ASSUME UNCHANGED template
      PROVE  StoredInv'
  BY <1>1, <1>2 DEF StoredInv
<1>3. ASSUME ApplyStatefulSet
      PROVE  StoredInv'
  <2>1. IsTemplate(mem.template)
    BY <1>3, AppliesOf
  <2>2. ASSUME NEW t, IsTemplate(t), template' = Stored(t)
        PROVE  StoredInv'
    BY <2>2, WrittenOf DEF StoredInv
  <2>3. CASE template' = Stored(SortStatefulSetSlices(mem.template))
    BY <2>1, <2>2, <2>3, SortTemplateOf
  <2>4. CASE IsTemplate(template) /\ template' = Stored(MergePodUpdates(template, mem.template))
    BY <2>1, <2>2, <2>4, MergeOf
  <2> QED
    BY <1>2, <1>3, <2>3, <2>4, AppliesOf
<1>4. ApplySplunkConfig \/ ApplyService \/ Build \/ EditSpec => UNCHANGED template
  BY DEF ApplySplunkConfig, ApplyService, Build, EditSpec, stored
<1>5. EditMaster \/ Fails \/ UNCHANGED vars => UNCHANGED template
  BY DEF EditMaster, Fails, vars, stored
<1> QED
  BY <1>2, <1>3, <1>4, <1>5 DEF TemplatesNext, Reconcile

LEMMA TypesStep == TypesInv /\ [TemplatesNext]_vars => TypesInv'
BY SpecStep, MemStep, StoredStep DEF TypesInv

\* The types of everything the reconcile keeps: what it has in memory at each place, and a
\* stored template with all defaults and without empty slices.
THEOREM TemplatesTypesCorrect == TemplatesSpec => []TemplatesTypeOK
<1>1. TypesInv => TemplatesTypeOK
  <2> SUFFICES ASSUME TypesInv
               PROVE  TemplatesTypeOK
    OBVIOUS
  <2>1. SpecInv /\ MemInv /\ StoredInv
    BY DEF TypesInv
  <2>2. /\ pc \in {"idle", "service", "build", "apply"}
        /\ pc = "idle" <=> mem = NoMem
        /\ pc = "apply" <=> mem.template.exists
    <3>1. CASE pc = "idle" /\ mem = NoMem
      BY <3>1 DEF NoMem, NoTemplate
    <3>2. CASE pc \in {"service", "build"} /\ mem = [spec |-> mem.spec, template |-> NoTemplate]
      <4>1. DOMAIN mem = {"spec", "template"} /\ DOMAIN NoMem = {"template"}
        BY <3>2 DEF NoMem
      <4>2. ~ mem.template.exists
        BY <3>2 DEF NoTemplate
      <4> QED
        BY <3>2, <4>1, <4>2
    <3>3. CASE /\ pc = "apply" /\ IsTemplate(mem.template)
               /\ mem = [spec |-> mem.spec, template |-> mem.template, inputs |-> mem.inputs]
      <4>1. DOMAIN mem = {"spec", "template", "inputs"} /\ DOMAIN NoMem = {"template"}
        BY <3>3 DEF NoMem
      <4> QED
        BY <3>3, <4>1 DEF IsTemplate
    <3> QED
      BY <2>1, <3>1, <3>2, <3>3 DEF MemInv
  <2>3. template.exists =>
          \A f \in Slices : /\ template[f].nil = (template[f].items = << >>)
                            /\ \A i \in DOMAIN template[f].items : template[f].items[i].field = "set"
    BY <2>1 DEF StoredInv, NoTemplate, AllSet
  <2> QED
    BY <2>1, <2>2, <2>3 DEF TemplatesTypeOK, SpecInv
<1> QED
  BY <1>1, TypesInit, TypesStep, PTL DEF TemplatesSpec
-----------------------------------------------------------------------------
(***************************************************************************)
(* What the inputs call for                                                *)
(***************************************************************************)

LEMMA HoldsSlice ==
  ASSUME NEW x, NEW A, Holds(x, A)
  PROVE  IsSlice(x) /\ x.nil = (x.items = << >>) /\ AllSet(x.items)
<1>1. IsSlice(Slice(x.items)) /\ Slice(x.items).nil = (x.items = << >>)
  BY SliceOf DEF Holds
<1> QED
  BY <1>1 DEF Holds

LEMMA HoldsOf ==
  ASSUME NEW s \in Seq(Elements), AllSet(s), Keyed(s)
  PROVE  Holds(Slice(s), ToSet(s))
BY SliceOf DEF Holds

\* Two slices with the same elements do not differ.
LEMMA HoldsSame ==
  ASSUME NEW A, NEW x, NEW y, Holds(x, A), Holds(y, A)
  PROVE  ~ sortAndCompareSlices(x, y)
<1>1. IsSlice(x) /\ IsSlice(y) /\ x.nil = (x.items = << >>) /\ y.nil = (y.items = << >>)
  BY HoldsSlice
<1>2. x.items \in Seq(Elements) /\ y.items \in Seq(Elements)
  BY <1>1 DEF IsSlice
<1>3. Len(x.items) = Len(y.items) /\ Sorted(x.items) = Sorted(y.items)
  BY <1>2, SortedTogether DEF Holds
<1>4. x.nil = y.nil
  <2>1. (x.items = << >>) = (Len(x.items) = 0) /\ (y.items = << >>) = (Len(y.items) = 0)
    BY <1>2
  <2> QED
    BY <1>1, <1>3, <2>1
<1>5. SortSlice(x) = SortSlice(y)
  BY <1>1, <1>3, <1>4, SortSliceOf
<1> QED
  BY <1>3, <1>5 DEF sortAndCompareSlices

LEMMA HoldsSorted ==
  ASSUME NEW A, NEW x, Holds(x, A)
  PROVE  Holds(SortSlice(x), A)
<1> DEFINE s == Sorted(x.items)
<1>1. IsSlice(x) /\ x.nil = (x.items = << >>) /\ AllSet(x.items) /\ x.items \in Seq(Elements)
  BY HoldsSlice DEF IsSlice
<1>2. /\ s \in Seq(Elements) /\ Len(s) = Len(x.items) /\ ToSet(s) = ToSet(x.items)
      /\ Keyed(x.items) => Keyed(s)
      /\ \A k \in DOMAIN s : \E i \in DOMAIN x.items : s[k] = x.items[i]
  BY <1>1, SortedOf
<1>3. SortSlice(x) = [items |-> s, nil |-> x.nil]
  BY <1>1, SortSliceOf
<1> HIDE DEF s
<1>4. x.nil = (s = << >>)
  <2>1. (x.items = << >>) = (Len(x.items) = 0) /\ (s = << >>) = (Len(s) = 0)
    BY <1>1, <1>2
  <2> QED
    BY <1>1, <1>2, <2>1
<1>5. SortSlice(x) = Slice(s)
  BY <1>3, <1>4 DEF Slice
<1>6. AllSet(s) /\ Keyed(s) /\ ToSet(s) = A
  BY <1>1, <1>2 DEF AllSet, Holds
<1> QED
  BY <1>2, <1>5, <1>6, HoldsOf

LEMMA HoldsStored ==
  ASSUME NEW A, NEW x, Holds(x, A)
  PROVE  Holds(StoredSlice(x), A)
<1>1. IsSlice(x) /\ AllSet(x.items)
  BY HoldsSlice
<1>2. StoredSlice(x) = Slice(x.items)
  BY <1>1, StoredSliceOf
<1> QED
  BY <1>2 DEF Holds

LEMMA EnvOfInputs ==
  ASSUME NEW in, in.defaults \in BOOLEAN, in.license \in Licenses \union {None},
         in.read.master \in Licenses \union {None}
  PROVE  LET x == Slice(EnvOf(in))
         IN IsSlice(x) /\ SortSlice(x) = x /\ StoredSlice(x) = x
<1> DEFINE e == EnvOf(in)
           x == Slice(e)
<1>1. e \in Seq(Elements) /\ AllSet(e) /\ Sorted(e) = e
  BY EnvironmentOf DEF EnvOf
<1> HIDE DEF e
<1>2. IsSlice(x) /\ x.items = e /\ x.nil = (e = << >>)
  BY <1>1, SliceOf
<1> HIDE DEF x
<1>3. x = [items |-> e, nil |-> x.nil]
  BY <1>2 DEF IsSlice
<1>4. SortSlice(x) = x
  BY <1>1, <1>2, <1>3, SortSliceOf
<1>5. StoredSlice(x) = Slice(e)
  BY <1>1, <1>2, StoredSliceOf
<1> QED
  BY <1>2, <1>4, <1>5 DEF x, e

\* The slices of a template that fits.
LEMMA FitsOf ==
  ASSUME NEW t, NEW in, Fits(t, in)
  PROVE  IsTemplate(t)
<1>1. IsSlice(t.tolerations) /\ IsSlice(t.ports) /\ IsSlice(t.volumes)
  BY HoldsSlice DEF Fits
<1>2. IsSlice(t.env)
  BY EnvOfInputs DEF Fits
<1> QED
  BY <1>1, <1>2 DEF Fits, IsTemplate, Slices

\* Two templates for the same inputs do not differ.
LEMMA FitsSame ==
  ASSUME NEW t, NEW u, NEW in, Fits(t, in), Fits(u, in)
  PROVE  Changed(t, u) = {}
<1>1. /\ ~ sortAndCompareSlices(t.tolerations, u.tolerations)
      /\ ~ sortAndCompareSlices(t.ports, u.ports)
      /\ ~ sortAndCompareSlices(t.volumes, u.volumes)
  BY HoldsSame DEF Fits
<1>2. ~ sortAndCompareSlices(t.env, u.env)
  BY DEF Fits, sortAndCompareSlices
<1>3. \A f \in Slices : ~ sortAndCompareSlices(t[f], u[f])
  BY <1>1, <1>2 DEF Slices
<1>4. t.image = u.image /\ t.annotation = u.annotation
  BY DEF Fits
<1> QED
  BY <1>3, <1>4 DEF Changed

\* A template fits if each of its slices is one that fits, as it is or sorted.
LEMMA FitsSorted ==
  ASSUME NEW t, NEW in, Fits(t, in), NEW u, IsTemplate(u),
         u.image = t.image, u.annotation = t.annotation,
         \A f \in Slices : u[f] \in {t[f], SortSlice(t[f])}
  PROVE  Fits(u, in)
<1>1. /\ u.tolerations \in {t.tolerations, SortSlice(t.tolerations)}
      /\ u.ports \in {t.ports, SortSlice(t.ports)}
      /\ u.volumes \in {t.volumes, SortSlice(t.volumes)}
      /\ u.env \in {t.env, SortSlice(t.env)}
  BY DEF Slices
<1>2. ASSUME NEW x, NEW A, Holds(x, A), NEW y \in {x, SortSlice(x)}
      PROVE  Holds(y, A)
  BY <1>2, HoldsSorted
<1>3. /\ Holds(u.tolerations, in.tolerations) /\ Holds(u.ports, PortsOf(in))
      /\ Holds(u.volumes, VolumesOf(in))
  BY <1>1, <1>2 DEF Fits
<1>4. u.env = Slice(EnvOf(in))
  BY <1>1, EnvOfInputs DEF Fits
<1> QED
  BY <1>3, <1>4 DEF Fits, IsTemplate

LEMMA FitsStored ==
  ASSUME NEW t, NEW in, Fits(t, in)
  PROVE  Fits(Stored(t), in)
<1> DEFINE u == Stored(t)
<1>1. /\ IsTemplate(u) /\ u.image = t.image /\ u.annotation = t.annotation
      /\ \A f \in Slices : u[f] = StoredSlice(t[f])
  BY FitsOf, StoredOf
<1> HIDE DEF u
<1>2. /\ u.tolerations = StoredSlice(t.tolerations) /\ u.ports = StoredSlice(t.ports)
      /\ u.volumes = StoredSlice(t.volumes) /\ u.env = StoredSlice(t.env)
  BY <1>1 DEF Slices
<1>3. /\ Holds(u.tolerations, in.tolerations) /\ Holds(u.ports, PortsOf(in))
      /\ Holds(u.volumes, VolumesOf(in))
  BY <1>2, HoldsStored DEF Fits
<1>4. u.env = Slice(EnvOf(in))
  BY <1>2, EnvOfInputs DEF Fits
<1>5. Fits(u, in)
  BY <1>1, <1>3, <1>4 DEF Fits, IsTemplate
<1> QED
  BY <1>5 DEF u
\* The slices of a spec, once it has its defaults.
LEMMA ValidFits ==
  ASSUME SpecInv, ~ WritesEmpty, "projected" \notin VolumeKinds
  PROVE  FitsSpec(Validated(spec))
<1> DEFINE v == Validated(spec)
<1>1. /\ spec.tolerations \in Values.tolerations /\ spec.volumes \in Values.volumes
      /\ spec.ports \in Values.ports
  BY FieldsOf DEF SpecInv
<1>2. /\ v.tolerations = spec.tolerations /\ v.volumes = setVolumeDefaults(spec.volumes)
      /\ v.ports = setServiceTemplateDefaults(spec.ports)
  BY ValidatedOf DEF SpecInv
<1> HIDE DEF v
<1>3. Holds(v.tolerations, ToSet(v.tolerations.items))
  BY <1>1, <1>2, TolerationsOf DEF Holds, IsSlice
<1>4. ASSUME NEW x, NEW y, IsSlice(x), IsSlice(y), x = Slice(x.items), Keyed(x.items),
             y.nil = x.nil, Len(y.items) = Len(x.items),
             \A i \in DOMAIN x.items :
               /\ x.items[i].key > 2
               /\ y.items[i].key = x.items[i].key /\ y.items[i].field = "set"
      PROVE  /\ Holds(y, ToSet(y.items))
             /\ \A i \in DOMAIN y.items : y.items[i].key > 2
  <2>1. x.items \in Seq(Elements) /\ y.items \in Seq(Elements)
    BY <1>4 DEF IsSlice
  <2>2. DOMAIN x.items = DOMAIN y.items
    BY <1>4, <2>1
  <2>3. AllSet(y.items) /\ Keyed(y.items)
    BY <1>4, <2>2 DEF AllSet, Keyed
  <2>4. x.nil = (x.items = << >>)
    <3>1. Slice(x.items).nil = (x.items = << >>)
      BY DEF Slice
    <3> QED
      BY <1>4, <3>1
  <2>5. y.nil = (y.items = << >>)
    <3>1. (x.items = << >>) = (Len(x.items) = 0) /\ (y.items = << >>) = (Len(y.items) = 0)
      BY <2>1
    <3> QED
      BY <1>4, <2>4, <3>1
  <2>6. y = Slice(y.items)
    BY <1>4, <2>5 DEF IsSlice, Slice
  <2> QED
    BY <1>4, <2>1, <2>2, <2>3, <2>6 DEF Holds
<1>5. /\ Holds(v.volumes, ToSet(v.volumes.items))
      /\ \A i \in DOMAIN v.volumes.items : v.volumes.items[i].key > 2
  <2>1. /\ IsSlice(spec.volumes) /\ Keyed(spec.volumes.items) /\ spec.volumes = Slice(spec.volumes.items)
        /\ \A i \in DOMAIN spec.volumes.items :
             spec.volumes.items[i].value \in VolumeKinds /\ spec.volumes.items[i].key > 2
    BY <1>1, VolumesOfSpec
  <2>2. \A k \in VolumeKinds : k \in {"secret", "configMap"}
    BY TemplatesAssumption
  <2>3. /\ IsSlice(v.volumes) /\ Len(v.volumes.items) = Len(spec.volumes.items)
        /\ v.volumes.nil = spec.volumes.nil
        /\ \A i \in DOMAIN spec.volumes.items :
             /\ v.volumes.items[i].key = spec.volumes.items[i].key
             /\ v.volumes.items[i].field = "set"
    BY <1>2, <2>1, <2>2, VolumeDefaultsOf
  <2> QED
    BY <1>4, <2>1, <2>3
<1>6. /\ Holds(v.ports, ToSet(v.ports.items))
      /\ \A i \in DOMAIN v.ports.items : v.ports.items[i].key > 2
  <2>1. /\ IsSlice(spec.ports) /\ Keyed(spec.ports.items) /\ spec.ports = Slice(spec.ports.items)
        /\ \A i \in DOMAIN spec.ports.items : spec.ports.items[i].key > 2
    BY <1>1, PortsOfSpec
  <2>2. /\ IsSlice(v.ports) /\ Len(v.ports.items) = Len(spec.ports.items)
        /\ v.ports.nil = spec.ports.nil
        /\ \A i \in DOMAIN spec.ports.items :
             v.ports.items[i].key = spec.ports.items[i].key /\ v.ports.items[i].field = "set"
    BY <1>2, <2>1, PortDefaultsOf
  <2> QED
    BY <1>4, <2>1, <2>2
<1>7. FitsSpec(v)
  BY <1>3, <1>5, <1>6 DEF FitsSpec
<1> QED
  BY <1>7 DEF v

LEMMA BuildFits ==
  ASSUME NEW s, HasSlices(s), FitsSpec(s), NEW r, r.master \in Licenses \union {None}
  PROVE  Fits(BuildTemplate(s, r), Inputs(s, r))
<1> DEFINE t == BuildTemplate(s, r)
           in == Inputs(s, r)
<1>1. /\ DOMAIN t = TemplateFields /\ t.exists = TRUE
      /\ t.image = s.image /\ t.annotation = r.revision
      /\ t.tolerations = s.tolerations /\ t.ports = Slice(SplunkPorts \o s.ports.items)
      /\ t.volumes = TemplateVolumes(s) /\ t.env = TemplateEnv(s, r.master)
  BY DEF BuildTemplate, TemplateFields, Slices
<1>2. /\ in.image = s.image /\ in.read = r /\ in.license = s.license
      /\ in.tolerations = ToSet(s.tolerations.items) /\ in.ports = ToSet(s.ports.items)
      /\ in.volumes = ToSet(s.volumes.items)
      /\ in.defaults \in BOOLEAN /\ in.defaults = (s.defaults # 0)
  BY DEF Inputs
<1> HIDE DEF t, in
<1>3. /\ s.ports.items \in Seq(Elements) /\ AllSet(s.ports.items) /\ Keyed(s.ports.items)
      /\ s.volumes.items \in Seq(Elements) /\ AllSet(s.volumes.items) /\ Keyed(s.volumes.items)
      /\ \A i \in DOMAIN s.ports.items : s.ports.items[i].key > 2
      /\ \A i \in DOMAIN s.volumes.items : s.volumes.items[i].key > 2
  BY DEF FitsSpec, Holds
<1>4. Holds(t.tolerations, in.tolerations)
  BY <1>1, <1>2 DEF FitsSpec
<1>5. Holds(t.ports, PortsOf(in))
  <2> DEFINE p == s.ports.items
             q == SplunkPorts \o p
  <2>1. /\ SplunkPorts \in Seq(Elements) /\ AllSet(SplunkPorts) /\ Keyed(SplunkPorts)
        /\ \A i \in DOMAIN SplunkPorts : SplunkPorts[i].key < 3
    BY TextsOf
  <2>2. \A i \in DOMAIN SplunkPorts, j \in DOMAIN p : SplunkPorts[i].key # p[j].key
    <3>1. \A i \in DOMAIN SplunkPorts : SplunkPorts[i].key \in Nat
      BY <2>1, ElementOf
    <3>2. \A j \in DOMAIN p : p[j].key \in Nat /\ p[j].key > 2
      BY <1>3, ElementOf
    <3> QED
      BY <2>1, <3>1, <3>2
  <2>3. q \in Seq(Elements) /\ AllSet(q) /\ Keyed(q) /\ ToSet(q) = ToSet(SplunkPorts) \union ToSet(p)
    <3> HIDE DEF p
    <3>1. p \in Seq(Elements) /\ AllSet(p) /\ Keyed(p)
      BY <1>3 DEF p
    <3> QED
      BY <2>1, <2>2, <3>1, ConcatOf
  <2>4. ToSet(q) = PortsOf(in)
    BY <1>2, <2>3 DEF PortsOf
  <2>5. t.ports = Slice(q)
    BY <1>1
  <2> HIDE DEF q
  <2> QED
    BY <2>3, <2>4, <2>5, HoldsOf
<1>6. Holds(t.volumes, VolumesOf(in))
  <2> DEFINE p == s.volumes.items
             d == El(1, "mnt-splunk-secrets", "set")
             e == El(2, "mnt-splunk-defaults", "set")
             a == <<d>>
             b == IF s.defaults = 0 THEN << >> ELSE <<e>>
             q == p \o a \o b
  <2>1. /\ d \in Elements /\ d.key = 1 /\ d.field = "set"
        /\ e \in Elements /\ e.key = 2 /\ e.field = "set"
    BY TextsOf DEF El
  <2>2. t.volumes = Slice(q)
    BY <1>1 DEF TemplateVolumes
  <2> HIDE DEF d, e
  <2>3. /\ a \in Seq(Elements) /\ AllSet(a) /\ Keyed(a) /\ ToSet(a) = {d}
        /\ \A i \in DOMAIN a : a[i].key = 1
    BY <2>1, OneOf
  <2>4. /\ b \in Seq(Elements) /\ AllSet(b) /\ Keyed(b)
        /\ ToSet(b) = (IF in.defaults THEN {e} ELSE {})
        /\ \A i \in DOMAIN b : b[i].key = 2
    <3>1. CASE s.defaults = 0
      BY <1>2, <3>1, NoneOf
    <3>2. CASE s.defaults # 0
      <4>1. b = <<e>> /\ in.defaults
        BY <1>2, <3>2
      <4>2. /\ <<e>> \in Seq(Elements) /\ AllSet(<<e>>) /\ Keyed(<<e>>) /\ ToSet(<<e>>) = {e}
            /\ \A i \in DOMAIN <<e>> : <<e>>[i].key = 2
        BY <2>1, OneOf
      <4> HIDE DEF b
      <4> QED
        BY <4>1, <4>2
    <3> QED
      BY <3>1, <3>2
  <2>5. p \in Seq(Elements) /\ AllSet(p) /\ Keyed(p) /\ \A i \in DOMAIN p : p[i].key \in Nat /\ p[i].key > 2
    BY <1>3, ElementOf
  <2>6. in.volumes = ToSet(p)
    BY <1>2
  <2> HIDE DEF p, a, b
  <2> DEFINE c == p \o a
  <2>7. c \in Seq(Elements) /\ AllSet(c) /\ Keyed(c) /\ ToSet(c) = ToSet(p) \union {d}
    <3>1. \A i \in DOMAIN p, j \in DOMAIN a : p[i].key # a[j].key
      BY <2>3, <2>5
    <3> QED
      BY <2>3, <2>5, <3>1, ConcatOf
  <2>8. \A x \in ToSet(c) : x.key # 2
    <3>1. \A x \in ToSet(p) : x.key > 2 /\ x.key \in Nat
      BY <2>5 DEF ToSet
    <3> QED
      BY <2>1, <2>7, <3>1
  <2> HIDE DEF c
  <2>9. \A i \in DOMAIN c, j \in DOMAIN b : c[i].key # b[j].key
    BY <2>4, <2>8 DEF ToSet
  <2>10. /\ c \o b \in Seq(Elements) /\ AllSet(c \o b) /\ Keyed(c \o b)
         /\ ToSet(c \o b) = ToSet(c) \union ToSet(b)
    BY <2>4, <2>7, <2>9, ConcatOf
  <2>11. Holds(Slice(c \o b), ToSet(c \o b))
    BY <2>10, HoldsOf
  <2>12. ToSet(c \o b) = VolumesOf(in)
    BY <2>4, <2>6, <2>7, <2>10 DEF VolumesOf, d, e
  <2> QED
    BY <2>2, <2>11, <2>12 DEF c
<1>7. t.env = Slice(EnvOf(in))
  BY <1>1, <1>2 DEF TemplateEnv, EnvOf
<1>8. Fits(t, in)
  BY <1>1, <1>2, <1>4, <1>5, <1>6, <1>7 DEF Fits, HasSlices
<1> QED
  BY <1>8 DEF t, in

\* A template that does not differ from one for other inputs fits these as well.
LEMMA HoldsStill ==
  ASSUME NEW A, NEW B, NEW x, NEW y, Holds(x, A), Holds(y, B), ~ sortAndCompareSlices(x, y)
  PROVE  Holds(x, B)
<1>1. IsSlice(x) /\ IsSlice(y) /\ x.items \in Seq(Elements) /\ y.items \in Seq(Elements)
  BY HoldsSlice DEF IsSlice
<1>2. SortSlice(x) = SortSlice(y)
  BY DEF sortAndCompareSlices
<1>3. Sorted(x.items) = Sorted(y.items)
  BY <1>1, <1>2, SortSliceOf
<1>4. ToSet(x.items) = ToSet(y.items)
  BY <1>1, <1>3, SortedOf
<1> QED
  BY <1>4 DEF Holds

LEMMA FitsStill ==
  ASSUME NEW t, NEW u, NEW a, NEW b, Fits(t, a), Fits(u, b), Changed(t, u) = {}
  PROVE  Fits(t, b)
<1>1. \A f \in Slices : ~ sortAndCompareSlices(t[f], u[f])
  BY DEF Changed
<1>2. t.image = u.image /\ t.annotation = u.annotation
  BY DEF Changed
<1>3. /\ ~ sortAndCompareSlices(t.tolerations, u.tolerations)
      /\ ~ sortAndCompareSlices(t.ports, u.ports)
      /\ ~ sortAndCompareSlices(t.volumes, u.volumes)
      /\ ~ sortAndCompareSlices(t.env, u.env)
  BY <1>1 DEF Slices
<1>4. /\ Holds(t.tolerations, b.tolerations) /\ Holds(t.ports, PortsOf(b))
      /\ Holds(t.volumes, VolumesOf(b))
  BY <1>3, HoldsStill DEF Fits
<1>5. t.env = u.env
  <2>1. SortSlice(t.env) = t.env /\ SortSlice(u.env) = u.env
    BY EnvOfInputs DEF Fits
  <2> QED
    BY <1>3, <2>1 DEF sortAndCompareSlices
<1> QED
  BY <1>2, <1>4, <1>5 DEF Fits

-----------------------------------------------------------------------------
(***************************************************************************)
(* Rollouts                                                                *)
(***************************************************************************)

LEMMA FitsInit == TemplatesInit => FitsInv
BY DEF TemplatesInit, FitsInv, NoTemplate

LEMMA FitsStep ==
  ASSUME ~ WritesEmpty, "projected" \notin VolumeKinds, TypesInv, FitsInv, [TemplatesNext]_vars
  PROVE  FitsInv'
<1>1. SpecInv /\ MemInv /\ StoredInv
  BY DEF TypesInv
<1>2. ASSUME ApplySplunkConfig
      PROVE  FitsInv'
  <2>1. /\ mem' = [spec |-> Validated(spec), template |-> NoTemplate] /\ pc' = "service"
        /\ template' = template /\ applied' = applied
    BY <1>2 DEF ApplySplunkConfig
  <2>2. mem'.spec = Validated(spec)
    BY <2>1
  <2>3. FitsSpec(mem'.spec)
    BY <1>1, <2>2, ValidFits
  <2> QED
    BY <2>1, <2>3 DEF FitsInv
<1>3. ASSUME ApplyService
      PROVE  FitsInv'
  BY <1>3 DEF FitsInv, ApplyService
<1>4. ASSUME Build
      PROVE  FitsInv'
  <2>1. PICK failed \in SUBSET {"master", "configMap"} :
          mem' = [spec |-> mem.spec, template |-> BuildTemplate(mem.spec, Read(mem.spec, failed)),
                  inputs |-> Inputs(mem.spec, Read(mem.spec, failed))]
    BY <1>4 DEF Build
  <2>2. HasSlices(mem.spec) /\ FitsSpec(mem.spec)
    BY <1>1, <1>4 DEF MemInv, FitsInv, Build
  <2>3. Read(mem.spec, failed).master \in Licenses \union {None}
    BY <1>1 DEF Read, SpecInv
  <2>4. Fits(BuildTemplate(mem.spec, Read(mem.spec, failed)), Inputs(mem.spec, Read(mem.spec, failed)))
    BY <2>2, <2>3, BuildFits
  <2>5. /\ mem'.template = BuildTemplate(mem.spec, Read(mem.spec, failed))
        /\ mem'.inputs = Inputs(mem.spec, Read(mem.spec, failed))
    BY <2>1
  <2>6. pc' = "apply" /\ template' = template /\ applied' = applied
    BY <1>4 DEF Build, stored
  <2> QED
    BY <2>4, <2>5, <2>6 DEF FitsInv
<1>5. ASSUME ApplyStatefulSet
      PROVE  FitsInv'
  <2>1. Fits(mem.template, mem.inputs)
    BY <1>5 DEF FitsInv, ApplyStatefulSet
  <2>2. pc' = "idle" /\ applied' = mem.inputs
    BY <1>5 DEF ApplyStatefulSet, End
  <2>3. ASSUME NEW t, IsTemplate(t), t.image = mem.template.image,
               t.annotation = mem.template.annotation,
               \A f \in Slices : t[f] \in {mem.template[f], SortSlice(mem.template[f])},
               template' = Stored(t)
        PROVE  Fits(template', mem.inputs)
    BY <2>1, <2>3, FitsSorted, FitsStored
  <2>4. IsTemplate(mem.template)
    BY <2>1, FitsOf
  <2>5. ASSUME template' = Stored(SortStatefulSetSlices(mem.template))
        PROVE  Fits(template', mem.inputs)
    <3> DEFINE u == SortStatefulSetSlices(mem.template)
    <3>1. /\ IsTemplate(u) /\ u.image = mem.template.image
          /\ u.annotation = mem.template.annotation
          /\ \A f \in Slices : u[f] \in {mem.template[f], SortSlice(mem.template[f])}
      BY <2>4, SortTemplateOf
    <3> HIDE DEF u
    <3> QED
      BY <2>3, <2>5, <3>1 DEF u
  <2>6. ASSUME IsTemplate(template), template' = Stored(MergePodUpdates(template, mem.template))
        PROVE  Fits(template', mem.inputs)
    <3> DEFINE u == MergePodUpdates(template, mem.template)
    <3>1. /\ IsTemplate(u) /\ u.image = mem.template.image
          /\ u.annotation = mem.template.annotation
          /\ \A f \in Slices : u[f] \in {mem.template[f], SortSlice(mem.template[f])}
      BY <2>4, <2>6, MergeOf
    <3> HIDE DEF u
    <3> QED
      BY <2>3, <2>6, <3>1 DEF u
  <2>7. ASSUME IsTemplate(template), Changed(template, mem.template) = {}, template' = template
        PROVE  Fits(template', mem.inputs)
    <3>1. Fits(template, applied)
      BY <2>7 DEF FitsInv, IsTemplate
    <3> QED
      BY <2>1, <2>7, <3>1, FitsStill
  <2> QED
    BY <1>5, <2>2, <2>5, <2>6, <2>7, AppliesOf DEF FitsInv
<1>6. ASSUME Fails
      PROVE  FitsInv'
  BY <1>6 DEF FitsInv, Fails, End, stored
<1>7. ASSUME EditSpec \/ EditMaster \/ UNCHANGED vars
      PROVE  FitsInv'
  <2>1. pc' = pc /\ mem' = mem /\ template' = template /\ applied' = applied
    BY <1>7 DEF EditSpec, EditMaster, vars, stored
  <2> QED
    BY <2>1 DEF FitsInv
<1> QED
  BY <1>2, <1>3, <1>4, <1>5, <1>6, <1>7 DEF TemplatesNext, Reconcile

\* Where the user writes no empty lists and no volumes whose defaults the operator does not know:
\* every slice of the stored template has the elements its inputs call for.
THEOREM TemplatesInvariant ==
  ASSUME ~ WritesEmpty, "projected" \notin VolumeKinds
  PROVE  TemplatesSpec => [](TypesInv /\ FitsInv)
<1>1. TemplatesInit => TypesInv /\ FitsInv
  BY TypesInit, FitsInit
<1>2. TypesInv /\ FitsInv /\ [TemplatesNext]_vars => TypesInv' /\ FitsInv'
  BY TypesStep, FitsStep
<1> QED
  BY <1>1, <1>2, PTL DEF TemplatesSpec

\* Pods are restarted only if something they depend on was changed: not for another order, a
\* default that was filled in, or another reconcile, whatever fails in between.
THEOREM RolloutsCorrect ==
  ASSUME ~ WritesEmpty, "projected" \notin VolumeKinds
  PROVE  TemplatesSpec => RolloutsHaveACause
<1>1. TypesInv /\ FitsInv /\ [TemplatesNext]_vars
        => [template.exists /\ template' # template => mem.inputs # applied]_vars
  <2> SUFFICES ASSUME TypesInv, FitsInv, [TemplatesNext]_vars, template.exists,
                      template' # template, mem.inputs = applied
               PROVE  FALSE
    OBVIOUS
  <2>1. ApplyStatefulSet
    <3>1. ApplySplunkConfig \/ ApplyService \/ Build \/ EditSpec => UNCHANGED template
      BY DEF ApplySplunkConfig, ApplyService, Build, EditSpec, stored
    <3>2. EditMaster \/ Fails \/ UNCHANGED vars => UNCHANGED template
      BY DEF EditMaster, Fails, vars, stored
    <3> QED
      BY <3>1, <3>2 DEF TemplatesNext, Reconcile
  <2>2. Fits(template, applied) /\ Fits(mem.template, applied)
    BY <2>1 DEF FitsInv, ApplyStatefulSet
  <2>3. Changed(template, mem.template) = {}
    BY <2>2, FitsSame
  <2> QED
    BY <2>1, <2>3 DEF ApplyStatefulSet
<1>2. TemplatesSpec => [](TypesInv /\ FitsInv)
  BY TemplatesInvariant
<1> QED
  BY <1>1, <1>2, PTL DEF RolloutsHaveACause, TemplatesSpec

=============================================================================
