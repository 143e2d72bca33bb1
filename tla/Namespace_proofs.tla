-------------------------- MODULE Namespace_proofs --------------------------
(***************************************************************************)
(* What the workers of one namespace can rely on while they share its      *)
(* objects, for any resources, replicas, edits and failures: a deletion    *)
(* leaves no claims behind, a resource that stays keeps its owner          *)
(* references and its URLs, and no update of the URLs is lost.             *)
(*                                                                         *)
(* The lists of URLs come first: what picking, cutting and adding do to    *)
(* them, and that neither function touches URLs of other resources.        *)
(***************************************************************************)
EXTENDS Namespace, TLAPS, FiniteSetTheorems

-----------------------------------------------------------------------------
(***************************************************************************)
(* Picking elements of a list                                              *)
(***************************************************************************)

\* The rank of a position among those picked.
Rank(I) == [i \in I |-> Cardinality({j \in I : j <= i})]

LEMMA Ranks ==
  ASSUME NEW I, I \subseteq Int, IsFiniteSet(I)
  PROVE  Rank(I) \in Bijection(I, 1 .. Cardinality(I))
<1> DEFINE n == Cardinality(I)
           Upto(i) == {j \in I : j <= i}
<1>1. n \in Nat
  BY FS_CardinalityType
<1>2. ASSUME NEW i \in I
      PROVE  IsFiniteSet(Upto(i)) /\ Cardinality(Upto(i)) \in 1 .. n
  <2>1. Upto(i) \in SUBSET I /\ i \in Upto(i)
    OBVIOUS
  <2>2. IsFiniteSet(Upto(i)) /\ Cardinality(Upto(i)) <= n
    BY <2>1, FS_Subset
  <2>3. Cardinality(Upto(i)) \in Nat /\ Cardinality(Upto(i)) # 0
    <3> HIDE DEF Upto
    <3> QED
      BY <2>1, <2>2, FS_CardinalityType, FS_EmptySet
  <2> HIDE DEF Upto, n
  <2> QED
    BY <1>1, <2>2, <2>3
<1>3. ASSUME NEW i \in I, NEW j \in I, i < j
      PROVE  Cardinality(Upto(i)) # Cardinality(Upto(j))
  <2>1. \A x \in I : x \in Int
    OBVIOUS
  <2>2. (\A x \in I : x <= i => x <= j) /\ j <= j /\ ~ (j <= i)
    BY <1>3, <2>1
  <2>3. Upto(i) \in SUBSET Upto(j) /\ j \in Upto(j) /\ j \notin Upto(i)
    BY <2>2
  <2>4. IsFiniteSet(Upto(j))
    BY <1>2
  <2> HIDE DEF Upto
  <2> QED
    BY <2>3, <2>4, FS_Subset
<1>4. Rank(I) \in Injection(I, 1 .. n)
  <2>1. Rank(I) \in [I -> 1 .. n]
    BY <1>2 DEF Rank
  <2>2. ASSUME NEW i \in I, NEW j \in I, Rank(I)[i] = Rank(I)[j]
        PROVE  i = j
    <3>1. Rank(I)[i] = Cardinality(Upto(i)) /\ Rank(I)[j] = Cardinality(Upto(j))
      BY DEF Rank
    <3>2. i \in Int /\ j \in Int
      OBVIOUS
    <3> HIDE DEF Upto
    <3>3. ~ (i < j)
      BY <1>3, <2>2, <3>1
    <3>4. ~ (j < i)
      BY <1>3, <2>2, <3>1
    <3> QED
      BY <3>2, <3>3, <3>4
  <2> QED
    BY <2>1, <2>2 DEF Injection, IsInjective
<1>5. IsFiniteSet(1 .. n) /\ Cardinality(1 .. n) = n
  BY <1>1, FS_Interval
<1>6. Rank(I) \in Surjection(I, 1 .. n)
  BY <1>4, <1>5, FS_Injection
<1> QED
  BY <1>4, <1>6 DEF Bijection

\* Pick(s, I) has the elements at I, each once.
LEMMA PickOf ==
  ASSUME NEW S, NEW s \in Seq(S), NEW I \in SUBSET (DOMAIN s)
  PROVE  /\ Pick(s, I) \in Seq(S)
         /\ ToSet(Pick(s, I)) = {s[i] : i \in I}
         /\ IsInjective(s) => IsInjective(Pick(s, I))
<1> DEFINE n == Cardinality(I)
           At(k) == CHOOSE i \in I : Cardinality({j \in I : j <= i}) = k
<1>1. I \subseteq Int /\ IsFiniteSet(I) /\ n \in Nat
  <2>1. DOMAIN s = 1 .. Len(s) /\ Len(s) \in Nat
    OBVIOUS
  <2>2. IsFiniteSet(DOMAIN s)
    BY <2>1, FS_Interval
  <2> QED
    BY <2>1, <2>2, FS_Subset, FS_CardinalityType
<1>2. /\ \A i \in I : Rank(I)[i] \in 1 .. n
      /\ \A k \in 1 .. n : \E i \in I : Rank(I)[i] = k
      /\ \A i, j \in I : Rank(I)[i] = Rank(I)[j] => i = j
  BY <1>1, Ranks DEF Bijection, Injection, Surjection, IsInjective
<1>3. \A i \in I : Rank(I)[i] = Cardinality({j \in I : j <= i})
  BY DEF Rank
<1>4. \A k \in 1 .. n : At(k) \in I /\ Rank(I)[At(k)] = k
  BY <1>2, <1>3
<1>5. \A i \in I : \E k \in 1 .. n : At(k) = i
  BY <1>2, <1>4
<1>6. Pick(s, I) = [k \in 1 .. n |-> s[At(k)]]
  BY DEF Pick
<1> HIDE DEF At, n
<1>7. \A i \in I : s[i] \in S
  OBVIOUS
<1>8. Pick(s, I) \in [1 .. n -> S]
  BY <1>4, <1>6, <1>7
<1>9. Pick(s, I) \in Seq(S)
  BY <1>1, <1>8
<1>10. ToSet(Pick(s, I)) = {s[i] : i \in I}
  BY <1>4, <1>5, <1>6 DEF ToSet
<1>11. IsInjective(s) => IsInjective(Pick(s, I))
  <2> SUFFICES ASSUME IsInjective(s), NEW k \in 1 .. n, NEW l \in 1 .. n, s[At(k)] = s[At(l)]
               PROVE  k = l
    BY <1>6 DEF IsInjective
  <2>1. At(k) \in DOMAIN s /\ At(l) \in DOMAIN s
    BY <1>4
  <2>2. At(k) = At(l)
    BY <2>1 DEF IsInjective
  <2> QED
    BY <1>4, <2>2
<1> QED
  BY <1>9, <1>10, <1>11

-----------------------------------------------------------------------------
(***************************************************************************)
(* The lists of URLs                                                       *)
(***************************************************************************)

URLs ==
  [resource : Resources \union {"site0"},
   component : {"search-head", "deployer", "cluster-master", "site"}, ordinal : Nat]

\* The list of variable e has no URL twice; that of the sites has those of sites.
GoodList(e, s) ==
  /\ s \in Seq(URLs) /\ IsInjective(s)
  /\ e = "SPLUNK_SITE" => \A u \in ToSet(s) : u.resource = "site0"

GoodEnv(env) ==
  /\ DOMAIN env = EnvNames /\ env = [e \in EnvNames |-> env[e]]
  /\ \A e \in EnvNames : GoodList(e, env[e])

\* Variables with URLs of resource c.
GoodNew(c, new) ==
  /\ DOMAIN new = 1 .. Len(new) /\ Len(new) \in 1 .. 3
  /\ \A i \in DOMAIN new :
       /\ new[i].name \in EnvNames /\ GoodList(new[i].name, new[i].urls)
       /\ \A u \in ToSet(new[i].urls) : u.resource \in {c, "site0"}

\* Of the resources, only c may lose URLs.
KeepsOthers(env, env2, c) ==
  \A e \in EnvNames : \A u \in ToSet(env[e]) : u.resource \notin {c, "site0"} => u \in ToSet(env2[e])

LEMMA UrlOf ==
  ASSUME NEW c \in Resources \union {"site0"}, NEW i \in Nat,
         NEW x \in {"search-head", "deployer", "cluster-master", "site"}
  PROVE  Url(c, x, i) \in URLs /\ Url(c, x, i).resource = c /\ Url(c, x, i).ordinal = i
BY DEF Url, URLs

LEMMA OneUrl ==
  ASSUME NEW u \in URLs, NEW e, e = "SPLUNK_SITE" => u.resource = "site0"
  PROVE  GoodList(e, <<u>>) /\ ToSet(<<u>>) = {u}
BY DEF GoodList, IsInjective, ToSet

LEMMA VariablesOf ==
  ASSUME NEW c \in Resources, NEW n \in Nat
  PROVE  GoodNew(c, Variables(c, n))
<1> DEFINE new == Variables(c, n)
<1> DEFINE heads == [i \in 1 .. n |-> Url(c, "search-head", i - 1)]
<1>1. GoodList("SPLUNK_SEARCH_HEAD_URL", heads) /\ \A u \in ToSet(heads) : u.resource = c
  <2>1. \A i \in 1 .. n : /\ Url(c, "search-head", i - 1) \in URLs
                          /\ Url(c, "search-head", i - 1).resource = c
                          /\ Url(c, "search-head", i - 1).ordinal = i - 1
    BY UrlOf
  <2>2. heads \in Seq(URLs)
    BY <2>1
  <2>3. IsInjective(heads)
    BY <2>1 DEF IsInjective
  <2> QED
    BY <2>1, <2>2, <2>3 DEF GoodList, ToSet
<1>2. ASSUME NEW x \in {"search-head", "deployer", "cluster-master"}, NEW e \in EnvNames \ {"SPLUNK_SITE"}
      PROVE  GoodList(e, <<Url(c, x, 0)>>) /\ \A u \in ToSet(<<Url(c, x, 0)>>) : u.resource = c
  BY UrlOf, OneUrl
<1>3. /\ GoodList("SPLUNK_SITE", <<Url("site0", "site", 0)>>)
      /\ \A u \in ToSet(<<Url("site0", "site", 0)>>) : u.resource = "site0"
  BY UrlOf, OneUrl
<1> HIDE DEF heads
<1>4. CASE c \in SearchHeadClusters
  <2>1. new = <<[name |-> "SPLUNK_SEARCH_HEAD_URL", urls |-> heads],
                [name |-> "SPLUNK_SEARCH_HEAD_CAPTAIN_URL", urls |-> <<Url(c, "search-head", 0)>>],
                [name |-> "SPLUNK_DEPLOYER_URL", urls |-> <<Url(c, "deployer", 0)>>]>>
    BY <1>4 DEF Variables, heads
  <2> HIDE DEF new
  <2>2. Len(new) = 3 /\ DOMAIN new = 1 .. 3
    BY <2>1
  <2>3. /\ new[1].name = "SPLUNK_SEARCH_HEAD_URL" /\ new[1].urls = heads
        /\ new[2].name = "SPLUNK_SEARCH_HEAD_CAPTAIN_URL" /\ new[2].urls = <<Url(c, "search-head", 0)>>
        /\ new[3].name = "SPLUNK_DEPLOYER_URL" /\ new[3].urls = <<Url(c, "deployer", 0)>>
    BY <2>1
  <2>4. ASSUME NEW i \in 1 .. 3
        PROVE  /\ new[i].name \in EnvNames /\ GoodList(new[i].name, new[i].urls)
               /\ \A u \in ToSet(new[i].urls) : u.resource \in {c, "site0"}
    <3>1. i = 1 \/ i = 2 \/ i = 3
      OBVIOUS
    <3> QED
      BY <1>1, <1>2, <2>3, <3>1 DEF EnvNames
  <2>5. GoodNew(c, new)
    BY <2>2, <2>4 DEF GoodNew
  <2> QED
    BY <2>5 DEF new
<1>5. CASE c \notin SearchHeadClusters
  <2> DEFINE master == [name |-> "SPLUNK_CLUSTER_MASTER_URL", urls |-> <<Url(c, "cluster-master", 0)>>]
             site   == [name |-> "SPLUNK_SITE", urls |-> <<Url("site0", "site", 0)>>]
             multi  == [name |-> "SPLUNK_MULTISITE_MASTER", urls |-> <<Url(c, "cluster-master", 0)>>]
             Good(v) == /\ v.name \in EnvNames /\ GoodList(v.name, v.urls)
                        /\ \A u \in ToSet(v.urls) : u.resource \in {c, "site0"}
  <2>1. new = <<master>> \o IF c \notin Multisite THEN << >> ELSE <<site, multi>>
    BY <1>5 DEF Variables
  <2>2. Good(master) /\ Good(site) /\ Good(multi)
    <3>1. /\ master.name = "SPLUNK_CLUSTER_MASTER_URL" /\ master.urls = <<Url(c, "cluster-master", 0)>>
          /\ site.name = "SPLUNK_SITE" /\ site.urls = <<Url("site0", "site", 0)>>
          /\ multi.name = "SPLUNK_MULTISITE_MASTER" /\ multi.urls = <<Url(c, "cluster-master", 0)>>
      OBVIOUS
    <3> HIDE DEF master, site, multi
    <3> QED
      BY <1>2, <1>3, <3>1 DEF EnvNames
  <2> HIDE DEF new, master, site, multi
  <2> DEFINE All == {master, site, multi}
  <2>3. ASSUME NEW more \in Seq(All), Len(more) \in {0, 2}, new = <<master>> \o more
        PROVE  /\ Len(new) \in {1, 3} /\ DOMAIN new = 1 .. Len(new)
               /\ \A i \in DOMAIN new : new[i] \in All
    <3>1. <<master>> \in Seq(All) /\ Len(<<master>>) = 1
      OBVIOUS
    <3> HIDE DEF All
    <3>2. new \in Seq(All) /\ Len(new) = 1 + Len(more)
      BY <2>3, <3>1
    <3>3. (Len(more) = 0 \/ Len(more) = 2) /\ Len(more) \in Int
      BY <2>3
    <3>4. Len(new) \in {1, 3}
      <4>1. ASSUME NEW l, NEW m \in Int, l = 1 + m, m = 0 \/ m = 2
            PROVE  l \in {1, 3}
        BY <4>1
      <4> QED
        BY <3>2, <3>3, <4>1
    <3>5. DOMAIN new = 1 .. Len(new) /\ \A i \in DOMAIN new : new[i] \in All
      BY <3>2
    <3> QED
      BY <3>4, <3>5
  <2>4. << >> \in Seq(All) /\ Len(<< >>) = 0
    OBVIOUS
  <2>5. <<site, multi>> \in Seq(All) /\ Len(<<site, multi>>) = 2
    OBVIOUS
  <2>6. /\ Len(new) \in {1, 3} /\ DOMAIN new = 1 .. Len(new)
         /\ \A i \in DOMAIN new : new[i] \in All
    <3> HIDE DEF All
    <3> QED
      BY <2>1, <2>3, <2>4, <2>5
  <2>7. GoodNew(c, new)
    BY <2>2, <2>6 DEF GoodNew
  <2> QED
    BY <2>7 DEF new
<1> QED
  BY <1>4, <1>5

LEMMA CutOf ==
  ASSUME NEW s \in Seq(URLs), NEW list \in Seq(URLs)
  PROVE  /\ Cut(s, list) \in Seq(URLs)
         /\ IsInjective(s) => IsInjective(Cut(s, list))
         /\ ToSet(Cut(s, list)) \subseteq ToSet(s)
         /\ ToSet(s) \ ToSet(list) \subseteq ToSet(Cut(s, list))
<1> DEFINE starts == {i \in DOMAIN s : i + Len(list) - 1 <= Len(s)
                                       /\ \A j \in DOMAIN list : list[j] = s[i + j - 1]}
           start  == CHOOSE i \in starts : TRUE
           I      == {i \in DOMAIN s : i < start \/ i >= start + Len(list)}
<1>0. starts = {i \in DOMAIN s : i + Len(list) - 1 <= Len(s)
                                 /\ \A j \in DOMAIN list : s[i + j - 1] = list[j]}
  OBVIOUS
<1>1. CASE starts = {}
  <2>1. Cut(s, list) = s
    BY <1>0, <1>1 DEF Cut
  <2> QED
    BY <2>1
<1>2. CASE starts # {}
  <2>1. Cut(s, list) = Pick(s, I)
    BY <1>0, <1>2 DEF Cut
  <2>2. start \in starts
    BY <1>2
  <2>3. /\ start \in DOMAIN s /\ start + Len(list) - 1 <= Len(s)
        /\ \A j \in DOMAIN list : list[j] = s[start + j - 1]
    <3> HIDE DEF start
    <3> QED
      BY <2>2
  <2>4. Len(list) \in Nat /\ Len(s) \in Nat /\ DOMAIN s = 1 .. Len(s) /\ DOMAIN list = 1 .. Len(list)
    OBVIOUS
  <2>5. I \in SUBSET (DOMAIN s)
    OBVIOUS
  <2>6. ASSUME NEW i \in DOMAIN s, i \notin I
        PROVE  s[i] \in ToSet(list)
    <3>1. i >= start /\ i < start + Len(list)
      BY <2>3, <2>4, <2>6
    <3> HIDE DEF start
    <3>2. i - start + 1 \in 1 .. Len(list) /\ start + (i - start + 1) - 1 = i
      BY <2>3, <2>4, <3>1
    <3>3. list[i - start + 1] = s[i]
      BY <2>3, <3>2
    <3> QED
      BY <2>4, <3>2, <3>3 DEF ToSet
  <2> HIDE DEF I
  <2>7. /\ Pick(s, I) \in Seq(URLs) /\ ToSet(Pick(s, I)) = {s[i] : i \in I}
        /\ IsInjective(s) => IsInjective(Pick(s, I))
    BY <2>5, PickOf
  <2>8. {s[i] : i \in I} \subseteq ToSet(s)
    BY <2>5 DEF ToSet
  <2>9. ToSet(s) \ ToSet(list) \subseteq {s[i] : i \in I}
    BY <2>6 DEF ToSet
  <2> QED
    BY <2>1, <2>7, <2>8, <2>9
<1> QED
  BY <1>1, <1>2

\* A list with the URLs of s without some of it is as good.
LEMMA PartOf ==
  ASSUME NEW e, NEW s, GoodList(e, s), NEW t \in Seq(URLs), IsInjective(t), ToSet(t) \subseteq ToSet(s)
  PROVE  GoodList(e, t)
BY DEF GoodList

LEMMA DeleteOf ==
  ASSUME NEW c, NEW new, GoodNew(c, new), NEW env, GoodEnv(env), NEW deleteCR \in BOOLEAN
  PROVE  LET env2 == DeleteURLsConfigMap(env, c, new, deleteCR)
         IN GoodEnv(env2) /\ KeepsOthers(env, env2, c)
<1> DEFINE env2 == DeleteURLsConfigMap(env, c, new, deleteCR)
           list(e) == (CHOOSE v \in ToSet(new) : v.name = e).urls
           I(e) == {i \in DOMAIN env[e] : env[e][i].resource = c => env[e][i] \in ToSet(list(e))}
<1>1. DOMAIN env2 = EnvNames /\ env2 = [e \in EnvNames |-> env2[e]]
  BY DEF DeleteURLsConfigMap
<1>2. ASSUME NEW e \in EnvNames
      PROVE  /\ GoodList(e, env2[e])
             /\ \A u \in ToSet(env[e]) : u.resource \notin {c, "site0"} => u \in ToSet(env2[e])
  <2>1. GoodList(e, env[e]) /\ env[e] \in Seq(URLs) /\ IsInjective(env[e])
    BY DEF GoodEnv, GoodList
  <2>2. CASE \A i \in DOMAIN new : new[i].name # e
    <3>1. env2[e] = env[e]
      BY <2>2 DEF DeleteURLsConfigMap
    <3> QED
      BY <2>1, <3>1
  <2>3. CASE \E i \in DOMAIN new : new[i].name = e
    <3>1. PICK i \in DOMAIN new : new[i].urls = list(e)
      <4>1. \E v \in ToSet(new) : v.name = e
        BY <2>3 DEF ToSet
      <4>2. (CHOOSE v \in ToSet(new) : v.name = e) \in ToSet(new)
        BY <4>1
      <4> QED
        BY <4>2 DEF ToSet
    <3>2. list(e) \in Seq(URLs) /\ \A u \in ToSet(list(e)) : u.resource \in {c, "site0"}
      BY <3>1 DEF GoodNew, GoodList
    <3>3. env2[e] = IF deleteCR THEN IF e = "SPLUNK_SITE" THEN << >> ELSE Cut(env[e], list(e))
                    ELSE Pick(env[e], I(e))
      BY <2>3 DEF DeleteURLsConfigMap
    <3>4. I(e) \in SUBSET (DOMAIN env[e])
      OBVIOUS
    <3>5. {env[e][j] : j \in I(e)} \subseteq ToSet(env[e])
      BY DEF ToSet
    <3>6. \A u \in ToSet(env[e]) : u.resource # c => u \in {env[e][j] : j \in I(e)}
      BY DEF ToSet
    <3> HIDE DEF list, I, env2
    <3>7. CASE ~ deleteCR
      <4>1. env2[e] = Pick(env[e], I(e))
        BY <3>3, <3>7
      <4>2. /\ Pick(env[e], I(e)) \in Seq(URLs) /\ IsInjective(Pick(env[e], I(e)))
            /\ ToSet(Pick(env[e], I(e))) = {env[e][j] : j \in I(e)}
        BY <2>1, <3>4, PickOf
      <4>3. GoodList(e, env2[e])
        BY <2>1, <3>5, <4>1, <4>2, PartOf
      <4> QED
        BY <3>6, <4>1, <4>2, <4>3
    <3>8. CASE deleteCR /\ e = "SPLUNK_SITE"
      <4>1. env2[e] = << >>
        BY <3>3, <3>8
      <4>2. GoodList(e, << >>)
        BY DEF GoodList, IsInjective, ToSet
      <4>3. \A u \in ToSet(env[e]) : u.resource = "site0"
        BY <2>1, <3>8 DEF GoodList
      <4> QED
        BY <4>1, <4>2, <4>3
    <3>9. CASE deleteCR /\ e # "SPLUNK_SITE"
      <4>1. env2[e] = Cut(env[e], list(e))
        BY <3>3, <3>9
      <4>2. /\ Cut(env[e], list(e)) \in Seq(URLs) /\ IsInjective(Cut(env[e], list(e)))
            /\ ToSet(Cut(env[e], list(e))) \subseteq ToSet(env[e])
            /\ ToSet(env[e]) \ ToSet(list(e)) \subseteq ToSet(Cut(env[e], list(e)))
        BY <2>1, <3>2, CutOf
      <4>3. GoodList(e, env2[e])
        BY <2>1, <4>1, <4>2, PartOf
      <4> QED
        BY <3>2, <4>1, <4>2, <4>3
    <3> QED
      BY <3>7, <3>8, <3>9
  <2> QED
    BY <2>2, <2>3
<1> HIDE DEF env2
<1>3. GoodEnv(env2) /\ KeepsOthers(env, env2, c)
  BY <1>1, <1>2 DEF GoodEnv, KeepsOthers
<1> QED
  BY <1>3 DEF env2

\* A list gets the URLs that are not there yet.
LEMMA AppendOf ==
  ASSUME NEW e, NEW old, GoodList(e, old), NEW list, GoodList(e, list)
  PROVE  LET s == old \o Pick(list, {j \in DOMAIN list : list[j] \notin ToSet(old)})
         IN GoodList(e, s) /\ ToSet(s) = ToSet(old) \union ToSet(list)
<1> DEFINE I == {j \in DOMAIN list : list[j] \notin ToSet(old)}
           more == Pick(list, I)
           s == old \o more
<1>1. old \in Seq(URLs) /\ list \in Seq(URLs) /\ IsInjective(old) /\ IsInjective(list)
  BY DEF GoodList
<1>2. I \in SUBSET (DOMAIN list)
  OBVIOUS
<1>3. {list[j] : j \in I} = ToSet(list) \ ToSet(old)
  BY DEF ToSet
<1> HIDE DEF I
<1>4. more \in Seq(URLs) /\ IsInjective(more) /\ ToSet(more) = ToSet(list) \ ToSet(old)
  BY <1>1, <1>2, <1>3, PickOf
<1> HIDE DEF more
<1>5. /\ s \in Seq(URLs) /\ DOMAIN s = 1 .. Len(old) + Len(more)
      /\ \A i \in 1 .. Len(old) : s[i] = old[i]
      /\ \A i \in Len(old) + 1 .. Len(old) + Len(more) : s[i] = more[i - Len(old)]
  BY <1>1, <1>4
<1>6. /\ DOMAIN old = 1 .. Len(old) /\ DOMAIN more = 1 .. Len(more)
      /\ Len(old) \in Nat /\ Len(more) \in Nat
  BY <1>1, <1>4
<1> HIDE DEF s
<1>7. ToSet(s) = ToSet(old) \union ToSet(more)
  <2>1. ASSUME NEW u \in ToSet(s) PROVE u \in ToSet(old) \union ToSet(more)
    <3>1. PICK i \in DOMAIN s : u = s[i]
      BY DEF ToSet
    <3>2. CASE i <= Len(old)
      <4>1. i \in 1 .. Len(old)
        BY <1>5, <1>6, <3>2
      <4> QED
        BY <1>5, <1>6, <3>1, <4>1 DEF ToSet
    <3>3. CASE i > Len(old)
      <4>1. i \in Len(old) + 1 .. Len(old) + Len(more) /\ i - Len(old) \in 1 .. Len(more)
        BY <1>5, <1>6, <3>3
      <4> QED
        BY <1>5, <1>6, <3>1, <4>1 DEF ToSet
    <3> QED
      BY <1>5, <1>6, <3>2, <3>3
  <2>2. ASSUME NEW i \in DOMAIN old PROVE old[i] \in ToSet(s)
    <3>1. i \in 1 .. Len(old) /\ i \in DOMAIN s
      BY <1>5, <1>6
    <3> QED
      BY <1>5, <3>1 DEF ToSet
  <2>3. ASSUME NEW i \in DOMAIN more PROVE more[i] \in ToSet(s)
    <3>1. /\ i + Len(old) \in Len(old) + 1 .. Len(old) + Len(more) /\ i + Len(old) \in DOMAIN s
          /\ i + Len(old) - Len(old) = i
      BY <1>5, <1>6
    <3> QED
      BY <1>5, <3>1 DEF ToSet
  <2>4. ToSet(old) \union ToSet(more) \subseteq ToSet(s)
    BY <2>2, <2>3 DEF ToSet
  <2> QED
    BY <2>1, <2>4
<1>8. IsInjective(s)
  <2> SUFFICES ASSUME NEW i \in DOMAIN s, NEW j \in DOMAIN s, s[i] = s[j]
               PROVE  i = j
    BY DEF IsInjective
  <2>1. ASSUME NEW k \in DOMAIN s, k > Len(old)
        PROVE  k - Len(old) \in DOMAIN more /\ s[k] = more[k - Len(old)] /\ s[k] \notin ToSet(old)
    <3>1. k \in Len(old) + 1 .. Len(old) + Len(more) /\ k - Len(old) \in DOMAIN more
      BY <1>5, <1>6, <2>1
    <3>2. s[k] = more[k - Len(old)]
      BY <1>5, <3>1
    <3> QED
      BY <1>4, <3>1, <3>2 DEF ToSet
  <2>2. ASSUME NEW k \in DOMAIN s, ~ (k > Len(old))
        PROVE  k \in DOMAIN old /\ s[k] = old[k] /\ s[k] \in ToSet(old)
    <3>1. k \in 1 .. Len(old)
      BY <1>5, <1>6, <2>2
    <3> QED
      BY <1>5, <1>6, <3>1 DEF ToSet
  <2>3. CASE i > Len(old)
    <3>1. j > Len(old)
      BY <2>1, <2>2, <2>3
    <3>2. i - Len(old) = j - Len(old)
      BY <1>4, <2>1, <2>3, <3>1 DEF IsInjective
    <3>3. i \in Int /\ j \in Int
      BY <1>5
    <3> QED
      BY <1>6, <3>2, <3>3
  <2>4. CASE ~ (i > Len(old))
    <3>1. ~ (j > Len(old))
      BY <2>1, <2>2, <2>4
    <3> QED
      BY <1>1, <2>2, <2>4, <3>1 DEF IsInjective
  <2> QED
    BY <2>3, <2>4
<1>9. GoodList(e, s) /\ ToSet(s) = ToSet(old) \union ToSet(list)
  <2>1. ToSet(s) = ToSet(old) \union ToSet(list)
    BY <1>4, <1>7
  <2> QED
    BY <1>5, <1>8, <2>1 DEF GoodList
<1> QED
  BY <1>9 DEF s, more, I

LEMMA AddVariableOf ==
  ASSUME NEW c, NEW new, GoodNew(c, new), NEW i \in 1 .. 3,
         NEW acc, acc = [env |-> acc.env, done |-> acc.done], GoodEnv(acc.env)
  PROVE  LET acc2 == AddVariable(acc, c, new, i)
         IN /\ acc2 = [env |-> acc2.env, done |-> acc2.done]
            /\ GoodEnv(acc2.env) /\ KeepsOthers(acc.env, acc2.env, c)
<1> DEFINE e    == new[i].name
           old  == acc.env[e]
           list == new[i].urls
           more == old \o Pick(list, {j \in DOMAIN list : list[j] \notin ToSet(old)})
           acc2 == AddVariable(acc, c, new, i)
           Goal == /\ acc2 = [env |-> acc2.env, done |-> acc2.done]
                   /\ GoodEnv(acc2.env) /\ KeepsOthers(acc.env, acc2.env, c)
<1>1. KeepsOthers(acc.env, acc.env, c)
  BY DEF KeepsOthers
<1>2. acc2 = IF acc.done \/ i > Len(new) THEN acc
             ELSE IF old = << >> THEN [acc EXCEPT !.env[e] = list]
             ELSE IF Count(old, c) = Len(list) THEN [acc EXCEPT !.done = TRUE]
             ELSE IF Count(old, c) < Len(list) THEN [acc EXCEPT !.env[e] = more]
             ELSE [acc EXCEPT !.env = DeleteURLsConfigMap(acc.env, c, new, FALSE)]
  BY DEF AddVariable
<1>3. ASSUME acc2 = acc PROVE Goal
  BY <1>1, <1>3
<1>4. ASSUME ~ (i > Len(new)),
             \/ acc2 = [acc EXCEPT !.env[e] = list] /\ old = << >>
             \/ acc2 = [acc EXCEPT !.env[e] = more]
      PROVE  Goal
  <2>1. i \in DOMAIN new
    <3>1. DOMAIN new = 1 .. Len(new) /\ Len(new) \in 1 .. 3
      BY DEF GoodNew
    <3>2. ~ (i > Len(new))
      BY <1>4
    <3> QED
      BY <3>1, <3>2
  <2>2. e \in EnvNames /\ GoodList(e, list)
    BY <2>1 DEF GoodNew
  <2>3. GoodList(e, old)
    BY <2>2 DEF GoodEnv
  <2>4. GoodList(e, more) /\ ToSet(more) = ToSet(old) \union ToSet(list)
    BY <2>2, <2>3, AppendOf
  <2>5. old = << >> => ToSet(old) = {}
    BY DEF ToSet
  <2> HIDE DEF more, list, e
  <2>6. PICK s \in {list, more} : /\ GoodList(e, s) /\ \A u \in ToSet(old) : u \in ToSet(s)
                                  /\ acc2 = [acc EXCEPT !.env[e] = s]
    BY <1>4, <2>2, <2>4, <2>5
  <2> DEFINE env2 == [acc.env EXCEPT ![e] = s]
  <2>7. acc2 = [env |-> env2, done |-> acc.done]
    <3>1. acc2 = [[env |-> acc.env, done |-> acc.done] EXCEPT !.env[e] = s]
      BY <2>6
    <3> QED
      BY <3>1
  <2>8. GoodEnv(env2)
    BY <2>2, <2>6 DEF GoodEnv
  <2>9. KeepsOthers(acc.env, env2, c)
    BY <2>2, <2>6 DEF KeepsOthers, GoodEnv
  <2> HIDE DEF env2, acc2
  <2> QED
    BY <2>7, <2>8, <2>9
<1>5. ASSUME acc2 = [acc EXCEPT !.done = TRUE] PROVE Goal
  <2>1. acc2 = [env |-> acc.env, done |-> TRUE]
    BY <1>5
  <2> HIDE DEF acc2
  <2> QED
    BY <1>1, <2>1
<1>6. ASSUME acc2 = [acc EXCEPT !.env = DeleteURLsConfigMap(acc.env, c, new, FALSE)] PROVE Goal
  <2> DEFINE env2 == DeleteURLsConfigMap(acc.env, c, new, FALSE)
  <2>1. acc2 = [env |-> env2, done |-> acc.done]
    BY <1>6
  <2>2. GoodEnv(env2) /\ KeepsOthers(acc.env, env2, c)
    BY DeleteOf
  <2> HIDE DEF env2, acc2
  <2> QED
    BY <2>1, <2>2
<1>7. Goal
  <2> HIDE DEF Goal, acc2, e, old, list, more
  <2> QED
    BY <1>2, <1>3, <1>4, <1>5, <1>6
<1> QED
  BY <1>7

LEMMA KeepsBoth ==
  ASSUME NEW a, NEW b, NEW d, NEW c, KeepsOthers(a, b, c), KeepsOthers(b, d, c)
  PROVE  KeepsOthers(a, d, c)
BY DEF KeepsOthers

LEMMA AddOf ==
  ASSUME NEW c, NEW new, GoodNew(c, new), NEW env, GoodEnv(env)
  PROVE  LET env2 == AddURLsConfigMap(env, c, new)
         IN GoodEnv(env2) /\ KeepsOthers(env, env2, c)
<1> DEFINE start  == [env |-> env, done |-> FALSE]
           first  == AddVariable(start, c, new, 1)
           second == AddVariable(first, c, new, 2)
           third  == AddVariable(second, c, new, 3)
           Good(acc) == acc = [env |-> acc.env, done |-> acc.done] /\ GoodEnv(acc.env)
<1>1. Good(start) /\ start.env = env
  OBVIOUS
<1>2. AddURLsConfigMap(env, c, new) = third.env
  BY DEF AddURLsConfigMap
<1> HIDE DEF start
<1>3. Good(first) /\ KeepsOthers(start.env, first.env, c)
  BY <1>1, AddVariableOf
<1> HIDE DEF first
<1>4. Good(second) /\ KeepsOthers(first.env, second.env, c)
  BY <1>3, AddVariableOf
<1> HIDE DEF second
<1>5. Good(third) /\ KeepsOthers(second.env, third.env, c)
  BY <1>4, AddVariableOf
<1> HIDE DEF third
<1> QED
  BY <1>1, <1>2, <1>3, <1>4, <1>5, KeepsBoth

-----------------------------------------------------------------------------
(***************************************************************************)
(* The invariants                                                          *)
(***************************************************************************)

Positions == [resource : Resources \union {"none"}, pc : Places, stale : BOOLEAN]
Fields    == {"size", "deleting", "env", "failed"}

\* The part of NamespaceTypeOK about the domains, which the other proofs rest on.
TypesInv ==
  /\ life \in [Resources -> {"live", "deleting", "gone"}]
  /\ pods \in [Resources -> {"new", "down", "up", "late"}]
  /\ fresh \in [Resources -> BOOLEAN]
  /\ DOMAIN claims = Resources
  /\ \A c \in Resources : DOMAIN claims[c] = ToSet(Components(c))
  /\ secret \in [exists : BOOLEAN, owners : SUBSET Resources]
  /\ console \in [exists : BOOLEAN, owners : SUBSET Resources, current : BOOLEAN]
  /\ DOMAIN urls = {"exists", "env"} /\ urls.exists \in BOOLEAN
  /\ queue \subseteq Resources
  /\ at \in [Workers -> Positions]
  /\ DOMAIN mem = Workers
  /\ \A k \in Workers : DOMAIN mem[k] = Fields /\ mem[k].deleting \in BOOLEAN

\* A worker holds a resource of its own kind that still exists, and walks the path of a
\* deletion only with one whose deletion was requested.
WorkInv ==
  /\ \A c \in queue : life[c] # "gone"
  /\ \A k \in Workers :
       /\ at[k].pc # "idle"
          => /\ at[k].resource \in Resources /\ Worker(at[k].resource) = k
             /\ life[at[k].resource] # "gone"
       /\ mem[k].deleting => at[k].pc # "idle" /\ life[at[k].resource] = "deleting"
       /\ at[k].pc \in {"undo", "claims", "finalizer"} => mem[k].deleting

\* Once pods were up every component has claims, so that DeleteSplunkPvc reaches them all.
ClaimInv ==
  \A c \in Resources :
    /\ pods[c] # "new" => \A x \in DOMAIN claims[c] : claims[c][x] # "none"
    /\ /\ pods[c] \in {"down", "up"}
       /\ life[c] = "gone" \/ (at[Worker(c)].pc = "finalizer" /\ at[Worker(c)].resource = c)
       => \A x \in DOMAIN claims[c] : claims[c][x] # "bound"

\* What was read for a write is what is there, unless the write will be refused.
UrlInv ==
  /\ ~ urls.exists => urls = NoUrls
  /\ \A k \in Workers :
       /\ at[k].pc = "write" => urls.exists
       /\ (at[k].pc = "write" /\ ~ at[k].stale) \/ (at[k].pc = "create" /\ ~ urls.exists)
          => mem[k].env = NewURLs(k)

\* What else NamespaceTypeOK says.
RestInv ==
  /\ size \in [Resources -> Sizes] /\ resized \in [Resources -> BOOLEAN]
  /\ \A c \in Resources : \A x \in DOMAIN claims[c] : claims[c][x] \in {"none", "bound", "deleted"}
  /\ \A k \in Workers :
       /\ at[k].pc = "idle" => at[k] = Idle /\ mem[k] = NoMem
       /\ at[k].stale => at[k].pc \in DOMAIN Holds

\* The lists that are there, and those that workers have made, are good.
ListInv ==
  /\ GoodEnv(urls.env)
  /\ \A k \in Workers : mem[k].size \in Nat /\ GoodEnv(mem[k].env)

LEMMA NoUrlsGood ==
  GoodEnv(NoUrls.env) /\ \A env, c : KeepsOthers(NoUrls.env, env, c)
<1>1. NoUrls.env = [e \in EnvNames |-> << >>]
  BY DEF NoUrls
<1>2. << >> \in Seq(URLs) /\ ToSet(<< >>) = {} /\ IsInjective(<< >>)
  BY DEF ToSet, IsInjective
<1>3. \A e \in EnvNames : GoodList(e, << >>)
  BY <1>2 DEF GoodList
<1> QED
  BY <1>1, <1>2, <1>3 DEF GoodEnv, KeepsOthers

-----------------------------------------------------------------------------
(***************************************************************************)
(* What a step of a worker does to it, and to the others                   *)
(***************************************************************************)

Deleting == {"undo", "claims", "finalizer"}

\* Its reconcile ends.
Stopped(k) == at'[k] = Idle /\ mem'[k] = NoMem

\* What it has read stays in its memory, but for the URLs.
SameMem(k) ==
  /\ DOMAIN mem'[k] = Fields /\ mem'[k].deleting = mem[k].deleting /\ mem'[k].size = mem[k].size
  /\ mem'[k].env \in {mem[k].env, NoUrls.env, NewURLs(k)}

\* It goes on with its resource.
Went(k) ==
  /\ at[k].pc # "idle" /\ at'[k].pc # "idle"
  /\ at'[k] \in Positions /\ at'[k].resource = at[k].resource /\ ~ at'[k].stale
  /\ SameMem(k)
  /\ at'[k].pc \in Deleting => mem[k].deleting
  /\ at'[k].pc = "finalizer" => at[k].pc = "claims"
  /\ at'[k].pc \in {"write", "create"} => at[k].pc = "pods"

\* The others stay where they are; they may come to hold an object that has changed.
OthersStay(k) ==
  /\ at' \in [Workers -> Positions] /\ DOMAIN mem' = Workers
  /\ \A v \in Workers \ {k} :
       /\ mem'[v] = mem[v]
       /\ at'[v].resource = at[v].resource /\ at'[v].pc = at[v].pc
       /\ at[v].stale => at'[v].stale
       /\ at'[v] = at[v] \/ at[v].pc \in DOMAIN Holds

Woken(k) == \A c \in queue' : c \in Resources /\ (c \in queue \/ c = at[k].resource \/ life[c] # "gone")

Proceeds(k) == (Stopped(k) \/ Went(k)) /\ OthersStay(k) /\ Woken(k)

LEMMA Records ==
  /\ Idle \in Positions /\ Idle.pc = "idle" /\ Idle.resource = "none"
  /\ DOMAIN NoMem = Fields /\ NoMem.deleting = FALSE
  /\ DOMAIN Holds = {"own", "undo", "write", "apply", "setowner"}
  /\ Holds["own"] = "secret" /\ Holds["undo"] = "secret" /\ Holds["write"] = "urls"
BY DEF Idle, Positions, Places, NoMem, Fields, Holds

LEMMA MoveOf ==
  ASSUME TypesInv, NEW k, NEW p \in Positions, NEW W, Move(k, p, W)
  PROVE  /\ at' \in [Workers -> Positions]
         /\ k \in Workers => at'[k] = p
         /\ \A v \in Workers \ {k} :
              /\ at'[v].resource = at[v].resource /\ at'[v].pc = at[v].pc
              /\ at[v].stale => at'[v].stale
              /\ at[v].pc = "write" /\ "urls" \in W => at'[v].stale
              /\ at'[v] = at[v] \/ at[v].pc \in DOMAIN Holds
<1>1. at \in [Workers -> Positions]
  BY DEF TypesInv
<1>2. \A v \in Workers : [at[v] EXCEPT !.stale = TRUE] \in Positions
  BY <1>1 DEF Positions
<1>3. at' \in [Workers -> Positions]
  BY <1>1, <1>2 DEF Move
<1>4. k \in Workers => at'[k] = p
  BY DEF Move
<1>5. ASSUME NEW v \in Workers \ {k}
      PROVE  /\ at'[v].resource = at[v].resource /\ at'[v].pc = at[v].pc
             /\ at[v].stale => at'[v].stale
             /\ at[v].pc = "write" /\ "urls" \in W => at'[v].stale
             /\ at'[v] = at[v] \/ at[v].pc \in DOMAIN Holds
  <2>1. at[v] \in Positions
    BY <1>1
  <2>2. at'[v] \in {at[v], [at[v] EXCEPT !.stale = TRUE]}
    BY DEF Move
  <2>3. at[v].pc = "write" /\ "urls" \in W => at'[v] = [at[v] EXCEPT !.stale = TRUE]
    BY Records DEF Move
  <2>4. at'[v] = at[v] \/ at[v].pc \in DOMAIN Holds
    BY DEF Move
  <2> QED
    BY <2>1, <2>2, <2>3, <2>4 DEF Positions
<1> QED
  BY <1>3, <1>4, <1>5

LEMMA GoToOf ==
  ASSUME TypesInv, NEW k \in Workers, NEW l \in Places, NEW W, GoTo(k, l, W)
  PROVE  /\ at' \in [Workers -> Positions]
         /\ at'[k].resource = at[k].resource /\ at'[k].pc = l /\ ~ at'[k].stale
         /\ \A v \in Workers \ {k} :
              /\ at'[v].resource = at[v].resource /\ at'[v].pc = at[v].pc
              /\ at[v].stale => at'[v].stale
              /\ at[v].pc = "write" /\ "urls" \in W => at'[v].stale
              /\ at'[v] = at[v] \/ at[v].pc \in DOMAIN Holds
<1> DEFINE p == [at[k] EXCEPT !.pc = l, !.stale = FALSE]
<1>0. at[k] \in Positions
  BY DEF TypesInv
<1>1. p \in Positions /\ p.resource = at[k].resource /\ p.pc = l /\ ~ p.stale
  BY <1>0 DEF Positions
<1>2. Move(k, p, W)
  BY DEF GoTo
<1> HIDE DEF p
<1> QED
  BY <1>1, <1>2, MoveOf

\* Every reconcile that ends stops in this way.
LEMMA StopOf ==
  ASSUME TypesInv, NEW k \in Workers, NEW W, Stop(k, W)
  PROVE  Stopped(k) /\ OthersStay(k)
<1>1. Move(k, Idle, W) /\ mem' = [mem EXCEPT ![k] = NoMem]
  BY DEF Stop
<1>2. DOMAIN mem' = Workers /\ mem'[k] = NoMem /\ \A v \in Workers \ {k} : mem'[v] = mem[v]
  BY <1>1 DEF TypesInv
<1> QED
  BY <1>1, <1>2, MoveOf, Records DEF Stopped, OthersStay

\* GoTo with a change of the fields other than deleting.
LEMMA GoToGoes ==
  ASSUME TypesInv, NEW k \in Workers, NEW l \in Places, NEW W, GoTo(k, l, W),
         at[k].pc # "idle", l # "idle",
         l \in Deleting => mem[k].deleting, l = "finalizer" => at[k].pc = "claims",
         l \in {"write", "create"} => at[k].pc = "pods",
         DOMAIN mem' = Workers, \A v \in Workers \ {k} : mem'[v] = mem[v],
         SameMem(k)
  PROVE  Went(k) /\ OthersStay(k)
BY GoToOf DEF Went, OthersStay

LEMMA KeptFields ==
  ASSUME TypesInv, NEW k \in Workers, NEW e \in {mem[k].env, NoUrls.env, NewURLs(k)},
         mem' \in {mem, [mem EXCEPT ![k].env = e]}
  PROVE  /\ DOMAIN mem' = Workers /\ \A v \in Workers \ {k} : mem'[v] = mem[v]
         /\ SameMem(k)
<1>1. DOMAIN mem = Workers /\ DOMAIN mem[k] = Fields
  BY DEF TypesInv
<1>2. DOMAIN mem' = Workers /\ \A v \in Workers \ {k} : mem'[v] = mem[v]
  BY <1>1
<1>3. mem'[k] \in {mem[k], [mem[k] EXCEPT !.env = e]}
  BY <1>1
<1>4. /\ DOMAIN mem'[k] = Fields /\ mem'[k].deleting = mem[k].deleting /\ mem'[k].size = mem[k].size
      /\ mem'[k].env \in {mem[k].env, e}
  BY <1>1, <1>3 DEF Fields
<1> QED
  BY <1>2, <1>4 DEF SameMem

LEMMA EndOf ==
  ASSUME TypesInv, NEW k \in Workers, at[k].pc # "idle", WorkInv,
         NEW r \in BOOLEAN, End(k, r)
  PROVE  Proceeds(k)
<1>1. Stop(k, {})
  BY DEF End
<1>2. queue' \subseteq queue \union {at[k].resource}
  BY DEF End
<1>3. Woken(k)
  BY <1>2 DEF Woken, WorkInv, TypesInv
<1> QED
  BY <1>1, <1>3, StopOf DEF Proceeds

LEMMA AfterDisownOf ==
  ASSUME TypesInv, WorkInv, NEW k \in Workers, at[k].pc # "idle", mem[k].deleting,
         NEW f, NEW W, NEW woken, \A c \in woken : c \in Resources /\ life[c] # "gone",
         AfterDisown(k, f, woken, W)
  PROVE  Proceeds(k)
<1>1. Woken(k)
  BY DEF AfterDisown, Woken, WorkInv, TypesInv
<1>2. CASE Stop(k, W)
  BY <1>1, <1>2, StopOf DEF Proceeds
<1>3. CASE GoTo(k, "claims", W) /\ UNCHANGED mem
  <2>1. "claims" \in Places
    BY DEF Places
  <2>2. DOMAIN mem' = Workers /\ SameMem(k) /\ \A v \in Workers \ {k} : mem'[v] = mem[v]
    BY <1>3, KeptFields
  <2> QED
    BY <1>1, <1>3, <2>1, <2>2, GoToGoes DEF Proceeds
<1> QED
  BY <1>2, <1>3 DEF AfterDisown

LEMMA ReadOwnersOf ==
  ASSUME TypesInv, WorkInv, NEW k \in Workers, at[k].pc # "idle", mem[k].deleting,
         NEW f, NEW W, NEW woken, \A c \in woken : c \in Resources /\ life[c] # "gone",
         ReadOwners(k, f, woken, W)
  PROVE  Proceeds(k)
<1>1. CASE at[k].resource \in secret.owners
  <2>1. /\ GoTo(k, "undo", W)
        /\ mem' = [mem EXCEPT ![k].env = NoUrls.env, ![k].failed = f]
        /\ queue' = queue \union woken
    BY <1>1 DEF ReadOwners
  <2>2. Woken(k)
    BY <2>1 DEF Woken, WorkInv, TypesInv
  <2>3. "undo" \in Places
    BY DEF Places
  <2>4. /\ DOMAIN mem' = Workers /\ \A v \in Workers \ {k} : mem'[v] = mem[v]
        /\ SameMem(k)
    <3>1. DOMAIN mem = Workers /\ DOMAIN mem[k] = Fields
      BY DEF TypesInv
    <3>2. DOMAIN mem' = Workers /\ \A v \in Workers \ {k} : mem'[v] = mem[v]
      BY <2>1, <3>1
    <3>3. mem'[k] = [mem[k] EXCEPT !.env = NoUrls.env, !.failed = f]
      BY <2>1, <3>1
    <3>4. /\ DOMAIN mem'[k] = Fields /\ mem'[k].deleting = mem[k].deleting
          /\ mem'[k].size = mem[k].size /\ mem'[k].env = NoUrls.env
      BY <3>1, <3>3 DEF Fields
    <3> QED
      BY <3>2, <3>4 DEF SameMem
  <2> QED
    BY <2>1, <2>2, <2>3, <2>4, GoToGoes DEF Proceeds
<1>2. CASE at[k].resource \notin secret.owners
  BY <1>2, AfterDisownOf DEF ReadOwners
<1> QED
  BY <1>1, <1>2

LEMMA ConsoleFailsOf ==
  ASSUME TypesInv, WorkInv, NEW k \in Workers, at[k].pc # "idle", ConsoleFails(k)
  PROVE  Proceeds(k)
<1>1. CASE mem[k].deleting /\ ReadOwners(k, TRUE, {}, {})
  <2> DEFINE none == {}
  <2>1. \A c \in none : c \in Resources /\ life[c] # "gone"
    OBVIOUS
  <2>2. ReadOwners(k, TRUE, none, {})
    BY <1>1
  <2> HIDE DEF none
  <2> QED
    BY <1>1, <2>1, <2>2, ReadOwnersOf
<1>2. CASE End(k, TRUE)
  BY <1>2, EndOf
<1> QED
  BY <1>1, <1>2 DEF ConsoleFails

LEMMA GoOf ==
  ASSUME TypesInv, WorkInv, NEW k \in Workers, at[k].pc # "idle",
         NEW W, NEW woken, \A c \in woken : c \in Resources /\ life[c] # "gone",
         Go(k, woken, W)
  PROVE  Proceeds(k)
<1>1. CASE mem[k].deleting
  BY <1>1, ReadOwnersOf DEF Go
<1>2. CASE ~ mem[k].deleting
  <2>1. Stop(k, W) /\ queue' = queue \union woken
    BY <1>2 DEF Go
  <2>2. Woken(k)
    BY <2>1 DEF Woken, WorkInv, TypesInv
  <2> QED
    BY <2>1, <2>2, StopOf DEF Proceeds
<1> QED
  BY <1>1, <1>2

LEMMA PutURLsOf ==
  ASSUME TypesInv, WorkInv, NEW k \in Workers, at[k].pc # "idle", PutURLs(k)
  PROVE  Proceeds(k)
<1>1. GoTo(k, "apply", {"urls"}) /\ mem' = [mem EXCEPT ![k].env = NoUrls.env] /\ queue' = queue
  BY DEF PutURLs
<1>2. Woken(k)
  BY <1>1 DEF Woken, WorkInv, TypesInv
<1>3. "apply" \in Places
  BY DEF Places
<1> QED
  BY <1>1, <1>2, <1>3, KeptFields, GoToGoes DEF Proceeds, Deleting

LEMMA WakesOf ==
  \A S \in SUBSET Resources : \A c \in Wakes(S) : c \in Resources /\ life[c] # "gone"
BY DEF Wakes

\* Every step of a reconcile but its first, and but that which removes the finalizer.
Middle(k) ==
  \/ OwnSecret(k) \/ WaitForPods(k) \/ NoClusterInfo(k) \/ ReadURLs(k) \/ WriteURLs(k)
  \/ CreateURLs(k) \/ ApplyConsole(k) \/ OwnConsole(k) \/ DisownSecret(k) \/ DeleteSplunkPvc(k)

LEMMA MiddleOf ==
  ASSUME TypesInv, WorkInv, NEW k \in Workers, Middle(k)
  PROVE  at[k].pc # "idle" /\ Proceeds(k)
<1>0. at[k].pc # "idle"
  BY DEF Middle, OwnSecret, WaitForPods, NoClusterInfo, ReadURLs, WriteURLs, CreateURLs,
         ApplyConsole, OwnConsole, DisownSecret, DeleteSplunkPvc, DeleteClaims
<1>1. ASSUME queue' = queue PROVE Woken(k)
  BY <1>1 DEF Woken, WorkInv, TypesInv
<1>2. ASSUME UNCHANGED mem
      PROVE  DOMAIN mem' = Workers /\ SameMem(k) /\ \A v \in Workers \ {k} : mem'[v] = mem[v]
  BY <1>2, KeptFields
<1>3. CASE OwnSecret(k)
  <2>1. CASE at[k].stale
    BY <1>3, <2>1, <1>0, EndOf DEF OwnSecret
  <2>2. CASE ~ at[k].stale
    <3>1. GoTo(k, "pods", {"secret"}) /\ UNCHANGED <<queue, mem>>
      BY <1>3, <2>2 DEF OwnSecret
    <3>2. "pods" \in Places
      BY DEF Places
    <3> QED
      BY <3>1, <3>2, <1>0, <1>1, <1>2, GoToGoes DEF Proceeds, Deleting
  <2> QED
    BY <2>1, <2>2
<1>4. CASE WaitForPods(k)
  BY <1>4, <1>0, EndOf DEF WaitForPods
<1>5. CASE NoClusterInfo(k)
  BY <1>5, <1>0, ConsoleFailsOf DEF NoClusterInfo
<1>6. CASE ReadURLs(k)
  <2>1. PICK l \in {"create", "apply", "write"} : GoTo(k, l, {})
    BY <1>6 DEF ReadURLs
  <2>2. PICK e \in {mem[k].env, NewURLs(k)} : mem' = [mem EXCEPT ![k].env = e]
    <3>1. mem' = [mem EXCEPT ![k].env = IF urls.exists /\ NewURLs(k) = urls.env THEN @ ELSE NewURLs(k)]
      BY <1>6 DEF ReadURLs
    <3> QED
      BY <3>1
  <2>3. queue' = queue
    BY <1>6 DEF ReadURLs
  <2>4. l \in Places /\ l # "idle" /\ l \notin Deleting
    BY <2>1 DEF Places, Deleting
  <2>5. l # "finalizer" /\ at[k].pc = "pods"
    BY <2>1, <1>6 DEF ReadURLs
  <2> QED
    BY <2>1, <2>2, <2>3, <2>4, <2>5, <1>0, <1>1, KeptFields, GoToGoes DEF Proceeds
<1>7. CASE WriteURLs(k)
  BY <1>7, <1>0, ConsoleFailsOf, PutURLsOf DEF WriteURLs
<1>8. CASE CreateURLs(k)
  <2>1. CASE urls.exists
    <3>1. GoTo(k, "apply", {}) /\ mem' = [mem EXCEPT ![k].env = NoUrls.env] /\ queue' = queue
      BY <1>8, <2>1 DEF CreateURLs
    <3>2. "apply" \in Places
      BY DEF Places
    <3> QED
      BY <3>1, <3>2, <1>0, <1>1, KeptFields, GoToGoes DEF Proceeds, Deleting
  <2>2. CASE ~ urls.exists
    BY <1>8, <2>2, <1>0, PutURLsOf DEF CreateURLs
  <2> QED
    BY <2>1, <2>2
<1>9. CASE ApplyConsole(k)
  <2> DEFINE W     == IF console' = console THEN {} ELSE {"console"}
             woken == IF W = {} THEN {} ELSE Wakes(console.owners)
  <2>1. \A c \in woken : c \in Resources /\ life[c] # "gone"
    BY WakesOf DEF TypesInv
  <2>2. CASE at[k].resource \notin console.owners
    <3>1. GoTo(k, "setowner", W) /\ queue' = queue \union woken /\ UNCHANGED mem
      BY <1>9, <2>2 DEF ApplyConsole
    <3> HIDE DEF woken, W
    <3>2. "setowner" \in Places
      BY DEF Places
    <3>3. Woken(k)
      BY <3>1, <2>1 DEF Woken, WorkInv, TypesInv
    <3> QED
      BY <3>1, <3>2, <3>3, <1>0, <1>2, GoToGoes DEF Proceeds, Deleting
  <2>3. CASE at[k].resource \in console.owners
    <3>1. Go(k, woken, W)
      BY <1>9, <2>3 DEF ApplyConsole
    <3> HIDE DEF woken, W
    <3> QED
      BY <3>1, <2>1, <1>0, GoOf
  <2> QED
    BY <2>2, <2>3
<1>10. CASE OwnConsole(k)
  <2>1. CASE at[k].stale
    BY <1>10, <2>1, <1>0, ConsoleFailsOf DEF OwnConsole
  <2>2. CASE ~ at[k].stale
    <3>1. console'.owners = console.owners \union {at[k].resource}
      BY <1>10, <2>2 DEF OwnConsole, TypesInv
    <3>2. console'.owners \in SUBSET Resources
      BY <3>1, <1>0 DEF TypesInv, WorkInv
    <3> DEFINE woken == Wakes(console'.owners)
    <3>3. \A c \in woken : c \in Resources /\ life[c] # "gone"
      BY <3>2, WakesOf
    <3>4. Go(k, woken, {"console"})
      BY <1>10, <2>2 DEF OwnConsole
    <3> HIDE DEF woken
    <3> QED
      BY <3>3, <3>4, <1>0, GoOf
  <2> QED
    BY <2>1, <2>2
<1>11. CASE DisownSecret(k)
  <2>1. mem[k].deleting
    BY <1>11 DEF DisownSecret, WorkInv
  <2>2. PICK W : AfterDisown(k, mem[k].failed, {}, W)
    BY <1>11 DEF DisownSecret
  <2> QED
    BY <2>1, <2>2, <1>0, AfterDisownOf
<1>12. CASE DeleteSplunkPvc(k)
  <2>1. at[k].pc = "claims" /\ GoTo(k, "finalizer", {}) /\ UNCHANGED <<queue, mem>>
    BY <1>12 DEF DeleteSplunkPvc, DeleteClaims
  <2>2. "finalizer" \in Places
    BY DEF Places
  <2>3. mem[k].deleting
    BY <2>1 DEF WorkInv
  <2> QED
    BY <2>1, <2>2, <2>3, <1>0, <1>1, <1>2, GoToGoes DEF Proceeds
<1> QED
  BY <1>0, <1>3, <1>4, <1>5, <1>6, <1>7, <1>8, <1>9, <1>10, <1>11, <1>12 DEF Middle

-----------------------------------------------------------------------------
(***************************************************************************)
(* Types                                                                   *)
(***************************************************************************)

LEMMA TypesInit == NamespaceInit => TypesInv
<1> SUFFICES ASSUME NamespaceInit PROVE TypesInv
  OBVIOUS
<1>1. /\ queue \subseteq Resources /\ life \in [Resources -> {"live", "deleting", "gone"}]
      /\ pods \in [Resources -> {"new", "down", "up", "late"}] /\ fresh \in [Resources -> BOOLEAN]
  BY NamespaceAssumption DEF NamespaceInit
<1>2. DOMAIN claims = Resources /\ \A c \in Resources : DOMAIN claims[c] = ToSet(Components(c))
  BY DEF NamespaceInit
<1>3. /\ secret \in [exists : BOOLEAN, owners : SUBSET Resources]
      /\ console \in [exists : BOOLEAN, owners : SUBSET Resources, current : BOOLEAN]
      /\ DOMAIN urls = {"exists", "env"} /\ urls.exists \in BOOLEAN
  BY DEF NamespaceInit, NoUrls
<1>4. /\ at \in [Workers -> Positions] /\ DOMAIN mem = Workers
      /\ \A k \in Workers : DOMAIN mem[k] = Fields /\ mem[k].deleting \in BOOLEAN
  BY Records DEF NamespaceInit
<1> QED
  BY <1>1, <1>2, <1>3, <1>4 DEF TypesInv

\* What remains of TypesInv beside the positions of the workers.
ObjectTypes ==
  /\ life \in [Resources -> {"live", "deleting", "gone"}]
  /\ pods \in [Resources -> {"new", "down", "up", "late"}]
  /\ fresh \in [Resources -> BOOLEAN]
  /\ DOMAIN claims = Resources
  /\ \A c \in Resources : DOMAIN claims[c] = ToSet(Components(c))
  /\ secret \in [exists : BOOLEAN, owners : SUBSET Resources]
  /\ console \in [exists : BOOLEAN, owners : SUBSET Resources, current : BOOLEAN]
  /\ DOMAIN urls = {"exists", "env"} /\ urls.exists \in BOOLEAN

\* A step of a worker that proceeds leaves types behind when it leaves typed objects.
LEMMA ProceedsTypes ==
  ASSUME TypesInv, NEW k \in Workers, Proceeds(k), ObjectTypes'
  PROVE  TypesInv'
<1>1. DOMAIN mem'[k] = Fields /\ mem'[k].deleting \in BOOLEAN
  BY Records DEF Proceeds, Stopped, Went, SameMem, TypesInv
<1>2. queue' \subseteq Resources
  BY DEF Proceeds, Woken
<1> QED
  BY <1>1, <1>2 DEF Proceeds, OthersStay, TypesInv, ObjectTypes

LEMMA KeptObjects ==
  ASSUME TypesInv, UNCHANGED <<life, pods, fresh, claims, sharedVars>>
  PROVE  ObjectTypes'
BY DEF TypesInv, ObjectTypes, sharedVars

LEMMA MiddleObjects ==
  ASSUME TypesInv, WorkInv, NEW k \in Workers, Middle(k)
  PROVE  ObjectTypes'
<1>0. at[k].resource \in Resources
  BY MiddleOf DEF WorkInv
<1> USE DEF userVars, podVars, sharedVars
<1>1. CASE UNCHANGED <<life, pods, fresh, claims, sharedVars>>
  BY <1>1, KeptObjects
<1>2. CASE OwnSecret(k) \/ DisownSecret(k)
  <2>0. secret \in [exists : BOOLEAN, owners : SUBSET Resources]
    BY DEF TypesInv
  <2>1. secret' \in [exists : BOOLEAN, owners : SUBSET Resources]
    <3>1. PICK S \in SUBSET Resources : secret' \in {secret, [secret EXCEPT !.owners = S]}
      <4>1. CASE OwnSecret(k)
        BY <1>0, <2>0, <4>1 DEF OwnSecret
      <4>2. CASE DisownSecret(k)
        BY <1>0, <2>0, <4>2 DEF DisownSecret
      <4> QED
        BY <1>2, <4>1, <4>2
    <3> QED
      BY <2>0, <3>1
  <2>2. UNCHANGED <<life, pods, fresh, claims, urls, console>>
    BY <1>2 DEF OwnSecret, DisownSecret
  <2> QED
    BY <2>1, <2>2 DEF TypesInv, ObjectTypes
<1>3. CASE WriteURLs(k) \/ CreateURLs(k)
  <2>1. UNCHANGED <<life, pods, fresh, claims>>
    BY <1>3 DEF WriteURLs, CreateURLs
  <2>2. PutURLs(k) \/ UNCHANGED sharedVars
    BY <1>3 DEF WriteURLs, CreateURLs
  <2>3. CASE PutURLs(k)
    <3>1. urls' = [exists |-> TRUE, env |-> mem[k].env] /\ secret' = secret
      BY <2>3 DEF PutURLs
    <3>2. console' \in [exists : BOOLEAN, owners : SUBSET Resources, current : BOOLEAN]
      BY <2>3 DEF PutURLs, TypesInv
    <3> QED
      BY <2>1, <3>1, <3>2 DEF TypesInv, ObjectTypes
  <2> QED
    BY <2>1, <2>2, <2>3, KeptObjects
<1>4. CASE ApplyConsole(k) \/ OwnConsole(k)
  <2>1. at[k].stale \in BOOLEAN
    BY DEF TypesInv, Positions
  <2>0. console \in [exists : BOOLEAN, owners : SUBSET Resources, current : BOOLEAN]
    BY DEF TypesInv
  <2>2. console' \in [exists : BOOLEAN, owners : SUBSET Resources, current : BOOLEAN]
    <3>1. CASE ApplyConsole(k)
      BY <2>0, <2>1, <3>1 DEF ApplyConsole
    <3>2. CASE OwnConsole(k)
      <4>1. \/ console' = console
            \/ console' = [console EXCEPT !.owners = console.owners \union {at[k].resource}]
        BY <3>2 DEF OwnConsole
      <4>2. console.owners \union {at[k].resource} \in SUBSET Resources
        BY <1>0, <2>0
      <4> QED
        BY <2>0, <4>1, <4>2
    <3> QED
      BY <1>4, <3>1, <3>2
  <2>3. UNCHANGED <<life, pods, fresh, claims, urls, secret>>
    BY <1>4 DEF ApplyConsole, OwnConsole
  <2> QED
    BY <2>2, <2>3 DEF TypesInv, ObjectTypes
<1>5. CASE DeleteSplunkPvc(k)
  <2> DEFINE c == at[k].resource
  <2>2. UNCHANGED <<life, pods, fresh, sharedVars>>
    BY <1>5 DEF DeleteSplunkPvc, DeleteClaims
  <2>3. DOMAIN claims' = Resources /\ \A d \in Resources : DOMAIN claims'[d] = DOMAIN claims[d]
    BY <1>0, <1>5 DEF DeleteSplunkPvc, DeleteClaims, TypesInv
  <2> QED
    BY <2>2, <2>3 DEF TypesInv, ObjectTypes
<1> QED
  BY <1>1, <1>2, <1>3, <1>4, <1>5 DEF Middle, WaitForPods, NoClusterInfo, ReadURLs

\* A worker that stops outside the middle of its reconcile.
LEMMA FailsOf ==
  ASSUME TypesInv, WorkInv, NEW k \in Workers, Fails(k)
  PROVE  Proceeds(k) /\ UNCHANGED <<life, pods, fresh, claims, sharedVars>>
BY EndOf DEF Fails, userVars, podVars

LEMMA RemoveOf ==
  ASSUME TypesInv, WorkInv, NEW k \in Workers, RemoveSplunkFinalizer(k)
  PROVE  /\ at[k].pc = "finalizer" /\ at[k].resource \in Resources
         /\ Stopped(k) /\ OthersStay(k)
         /\ \/ life' = life /\ Woken(k)
            \/ /\ life' = [life EXCEPT ![at[k].resource] = "gone"]
               /\ queue' = queue \ {at[k].resource}
         /\ UNCHANGED <<pods, fresh, claims, sharedVars>>
<1> DEFINE c == at[k].resource
<1>1. at[k].pc = "finalizer" /\ c \in Resources /\ UNCHANGED <<pods, fresh, claims, sharedVars>>
  BY DEF RemoveSplunkFinalizer, WorkInv, podVars
<1>2. CASE fresh[c]
  <2>1. Stop(k, {}) /\ life' = [life EXCEPT ![c] = "gone"] /\ queue' = queue \ {c}
    BY <1>2 DEF RemoveSplunkFinalizer
  <2> QED
    BY <1>1, <2>1, StopOf
<1>3. CASE ~ fresh[c]
  <2>1. End(k, TRUE) /\ life' = life
    BY <1>3 DEF RemoveSplunkFinalizer
  <2>2. Stop(k, {}) /\ Proceeds(k)
    BY <1>1, <2>1, EndOf DEF End
  <2> QED
    BY <1>1, <2>1, <2>2, StopOf DEF Proceeds
<1> QED
  BY <1>2, <1>3

LEMMA TakeOf ==
  ASSUME TypesInv, NEW k \in Workers, Take(k)
  PROVE  \E c \in queue :
           /\ Worker(c) = k /\ queue' = queue \ {c}
           /\ at'[k].resource = c /\ at'[k].pc \in {"pods", "own"} /\ at'[k] \in Positions
           /\ ~ at'[k].stale /\ mem'[k].size = size[c] /\ mem'[k].env = mem[k].env
           /\ DOMAIN mem'[k] = Fields /\ mem'[k].deleting = (life[c] = "deleting")
           /\ OthersStay(k)
           /\ fresh' = [fresh EXCEPT ![c] = TRUE]
           /\ secret' = [secret EXCEPT !.exists = TRUE]
           /\ UNCHANGED <<life, pods, claims, urls, console>>
<1>1. PICK c \in queue :
        /\ Worker(c) = k
        /\ queue' = queue \ {c}
        /\ Move(k, [resource |-> c, pc |-> IF c \in secret.owners THEN "pods" ELSE "own",
                    stale |-> FALSE], {})
        /\ mem' = [mem EXCEPT ![k].size = size[c], ![k].deleting = (life[c] = "deleting")]
        /\ fresh' = [fresh EXCEPT ![c] = TRUE]
  BY DEF Take
<1> DEFINE p == [resource |-> c, pc |-> IF c \in secret.owners THEN "pods" ELSE "own", stale |-> FALSE]
<1>2. c \in Resources
  BY DEF TypesInv
<1>3. p \in Positions /\ p.resource = c /\ p.pc \in {"pods", "own"} /\ ~ p.stale
  BY <1>2 DEF Positions, Places
<1>4. Move(k, p, {})
  BY <1>1
<1>5. /\ DOMAIN mem' = Workers /\ \A v \in Workers \ {k} : mem'[v] = mem[v]
      /\ DOMAIN mem'[k] = Fields /\ mem'[k].deleting = (life[c] = "deleting")
      /\ mem'[k].size = size[c] /\ mem'[k].env = mem[k].env
  BY <1>1 DEF TypesInv, Fields
<1>6. secret' = [secret EXCEPT !.exists = TRUE] /\ UNCHANGED <<life, pods, claims, urls, console>>
  BY DEF Take, userVars, podVars
<1> HIDE DEF p
<1>7. OthersStay(k) /\ at'[k] = p
  BY <1>4, <1>3, <1>5, MoveOf DEF OthersStay
<1> QED
  BY <1>1, <1>3, <1>5, <1>6, <1>7

\* The steps of the user, of Kubernetes, and the crash.
Besides ==
  \/ \E c \in Resources : EditResource(c) \/ DeleteResource(c) \/ PodsUp(c)
  \/ CollectSecret \/ CollectConsole \/ Crash

LEMMA BesidesQueue ==
  ASSUME TypesInv, WorkInv, Besides
  PROVE  \A c \in queue' : c \in Resources /\ (c \in queue \/ life[c] # "gone")
<1> USE DEF Besides, TypesInv
<1>1. CASE \E c \in Resources : EditResource(c) \/ DeleteResource(c) \/ PodsUp(c)
  BY <1>1 DEF EditResource, DeleteResource, PodsUp
<1>2. CASE CollectSecret \/ CollectConsole
  <2>1. \/ queue' = queue \union Wakes(secret.owners)
        \/ queue' = queue \union Wakes(console.owners)
    BY <1>2 DEF CollectSecret, CollectConsole
  <2> QED
    BY <2>1, WakesOf
<1>3. CASE Crash
  BY <1>3 DEF Crash
<1> QED
  BY <1>1, <1>2, <1>3

LEMMA BesidesWorkers ==
  ASSUME TypesInv, Besides
  PROVE  /\ at' \in [Workers -> Positions] /\ DOMAIN mem' = Workers
         /\ \A k \in Workers :
              \/ Stopped(k)
              \/ /\ mem'[k] = mem[k] /\ at'[k].resource = at[k].resource /\ at'[k].pc = at[k].pc
                 /\ at[k].stale => at'[k].stale
                 /\ at'[k] = at[k] \/ at[k].pc \in DOMAIN Holds
<1>1. CASE \E c \in Resources : EditResource(c) \/ DeleteResource(c) \/ PodsUp(c)
  <2>1. UNCHANGED <<at, mem>>
    BY <1>1 DEF EditResource, DeleteResource, PodsUp
  <2> QED
    BY <2>1 DEF TypesInv
<1>2. CASE CollectSecret \/ CollectConsole
  <2>1. PICK W : Move("collector", Idle, W) /\ mem' = mem
    BY <1>2 DEF CollectSecret, CollectConsole
  <2>2. "collector" \notin Workers
    BY DEF Workers
  <2>3. DOMAIN mem' = Workers
    BY <2>1 DEF TypesInv
  <2> QED
    BY <2>1, <2>2, <2>3, MoveOf, Records
<1>3. CASE Crash
  <2>1. at' = [k \in Workers |-> Idle] /\ mem' = [k \in Workers |-> NoMem]
    BY <1>3 DEF Crash
  <2> QED
    BY <2>1, Records DEF Stopped
<1> QED
  BY <1>1, <1>2, <1>3 DEF Besides

LEMMA BesidesTypes ==
  ASSUME TypesInv, WorkInv, Besides
  PROVE  TypesInv'
<1>1. \A k \in Workers : DOMAIN mem'[k] = Fields /\ mem'[k].deleting \in BOOLEAN
  BY BesidesWorkers, Records DEF TypesInv, Stopped
<1>2. queue' \subseteq Resources
  BY BesidesQueue
<1>3. ObjectTypes'
  <2> USE DEF userVars, podVars, sharedVars
  <2>1. ASSUME NEW c \in Resources, EditResource(c) PROVE ObjectTypes'
    <3>1. pods[c] \in {"new", "down", "up", "late"}
      BY DEF TypesInv
    <3>2. pods' \in [Resources -> {"new", "down", "up", "late"}]
      BY <2>1, <3>1 DEF EditResource, TypesInv
    <3>3. fresh' \in [Resources -> BOOLEAN] /\ UNCHANGED <<life, claims, sharedVars>>
      BY <2>1 DEF EditResource, TypesInv
    <3> QED
      BY <3>2, <3>3 DEF TypesInv, ObjectTypes
  <2>2. ASSUME NEW c \in Resources, DeleteResource(c) PROVE ObjectTypes'
    <3>1. /\ life' \in [Resources -> {"live", "deleting", "gone"}]
          /\ fresh' \in [Resources -> BOOLEAN] /\ UNCHANGED <<pods, sharedVars>>
      BY <2>2 DEF DeleteResource, TypesInv
    <3>2. PICK f : claims' = [claims EXCEPT ![c] = f] /\ DOMAIN f = ToSet(Components(c))
      BY <2>2 DEF DeleteResource, TypesInv
    <3> QED
      BY <3>1, <3>2 DEF TypesInv, ObjectTypes
  <2>3. ASSUME NEW c \in Resources, PodsUp(c) PROVE ObjectTypes'
    <3>1. pods' \in [Resources -> {"new", "down", "up", "late"}] /\ UNCHANGED <<life, fresh, sharedVars>>
      BY <2>3 DEF PodsUp, TypesInv
    <3>2. DOMAIN claims' = Resources /\ \A d \in Resources : DOMAIN claims'[d] = DOMAIN claims[d]
      BY <2>3 DEF PodsUp, TypesInv
    <3> QED
      BY <3>1, <3>2 DEF TypesInv, ObjectTypes
  <2>4. CASE CollectSecret
    <3>1. secret' \in [exists : BOOLEAN, owners : SUBSET Resources]
      BY <2>4 DEF CollectSecret, TypesInv
    <3>2. UNCHANGED <<life, fresh, pods, claims, urls, console>>
      BY <2>4 DEF CollectSecret
    <3> QED
      BY <3>1, <3>2 DEF TypesInv, ObjectTypes
  <2>5. CASE CollectConsole
    <3>0. console.current \in BOOLEAN
      BY DEF TypesInv
    <3>1. console' \in [exists : BOOLEAN, owners : SUBSET Resources, current : BOOLEAN]
      BY <2>5, <3>0 DEF CollectConsole, TypesInv
    <3>2. UNCHANGED <<life, fresh, pods, claims, urls, secret>>
      BY <2>5 DEF CollectConsole
    <3> QED
      BY <3>1, <3>2 DEF TypesInv, ObjectTypes
  <2>6. CASE Crash
    BY <2>6, KeptObjects DEF Crash
  <2> QED
    BY <2>1, <2>2, <2>3, <2>4, <2>5, <2>6 DEF Besides
<1> QED
  BY <1>1, <1>2, <1>3, BesidesWorkers DEF TypesInv, ObjectTypes

LEMMA TypesStep ==
  ASSUME TypesInv, WorkInv, [NamespaceNext]_vars
  PROVE  TypesInv'
<1>1. CASE UNCHANGED vars
  BY <1>1 DEF vars, userVars, podVars, sharedVars, TypesInv
<1>2. ASSUME NEW k \in Workers, Middle(k) PROVE TypesInv'
  BY <1>2, MiddleOf, MiddleObjects, ProceedsTypes
<1>3. ASSUME NEW k \in Workers, Fails(k) PROVE TypesInv'
  BY <1>3, FailsOf, KeptObjects, ProceedsTypes
<1>4. ASSUME NEW k \in Workers, Take(k) PROVE TypesInv'
  <2>1. PICK c \in queue :
           /\ queue' = queue \ {c}
           /\ at'[k] \in Positions
           /\ DOMAIN mem'[k] = Fields /\ mem'[k].deleting = (life[c] = "deleting")
           /\ OthersStay(k)
           /\ fresh' = [fresh EXCEPT ![c] = TRUE]
           /\ secret' = [secret EXCEPT !.exists = TRUE]
           /\ UNCHANGED <<life, pods, claims, urls, console>>
    BY <1>4, TakeOf
  <2>2. mem'[k].deleting \in BOOLEAN
    BY <2>1
  <2>3. fresh' \in [Resources -> BOOLEAN] /\ secret' \in [exists : BOOLEAN, owners : SUBSET Resources]
    BY <2>1 DEF TypesInv
  <2>4. \A v \in Workers : DOMAIN mem'[v] = Fields /\ mem'[v].deleting \in BOOLEAN
    BY <2>1, <2>2 DEF OthersStay, TypesInv
  <2> QED
    BY <2>1, <2>3, <2>4 DEF TypesInv, OthersStay
<1>5. ASSUME NEW k \in Workers, RemoveSplunkFinalizer(k) PROVE TypesInv'
  <2>1. life' \in [Resources -> {"live", "deleting", "gone"}]
    BY <1>5, RemoveOf DEF TypesInv
  <2>2. queue' \subseteq Resources
    BY <1>5, RemoveOf DEF TypesInv, Woken
  <2>3. UNCHANGED <<pods, fresh, claims, sharedVars>> /\ Stopped(k) /\ OthersStay(k)
    BY <1>5, RemoveOf
  <2>4. \A v \in Workers : DOMAIN mem'[v] = Fields /\ mem'[v].deleting \in BOOLEAN
    BY <2>3, Records DEF OthersStay, Stopped, TypesInv
  <2> QED
    BY <2>1, <2>2, <2>3, <2>4 DEF TypesInv, OthersStay, sharedVars
<1>6. CASE Besides
  BY <1>6, BesidesTypes
<1> QED
  BY <1>1, <1>2, <1>3, <1>4, <1>5, <1>6 DEF NamespaceNext, Reconcile, Middle, Besides

-----------------------------------------------------------------------------
(***************************************************************************)
(* A worker and its resource                                               *)
(***************************************************************************)

LEMMA WorkInit == NamespaceInit => WorkInv
<1> SUFFICES ASSUME NamespaceInit PROVE WorkInv
  OBVIOUS
<1>1. \A c \in queue : life[c] # "gone"
  BY NamespaceAssumption DEF NamespaceInit
<1>2. \A k \in Workers : at[k].pc = "idle" /\ ~ mem[k].deleting
  BY Records DEF NamespaceInit
<1> QED
  BY <1>1, <1>2 DEF WorkInv

\* Nobody but its worker sees a resource go.
LEMMA BesidesLife ==
  ASSUME TypesInv, Besides
  PROVE  \A c \in Resources : life'[c] = life[c] \/ (life[c] = "live" /\ life'[c] = "deleting")
BY DEF Besides, TypesInv, EditResource, DeleteResource, PodsUp, CollectSecret, CollectConsole,
       Crash, userVars

LEMMA MiddleLife ==
  ASSUME NEW k, Middle(k)
  PROVE  UNCHANGED <<life, fresh, pods>>
BY DEF Middle, OwnSecret, WaitForPods, NoClusterInfo, ReadURLs, WriteURLs, CreateURLs,
       ApplyConsole, OwnConsole, DisownSecret, DeleteSplunkPvc, DeleteClaims, userVars, podVars

LEMMA ProceedsWork ==
  ASSUME TypesInv, WorkInv, NEW k \in Workers, Proceeds(k), life' = life, at[k].pc # "idle"
  PROVE  WorkInv'
<1>1. \A c \in queue' : life[c] # "gone"
  BY DEF Proceeds, Woken, WorkInv
<1>2. ASSUME NEW v \in Workers \ {k}
      PROVE  mem'[v] = mem[v] /\ at'[v].resource = at[v].resource /\ at'[v].pc = at[v].pc
  BY DEF Proceeds, OthersStay
<1>3. CASE Stopped(k)
  <2>1. at'[k].pc = "idle" /\ ~ mem'[k].deleting
    BY <1>3, Records DEF Stopped
  <2> QED
    BY <1>1, <1>2, <2>1 DEF WorkInv
<1>4. CASE Went(k)
  BY <1>1, <1>2, <1>4 DEF WorkInv, Went, SameMem, Deleting
<1> QED
  BY <1>3, <1>4 DEF Proceeds

LEMMA WorkStep ==
  ASSUME TypesInv, WorkInv, [NamespaceNext]_vars
  PROVE  WorkInv'
<1>1. CASE UNCHANGED vars
  BY <1>1 DEF vars, userVars, WorkInv
<1>2. ASSUME NEW k \in Workers, Middle(k) PROVE WorkInv'
  BY <1>2, MiddleOf, MiddleLife, ProceedsWork
<1>3. ASSUME NEW k \in Workers, Fails(k) PROVE WorkInv'
  BY <1>3, FailsOf, ProceedsWork DEF Fails
<1>4. ASSUME NEW k \in Workers, Take(k) PROVE WorkInv'
  <2>1. PICK c \in queue :
           /\ Worker(c) = k /\ queue' = queue \ {c}
           /\ at'[k].resource = c /\ at'[k].pc \in {"pods", "own"}
           /\ mem'[k].deleting = (life[c] = "deleting")
           /\ OthersStay(k) /\ life' = life
    BY <1>4, TakeOf
  <2>2. c \in Resources /\ life[c] # "gone"
    BY DEF TypesInv, WorkInv
  <2>3. mem'[k].deleting => life[c] = "deleting"
    BY <2>1
  <2> QED
    BY <2>1, <2>2, <2>3 DEF WorkInv, OthersStay
<1>5. ASSUME NEW k \in Workers, RemoveSplunkFinalizer(k) PROVE WorkInv'
  <2> DEFINE c == at[k].resource
  <2>1. /\ c \in Resources /\ Worker(c) = k
        /\ at'[k].pc = "idle" /\ ~ mem'[k].deleting /\ OthersStay(k)
    BY <1>5, RemoveOf, Records DEF Stopped, WorkInv
  <2>2. \A d \in Resources : d # c => life'[d] = life[d]
    BY <1>5, RemoveOf DEF TypesInv
  <2>3. \A d \in queue' : life'[d] # "gone"
    <3>1. CASE life' = life /\ Woken(k)
      BY <1>5, <3>1, RemoveOf DEF Woken, WorkInv
    <3>2. CASE queue' = queue \ {c}
      BY <3>2, <2>2 DEF TypesInv, WorkInv
    <3> QED
      BY <1>5, <3>1, <3>2, RemoveOf
  <2>4. ASSUME NEW v \in Workers \ {k}, at[v].pc # "idle"
        PROVE  at[v].resource \in Resources /\ at[v].resource # c
    BY <2>1, <2>4 DEF WorkInv
  <2> QED
    BY <2>1, <2>2, <2>3, <2>4 DEF WorkInv, OthersStay
<1>6. CASE Besides
  <2>1. \A c \in queue' : life'[c] # "gone"
    BY <1>6, BesidesQueue, BesidesLife DEF WorkInv
  <2>2. ASSUME NEW k \in Workers, Stopped(k) PROVE at'[k].pc = "idle" /\ ~ mem'[k].deleting
    BY <2>2, Records DEF Stopped
  <2>3. ASSUME NEW k \in Workers
        PROVE  Stopped(k) \/ (mem'[k] = mem[k] /\ at'[k].resource = at[k].resource /\ at'[k].pc = at[k].pc)
    BY <1>6, BesidesWorkers
  <2> QED
    BY <1>6, <2>1, <2>2, <2>3, BesidesLife DEF WorkInv
<1> QED
  BY <1>1, <1>2, <1>3, <1>4, <1>5, <1>6 DEF NamespaceNext, Reconcile, Middle, Besides

-----------------------------------------------------------------------------
(***************************************************************************)
(* Claims                                                                  *)
(***************************************************************************)

\* A worker is about to remove the finalizer of c.
Leaving(c) == at[Worker(c)].pc = "finalizer" /\ at[Worker(c)].resource = c

LEMMA ClaimInit == NamespaceInit => ClaimInv
BY DEF NamespaceInit, ClaimInv

LEMMA ComponentsOf ==
  \A c : \A j \in DOMAIN Components(c) : Components(c)[j] \in ToSet(Components(c))
BY DEF ToSet

\* Where every component has claims, DeleteSplunkPvc deletes them all.
LEMMA DeletesClaims ==
  ASSUME TypesInv, WorkInv, NEW k \in Workers, DeleteSplunkPvc(k)
  PROVE  LET c == at[k].resource
         IN /\ \A d \in Resources \ {c} : claims'[d] = claims[d]
            /\ (\A x \in DOMAIN claims[c] : claims[c][x] # "none")
               => \A x \in DOMAIN claims'[c] : claims'[c][x] = "deleted"
<1> DEFINE c == at[k].resource
           Reached(x) == \A i \in DOMAIN Components(c) :
                           Components(c)[i] = x
                           => \A j \in 1 .. i - 1 : claims[c][Components(c)[j]] # "none"
<1>1. c \in Resources
  BY DEF DeleteSplunkPvc, DeleteClaims, WorkInv
<1>2. claims' = [claims EXCEPT ![c] = [x \in DOMAIN claims[c] |->
                   IF Reached(x) /\ claims[c][x] # "none" THEN "deleted" ELSE claims[c][x]]]
  BY DEF DeleteSplunkPvc, DeleteClaims
<1>3. DOMAIN claims[c] = ToSet(Components(c))
  BY <1>1 DEF TypesInv
<1>4. ASSUME \A x \in DOMAIN claims[c] : claims[c][x] # "none", NEW x
      PROVE  Reached(x)
  <2> SUFFICES ASSUME NEW i \in DOMAIN Components(c), NEW j \in 1 .. i - 1
               PROVE  claims[c][Components(c)[j]] # "none"
    OBVIOUS
  <2>1. DOMAIN Components(c) \in {1 .. 1, 1 .. 2}
    BY DEF Components
  <2>2. j \in DOMAIN Components(c)
    BY <2>1
  <2> QED
    BY <1>3, <1>4, <2>2, ComponentsOf
<1> HIDE DEF Reached
<1>5. claims'[c] = [x \in DOMAIN claims[c] |->
                   IF Reached(x) /\ claims[c][x] # "none" THEN "deleted" ELSE claims[c][x]]
  BY <1>1, <1>2 DEF TypesInv
<1>6. \A d \in Resources \ {c} : claims'[d] = claims[d]
  BY <1>2 DEF TypesInv
<1> QED
  BY <1>4, <1>5, <1>6

LEMMA ClaimStep ==
  ASSUME TypesInv, WorkInv, ClaimInv, [NamespaceNext]_vars
  PROVE  ClaimInv'
<1> DEFINE Some(c) == \A x \in DOMAIN claims[c] : claims[c][x] # "none"
           Free(c) == \A x \in DOMAIN claims[c] : claims[c][x] # "bound"
           Up(c) == pods[c] \in {"down", "up"}
<1>0. /\ ClaimInv <=> \A c \in Resources :
                        /\ pods[c] # "new" => Some(c)
                        /\ Up(c) /\ (life[c] = "gone" \/ Leaving(c)) => Free(c)
      /\ ClaimInv' <=> \A c \in Resources :
                        /\ pods'[c] # "new" => Some(c)'
                        /\ Up(c)' /\ (life'[c] = "gone" \/ Leaving(c)') => Free(c)'
  BY DEF ClaimInv, Leaving
<1>w. \A c \in Resources : Worker(c) \in Workers
  BY DEF Worker, Workers
<1>1. ASSUME UNCHANGED <<pods, claims>>,
             \A c \in Resources : life'[c] = "gone" \/ Leaving(c)' => life[c] = "gone" \/ Leaving(c)
      PROVE  ClaimInv'
  BY <1>0, <1>1
<1>2. CASE UNCHANGED vars
  BY <1>1, <1>2 DEF vars, userVars, podVars, Leaving
<1>3. ASSUME NEW k \in Workers, OthersStay(k), at'[k].pc # "finalizer", NEW c \in Resources, Leaving(c)'
      PROVE  Leaving(c)
  <2>1. Worker(c) # k
    BY <1>3 DEF Leaving
  <2> QED
    BY <1>3, <1>w, <2>1 DEF Leaving, OthersStay
<1>4. ASSUME NEW k \in Workers, Middle(k), at[k].pc # "claims" PROVE ClaimInv'
  <2>1. Proceeds(k) /\ UNCHANGED <<life, pods>>
    BY <1>4, MiddleOf, MiddleLife
  <2>2. at'[k].pc # "finalizer"
    BY <1>4, <2>1, Records DEF Proceeds, Stopped, Went
  <2>3. claims' = claims
    BY <1>4 DEF Middle, OwnSecret, WaitForPods, NoClusterInfo, ReadURLs, WriteURLs, CreateURLs,
                ApplyConsole, OwnConsole, DisownSecret, DeleteSplunkPvc, DeleteClaims, podVars
  <2> QED
    BY <1>1, <1>3, <2>1, <2>2, <2>3 DEF Proceeds
<1>5. ASSUME NEW k \in Workers, DeleteSplunkPvc(k) PROVE ClaimInv'
  <2>0. Middle(k)
    BY <1>5 DEF Middle
  <2>c. PICK c \in Resources : c = at[k].resource
    BY <2>0, MiddleOf DEF WorkInv
  <2>1. Proceeds(k) /\ UNCHANGED <<life, pods>>
    BY <2>0, MiddleOf, MiddleLife
  <2>2. Worker(c) = k
    BY <2>0, <2>c, MiddleOf DEF WorkInv
  <2>3. \A d \in Resources \ {c} : claims'[d] = claims[d]
    BY <1>5, <2>c, DeletesClaims
  <2>4. Some(c) => \A x \in DOMAIN claims'[c] : claims'[c][x] = "deleted"
    BY <1>5, <2>c, DeletesClaims
  <2>5. ASSUME NEW d \in Resources \ {c}, Leaving(d)' PROVE Leaving(d)
    <3>1. Worker(d) # k
      BY <2>c, <2>1, <2>5, Records DEF Leaving, Proceeds, Stopped, Went
    <3> QED
      BY <1>w, <2>1, <2>5, <3>1 DEF Leaving, Proceeds, OthersStay
  <2>6. \A d \in Resources \ {c} :
          /\ pods'[d] # "new" => Some(d)'
          /\ Up(d)' /\ (life'[d] = "gone" \/ Leaving(d)') => Free(d)'
    BY <1>0, <2>1, <2>3, <2>5
  <2>7. pods'[c] # "new" => Some(c)' /\ Free(c)'
    BY <1>0, <2>1, <2>2, <2>4
  <2> QED
    BY <1>0, <2>6, <2>7
<1>6. ASSUME NEW k \in Workers, Fails(k) PROVE ClaimInv'
  <2>1. at'[k].pc # "finalizer" /\ OthersStay(k)
    BY <1>6, StopOf, Records DEF Fails, End, Stopped
  <2> QED
    BY <1>1, <1>3, <1>6, <2>1, FailsOf
<1>7. ASSUME NEW k \in Workers, Take(k) PROVE ClaimInv'
  <2>1. at'[k].pc # "finalizer" /\ OthersStay(k) /\ UNCHANGED <<life, pods, claims>>
    BY <1>7, TakeOf
  <2> QED
    BY <1>1, <1>3, <2>1
<1>8. ASSUME NEW k \in Workers, RemoveSplunkFinalizer(k) PROVE ClaimInv'
  <2> DEFINE c == at[k].resource
  <2>1. at'[k].pc # "finalizer" /\ OthersStay(k) /\ UNCHANGED <<pods, claims>>
    BY <1>8, RemoveOf, Records DEF Stopped
  <2>2. c \in Resources /\ Worker(c) = k /\ at[k].pc = "finalizer"
    BY <1>8, RemoveOf DEF WorkInv
  <2>3. Leaving(c)
    BY <2>2 DEF Leaving
  <2>4. \A d \in Resources \ {c} : life'[d] = life[d]
    BY <1>8, RemoveOf DEF TypesInv
  <2> QED
    BY <1>1, <1>3, <2>1, <2>3, <2>4
<1>9. ASSUME Besides, NEW c \in Resources, Leaving(c)' PROVE Leaving(c)
  BY <1>9, <1>w, BesidesWorkers, Records DEF Leaving, Stopped
<1>10. ASSUME NEW c \in Resources, Leaving(c) PROVE life[c] = "deleting"
  BY <1>10, <1>w DEF Leaving, WorkInv
<1>11. CASE Besides
  <2>1. \A c \in Resources : life'[c] = "gone" => life[c] = "gone"
    BY <1>11, BesidesLife
  <2>2. ASSUME NEW c \in Resources, EditResource(c) PROVE ClaimInv'
    <3>1. claims' = claims
      BY <2>2 DEF EditResource
    <3>2. \A d \in Resources : (pods'[d] # "new" => pods[d] # "new") /\ (Up(d)' => Up(d))
      BY <2>2 DEF EditResource, TypesInv
    <3> QED
      BY <1>0, <1>9, <1>11, <2>1, <3>1, <3>2
  <2>3. ASSUME NEW c \in Resources, DeleteResource(c) PROVE ClaimInv'
    <3>1. pods' = pods
      BY <2>3 DEF DeleteResource
    <3>2. \A d \in Resources : pods[d] # "new" => claims'[d] = claims[d]
      BY <2>3 DEF DeleteResource, TypesInv
    <3> QED
      BY <1>0, <1>9, <1>11, <2>1, <3>1, <3>2
  <2>4. ASSUME NEW c \in Resources, PodsUp(c) PROVE ClaimInv'
    <3>1. life' = life /\ life[c] # "gone" /\ pods[c] \in {"new", "down"}
      BY <2>4 DEF PodsUp, Ready, TypesInv, userVars
    <3>2. \A d \in Resources \ {c} : pods'[d] = pods[d] /\ claims'[d] = claims[d]
      BY <2>4 DEF PodsUp, TypesInv
    <3>3. pods'[c] = IF pods[c] = "new" /\ life[c] = "deleting" THEN "late" ELSE "up"
      BY <2>4 DEF PodsUp, TypesInv
    <3>4. claims'[c] = [x \in DOMAIN claims[c] |-> IF claims[c][x] = "none" THEN "bound" ELSE claims[c][x]]
      BY <2>4 DEF PodsUp, TypesInv
    <3>5. Some(c)'
      BY <3>4
    <3>6. ASSUME Leaving(c)', Up(c)' PROVE Free(c)'
      <4>1. Leaving(c) /\ life[c] = "deleting"
        BY <1>9, <1>10, <1>11, <3>6
      <4>2. pods[c] = "down"
        BY <3>1, <3>3, <3>6, <4>1
      <4>3. Some(c) /\ Free(c)
        BY <1>0, <4>1, <4>2
      <4> QED
        BY <3>4, <4>3
    <3>7. \A d \in Resources \ {c} :
            /\ pods'[d] # "new" => Some(d)'
            /\ Up(d)' /\ (life'[d] = "gone" \/ Leaving(d)') => Free(d)'
      BY <1>0, <1>9, <1>11, <3>1, <3>2
    <3> QED
      BY <1>0, <3>1, <3>5, <3>6, <3>7
  <2>5. CASE CollectSecret \/ CollectConsole \/ Crash
    <3>1. UNCHANGED <<life, pods, claims>>
      BY <2>5 DEF CollectSecret, CollectConsole, Crash, userVars, podVars
    <3> QED
      BY <1>1, <1>9, <1>11, <2>1, <3>1
  <2> QED
    BY <1>11, <2>2, <2>3, <2>4, <2>5 DEF Besides
<1>12. ASSUME NEW k \in Workers, Middle(k) PROVE ClaimInv'
  <2>1. at[k].pc = "claims" => DeleteSplunkPvc(k)
    BY <1>12 DEF Middle, OwnSecret, WaitForPods, NoClusterInfo, ReadURLs, WriteURLs, CreateURLs,
                 ApplyConsole, OwnConsole, DisownSecret
  <2> QED
    BY <1>4, <1>5, <1>12, <2>1
<1> QED
  BY <1>2, <1>6, <1>7, <1>8, <1>11, <1>12 DEF NamespaceNext, Reconcile, Middle, Besides

-----------------------------------------------------------------------------
(***************************************************************************)
(* URLs                                                                    *)
(***************************************************************************)

LEMMA UrlInit == NamespaceInit => UrlInv
<1> SUFFICES ASSUME NamespaceInit PROVE UrlInv
  OBVIOUS
<1>1. \A k \in Workers : at[k].pc = "idle"
  BY Records DEF NamespaceInit
<1>2. urls = NoUrls
  BY DEF NamespaceInit
<1> QED
  BY <1>1, <1>2 DEF UrlInv

\* A worker that waits to write, or moves on from there, while the ConfigMap stays.
LEMMA UrlsStay ==
  ASSUME UrlInv, urls' = urls, NEW v \in Workers,
         \/ at'[v].pc \notin {"write", "create"}
         \/ /\ mem'[v] = mem[v] /\ at'[v].resource = at[v].resource /\ at'[v].pc = at[v].pc
            /\ at[v].stale => at'[v].stale
  PROVE  /\ at'[v].pc = "write" => urls'.exists
         /\ (at'[v].pc = "write" /\ ~ at'[v].stale) \/ (at'[v].pc = "create" /\ ~ urls'.exists)
            => mem'[v].env = NewURLs(v)'
BY DEF UrlInv, NewURLs

\* What the operator reads, merges and remembers is what it would merge at any time until
\* the ConfigMap changes.
LEMMA ReadsURLs ==
  ASSUME TypesInv, UrlInv, NEW k \in Workers, ReadURLs(k)
  PROVE  at'[k].pc \in {"write", "create"}
         => mem'[k].env = NewURLs(k)' /\ (at'[k].pc = "write" => urls'.exists)
<1> DEFINE env == NewURLs(k)
           place == IF ~ urls.exists THEN "create" ELSE IF env = urls.env THEN "apply" ELSE "write"
<1>2. GoTo(k, place, {})
  BY DEF ReadURLs
<1>3. mem' = [mem EXCEPT ![k].env = IF urls.exists /\ env = urls.env THEN @ ELSE env] /\ urls' = urls
  BY DEF ReadURLs, sharedVars
<1> HIDE DEF env
<1>4. place \in Places
  BY DEF Places
<1>5. at'[k].resource = at[k].resource /\ at'[k].pc = place
  BY <1>2, <1>4, GoToOf
<1>6. /\ mem'[k].size = mem[k].size /\ mem'[k].deleting = mem[k].deleting
      /\ ~ (urls.exists /\ env = urls.env) => mem'[k].env = env
  BY <1>3 DEF TypesInv, Fields
<1>7. NewURLs(k)' = NewURLs(k)
  BY <1>3, <1>5, <1>6 DEF NewURLs
<1>8. place \in {"write", "create"} => ~ (urls.exists /\ env = urls.env)
  OBVIOUS
<1> QED
  BY <1>3, <1>5, <1>6, <1>7, <1>8 DEF env

\* Only these two steps change the ConfigMap.
LEMMA WritesURLs ==
  ASSUME UrlInv, NEW k \in Workers, WriteURLs(k) \/ CreateURLs(k)
  PROVE  \/ urls' = urls
         \/ /\ PutURLs(k) /\ at[k].pc \in {"write", "create"}
            /\ urls' = [exists |-> TRUE, env |-> NewURLs(k)]
<1>1. CASE PutURLs(k) /\ at[k].pc = "write" /\ ~ at[k].stale
  BY <1>1 DEF PutURLs, UrlInv
<1>2. CASE PutURLs(k) /\ at[k].pc = "create" /\ ~ urls.exists
  BY <1>2 DEF PutURLs, UrlInv
<1> QED
  BY <1>1, <1>2 DEF WriteURLs, CreateURLs, sharedVars

LEMMA UrlsKept ==
  ASSUME NamespaceNext, \A k \in Workers : ~ WriteURLs(k) /\ ~ CreateURLs(k)
  PROVE  urls' = urls
BY DEF NamespaceNext, Reconcile, Take, OwnSecret, WaitForPods, NoClusterInfo, ReadURLs,
       ApplyConsole, OwnConsole, DisownSecret, DeleteSplunkPvc, DeleteClaims,
       RemoveSplunkFinalizer, Fails, EditResource, DeleteResource, PodsUp, CollectSecret,
       CollectConsole, Crash, sharedVars

LEMMA UrlStep ==
  ASSUME TypesInv, WorkInv, UrlInv, [NamespaceNext]_vars
  PROVE  UrlInv'
<1> DEFINE Good(v) ==
      /\ at[v].pc = "write" => urls.exists
      /\ (at[v].pc = "write" /\ ~ at[v].stale) \/ (at[v].pc = "create" /\ ~ urls.exists)
         => mem[v].env = NewURLs(v)
<1>0. /\ UrlInv <=> (~ urls.exists => urls = NoUrls) /\ \A v \in Workers : Good(v)
      /\ UrlInv' <=> (~ urls'.exists => urls' = NoUrls) /\ \A v \in Workers : Good(v)'
  BY DEF UrlInv, NoUrls
<1>1. CASE UNCHANGED vars
  BY <1>1 DEF vars, sharedVars, UrlInv, NewURLs
<1>2. ASSUME NEW k \in Workers, OthersStay(k), urls' = urls, Good(k)' PROVE UrlInv'
  <2>1. ASSUME NEW v \in Workers \ {k} PROVE Good(v)'
    BY <1>2, <2>1, UrlsStay DEF OthersStay
  <2> QED
    BY <1>0, <1>2, <2>1
<1>3. ASSUME NEW k \in Workers, at'[k].pc \notin {"write", "create"} PROVE Good(k)'
  BY <1>3
<1>4. ASSUME NEW k \in Workers, Middle(k) PROVE UrlInv'
  <2>1. Proceeds(k)
    BY <1>4, MiddleOf
  <2>2. CASE PutURLs(k)
    <3>1. urls'.exists /\ GoTo(k, "apply", {"urls"})
      BY <2>2 DEF PutURLs
    <3>2. "apply" \in Places /\ "urls" \in {"urls"}
      BY DEF Places
    <3>3. at'[k].pc = "apply"
      BY <3>1, <3>2, GoToOf
    <3>4. \A v \in Workers \ {k} : at'[v].pc = at[v].pc /\ (at[v].pc = "write" => at'[v].stale)
      BY <3>1, <3>2, GoToOf
    <3>5. \A v \in Workers : Good(v)'
      BY <3>1, <3>3, <3>4
    <3> QED
      BY <1>0, <3>1, <3>5
  <2>3. CASE ReadURLs(k)
    <3>1. Good(k)'
      BY <2>3, ReadsURLs
    <3> QED
      BY <1>2, <2>1, <2>3, <3>1 DEF Proceeds, ReadURLs, sharedVars
  <2>4. CASE ~ ReadURLs(k) /\ ~ PutURLs(k)
    <3>1. urls' = urls
      BY <1>4, <2>4 DEF Middle, OwnSecret, WaitForPods, NoClusterInfo, WriteURLs, CreateURLs,
         ApplyConsole, OwnConsole, DisownSecret, DeleteSplunkPvc, DeleteClaims, sharedVars
    <3>2. at[k].pc = "pods" => Stopped(k)
      <4>1. at[k].pc = "pods" => WaitForPods(k) \/ NoClusterInfo(k)
        BY <1>4, <2>4 DEF Middle, OwnSecret, WriteURLs, CreateURLs,
           ApplyConsole, OwnConsole, DisownSecret, DeleteSplunkPvc, DeleteClaims
      <4>2. WaitForPods(k) \/ NoClusterInfo(k) => \E W : Stop(k, W)
        BY DEF WaitForPods, NoClusterInfo, ConsoleFails, End
      <4> QED
        BY <4>1, <4>2, StopOf
    <3>3. at'[k].pc \notin {"write", "create"}
      BY <2>1, <3>2, Records DEF Proceeds, Stopped, Went
    <3> QED
      BY <1>2, <1>3, <2>1, <3>1, <3>3 DEF Proceeds
  <2> QED
    BY <2>2, <2>3, <2>4
<1>5. ASSUME NEW k \in Workers, Fails(k) \/ Take(k) \/ RemoveSplunkFinalizer(k) PROVE UrlInv'
  <2>1. urls' = urls
    BY <1>5 DEF Fails, Take, RemoveSplunkFinalizer, sharedVars
  <2>2. OthersStay(k) /\ at'[k].pc \notin {"write", "create"}
    <3>1. CASE Fails(k)
      BY <3>1, StopOf, Records DEF Fails, End, Stopped
    <3>2. CASE Take(k)
      BY <3>2, TakeOf
    <3>3. CASE RemoveSplunkFinalizer(k)
      BY <3>3, RemoveOf, Records DEF Stopped
    <3> QED
      BY <1>5, <3>1, <3>2, <3>3
  <2> QED
    BY <1>2, <1>3, <2>1, <2>2
<1>6. CASE Besides
  <2>1. urls' = urls
    BY <1>6 DEF Besides, EditResource, DeleteResource, PodsUp, CollectSecret, CollectConsole,
                Crash, sharedVars
  <2>2. ASSUME NEW v \in Workers PROVE Good(v)'
    <3>1. CASE Stopped(v)
      BY <1>3, <3>1, Records DEF Stopped
    <3>2. CASE ~ Stopped(v)
      BY <1>6, <2>1, <3>2, BesidesWorkers, UrlsStay
    <3> QED
      BY <3>1, <3>2
  <2> QED
    BY <1>0, <2>1, <2>2
<1> QED
  BY <1>1, <1>4, <1>5, <1>6 DEF NamespaceNext, Reconcile, Middle, Besides

-----------------------------------------------------------------------------
(***************************************************************************)
(* What the lists contain, and the rest of NamespaceTypeOK                 *)
(***************************************************************************)

\* What a worker makes of good lists is good, and keeps the URLs of the other resources.
LEMMA NewURLsOf ==
  ASSUME TypesInv, WorkInv, UrlInv, ListInv, NEW k \in Workers, at[k].pc # "idle"
  PROVE  GoodEnv(NewURLs(k)) /\ KeepsOthers(urls.env, NewURLs(k), at[k].resource)
<1> DEFINE c   == at[k].resource
           new == Variables(c, mem[k].size)
<1>1. GoodNew(c, new)
  BY VariablesOf DEF WorkInv, ListInv
<1>2. GoodEnv(NoUrls.env) /\ \A env : KeepsOthers(NoUrls.env, env, c)
  BY NoUrlsGood
<1>3. GoodEnv(urls.env) /\ (~ urls.exists => urls.env = NoUrls.env)
  BY DEF ListInv, UrlInv
<1>4. NewURLs(k) = IF ~ urls.exists
                   THEN IF mem[k].deleting THEN NoUrls.env ELSE AddURLsConfigMap(NoUrls.env, c, new)
                   ELSE IF mem[k].deleting THEN DeleteURLsConfigMap(urls.env, c, new, TRUE)
                   ELSE AddURLsConfigMap(urls.env, c, new)
  BY DEF NewURLs
<1> HIDE DEF c, new
<1>5. /\ GoodEnv(AddURLsConfigMap(NoUrls.env, c, new))
      /\ GoodEnv(AddURLsConfigMap(urls.env, c, new))
      /\ KeepsOthers(urls.env, AddURLsConfigMap(urls.env, c, new), c)
  BY <1>1, <1>2, <1>3, AddOf
<1>6. /\ GoodEnv(DeleteURLsConfigMap(urls.env, c, new, TRUE))
      /\ KeepsOthers(urls.env, DeleteURLsConfigMap(urls.env, c, new, TRUE), c)
  BY <1>1, <1>3, DeleteOf
<1>7. GoodEnv(NewURLs(k)) /\ KeepsOthers(urls.env, NewURLs(k), c)
  BY <1>2, <1>3, <1>4, <1>5, <1>6
<1> QED
  BY <1>7 DEF c

LEMMA RestInit == NamespaceInit => RestInv
<1> SUFFICES ASSUME NamespaceInit PROVE RestInv
  OBVIOUS
<1>1. size \in [Resources -> Sizes] /\ resized \in [Resources -> BOOLEAN]
  BY NamespaceAssumption DEF NamespaceInit
<1>2. \A c \in Resources : \A x \in DOMAIN claims[c] : claims[c][x] \in {"none", "bound", "deleted"}
  BY DEF NamespaceInit
<1>3. ~ Idle.stale /\ \A k \in Workers : at[k] = Idle /\ mem[k] = NoMem
  BY DEF NamespaceInit, Idle
<1> QED
  BY <1>1, <1>2, <1>3 DEF RestInv

LEMMA RestStep ==
  ASSUME TypesInv, WorkInv, RestInv, [NamespaceNext]_vars
  PROVE  RestInv'
<1> DEFINE Placed(v)  == /\ at[v].pc = "idle" => at[v] = Idle /\ mem[v] = NoMem
                         /\ at[v].stale => at[v].pc \in DOMAIN Holds
           Claimed == \A c \in Resources : \A x \in DOMAIN claims[c] :
                        claims[c][x] \in {"none", "bound", "deleted"}
           Sized == size \in [Resources -> Sizes] /\ resized \in [Resources -> BOOLEAN]
<1>1. CASE UNCHANGED vars
  BY <1>1 DEF vars, userVars, podVars, RestInv
<1>2. \A k \in Workers : Placed(k)'
  <2>1. ASSUME NEW k \in Workers, Stopped(k) PROVE Placed(k)'
    <3>1. at'[k] = Idle /\ mem'[k] = NoMem /\ ~ Idle.stale
      BY <2>1 DEF Stopped, Idle
    <3> QED
      BY <3>1
  <2>2. ASSUME NEW v \in Workers, at'[v].pc = at[v].pc, mem'[v] = mem[v],
               at'[v] = at[v] \/ at[v].pc \in DOMAIN Holds
        PROVE  Placed(v)'
    <3>1. "idle" \notin DOMAIN Holds
      BY Records
    <3>2. Placed(v)
      BY DEF RestInv
    <3>3. CASE at'[v] = at[v]
      BY <2>2, <3>2, <3>3
    <3>4. CASE at[v].pc \in DOMAIN Holds
      BY <2>2, <3>1, <3>4
    <3> QED
      BY <2>2, <3>3, <3>4
  <2>3. ASSUME NEW k \in Workers, OthersStay(k), Placed(k)' PROVE \A v \in Workers : Placed(v)'
    BY <2>2, <2>3 DEF OthersStay
  <2>4. ASSUME NEW k \in Workers, Proceeds(k) PROVE \A v \in Workers : Placed(v)'
    <3>1. CASE Went(k)
      BY <2>3, <2>4, <3>1 DEF Proceeds, Went
    <3>2. CASE Stopped(k)
      BY <2>1, <2>3, <2>4, <3>2 DEF Proceeds
    <3> QED
      BY <2>4, <3>1, <3>2 DEF Proceeds
  <2>5. ASSUME NEW k \in Workers, Middle(k) \/ Fails(k) PROVE \A v \in Workers : Placed(v)'
    BY <2>4, <2>5, MiddleOf, FailsOf
  <2>6. ASSUME NEW k \in Workers, Take(k) PROVE \A v \in Workers : Placed(v)'
    <3>1. at'[k].pc # "idle" /\ ~ at'[k].stale /\ OthersStay(k)
      BY <2>6, TakeOf
    <3> QED
      BY <2>3, <3>1
  <2>7. ASSUME NEW k \in Workers, RemoveSplunkFinalizer(k) PROVE \A v \in Workers : Placed(v)'
    BY <2>1, <2>3, <2>7, RemoveOf
  <2>8. CASE Besides
    <3> SUFFICES ASSUME NEW v \in Workers PROVE Placed(v)'
      OBVIOUS
    <3>1. \/ Stopped(v)
          \/ at'[v].pc = at[v].pc /\ mem'[v] = mem[v] /\ (at'[v] = at[v] \/ at[v].pc \in DOMAIN Holds)
      BY <2>8, BesidesWorkers
    <3> QED
      BY <2>1, <2>2, <3>1
  <2>9. CASE UNCHANGED vars
    BY <2>9 DEF vars, RestInv
  <2> QED
    BY <2>5, <2>6, <2>7, <2>8, <2>9 DEF NamespaceNext, Reconcile, Middle, Besides
<1>3. Sized'
  <2>1. ASSUME NEW c \in Resources, EditResource(c) PROVE Sized'
    <3>1. PICK n \in IF c \in SearchHeadClusters THEN Sizes ELSE {size[c]} :
            /\ size' = [size EXCEPT ![c] = n]
            /\ resized' = [resized EXCEPT ![c] = resized[c] \/ n # size[c]]
      BY <2>1 DEF EditResource
    <3>2. size[c] \in Sizes /\ resized[c] \in BOOLEAN
      BY DEF RestInv
    <3>3. PICK b \in BOOLEAN : resized' = [resized EXCEPT ![c] = b]
      <4> DEFINE b == resized[c] \/ n # size[c]
      <4>1. b \in BOOLEAN
        OBVIOUS
      <4>2. resized' = [resized EXCEPT ![c] = b]
        BY <3>1
      <4> HIDE DEF b
      <4> QED
        BY <4>1, <4>2
    <3>4. n \in Sizes
      BY <3>1, <3>2
    <3> QED
      BY <3>1, <3>3, <3>4 DEF RestInv
  <2>2. ASSUME ~ \E c \in Resources : EditResource(c) PROVE UNCHANGED <<size, resized>>
    BY <2>2 DEF NamespaceNext, Reconcile, Take, OwnSecret, WaitForPods, NoClusterInfo, ReadURLs,
       WriteURLs, CreateURLs, ApplyConsole, OwnConsole, DisownSecret, DeleteSplunkPvc,
       DeleteClaims, RemoveSplunkFinalizer, Fails, DeleteResource, PodsUp, CollectSecret,
       CollectConsole, Crash, vars, userVars
  <2> QED
    BY <2>1, <2>2 DEF RestInv
<1>4. Claimed'
  <2>0. ASSUME claims' = claims PROVE Claimed'
    BY <2>0 DEF RestInv
  <2>1. ASSUME NEW k \in Workers, DeleteSplunkPvc(k) PROVE Claimed'
    <3> DEFINE c == at[k].resource
    <3>1. c \in Resources
      BY <2>1 DEF WorkInv, DeleteSplunkPvc, DeleteClaims
    <3>2. /\ \A d \in Resources : d # c => claims'[d] = claims[d]
          /\ DOMAIN claims'[c] = DOMAIN claims[c]
          /\ \A x \in DOMAIN claims[c] : claims'[c][x] \in {claims[c][x], "deleted"}
      BY <2>1, <3>1 DEF DeleteSplunkPvc, DeleteClaims, TypesInv
    <3>3. ASSUME NEW d \in Resources, NEW x \in DOMAIN claims'[d]
          PROVE  claims'[d][x] \in {"none", "bound", "deleted"}
      BY <3>2 DEF RestInv
    <3> QED
      BY <3>3
  <2>2. ASSUME NEW c \in Resources, DeleteResource(c) PROVE Claimed'
    <3>1. PICK f : /\ claims' = [claims EXCEPT ![c] = f]
                   /\ f = claims[c] \/ f \in [ToSet(Components(c)) -> {"none", "bound"}]
      BY <2>2 DEF DeleteResource
    <3>2. \A x \in DOMAIN f : f[x] \in {"none", "bound", "deleted"}
      BY <3>1 DEF RestInv
    <3>3. DOMAIN claims = Resources
      BY DEF TypesInv
    <3>4. ASSUME NEW d \in Resources, NEW x \in DOMAIN claims'[d]
          PROVE  claims'[d][x] \in {"none", "bound", "deleted"}
      BY <3>1, <3>2, <3>3 DEF RestInv
    <3> QED
      BY <3>4
  <2>3. ASSUME NEW c \in Resources, PodsUp(c) PROVE Claimed'
    <3>1. /\ \A d \in Resources : d # c => claims'[d] = claims[d]
          /\ DOMAIN claims'[c] = DOMAIN claims[c]
          /\ \A x \in DOMAIN claims[c] : claims'[c][x] \in {claims[c][x], "bound"}
      BY <2>3 DEF PodsUp, TypesInv
    <3>2. ASSUME NEW d \in Resources, NEW x \in DOMAIN claims'[d]
          PROVE  claims'[d][x] \in {"none", "bound", "deleted"}
      BY <3>1 DEF RestInv
    <3> QED
      BY <3>2
  <2>4. ASSUME /\ ~ \E k \in Workers : DeleteSplunkPvc(k)
               /\ ~ \E c \in Resources : DeleteResource(c) \/ PodsUp(c)
        PROVE  claims' = claims
    BY <2>4 DEF NamespaceNext, Reconcile, Take, OwnSecret, WaitForPods, NoClusterInfo, ReadURLs,
       WriteURLs, CreateURLs, ApplyConsole, OwnConsole, DisownSecret,
       RemoveSplunkFinalizer, Fails, EditResource, CollectSecret,
       CollectConsole, Crash, vars, podVars
  <2> QED
    BY <2>0, <2>1, <2>2, <2>3, <2>4
<1> QED
  BY <1>2, <1>3, <1>4 DEF RestInv

LEMMA ListInit == NamespaceInit => ListInv
<1> SUFFICES ASSUME NamespaceInit PROVE ListInv
  OBVIOUS
<1>1. urls.env = NoUrls.env /\ \A k \in Workers : mem[k].size = 0 /\ mem[k].env = NoUrls.env
  BY DEF NamespaceInit, NoMem
<1> QED
  BY <1>1, NoUrlsGood DEF ListInv

LEMMA ListStep ==
  ASSUME TypesInv, WorkInv, UrlInv, RestInv, ListInv, [NamespaceNext]_vars
  PROVE  ListInv'
<1> DEFINE Good(v) == mem[v].size \in Nat /\ GoodEnv(mem[v].env)
<1>1. CASE UNCHANGED vars
  BY <1>1 DEF vars, sharedVars, ListInv
<1>2. ASSUME NEW k \in Workers, Stopped(k) PROVE Good(k)'
  <2>1. mem'[k].size = 0 /\ mem'[k].env = NoUrls.env
    BY <1>2 DEF Stopped, NoMem
  <2> QED
    BY <2>1, NoUrlsGood
<1>3. ASSUME NEW k \in Workers, Proceeds(k), at[k].pc # "idle"
      PROVE  \A v \in Workers : Good(v)'
  <2>1. \A v \in Workers \ {k} : mem'[v] = mem[v]
    BY <1>3 DEF Proceeds, OthersStay
  <2>2. \A v \in Workers \ {k} : Good(v)'
    BY <2>1 DEF ListInv
  <2>3. ASSUME Went(k) PROVE Good(k)'
    <3>1. mem'[k].size = mem[k].size /\ mem'[k].env \in {mem[k].env, NoUrls.env, NewURLs(k)}
      BY <2>3 DEF Went, SameMem
    <3>2. GoodEnv(mem[k].env) /\ GoodEnv(NoUrls.env) /\ GoodEnv(NewURLs(k)) /\ mem[k].size \in Nat
      BY <1>3, NoUrlsGood, NewURLsOf DEF ListInv
    <3>3. GoodEnv(mem'[k].env)
      BY <3>1, <3>2
    <3> QED
      BY <3>1, <3>2, <3>3
  <2>4. Good(k)'
    BY <1>2, <1>3, <2>3 DEF Proceeds
  <2> QED
    BY <2>2, <2>4
<1>4. ASSUME NEW k \in Workers, OthersStay(k), Good(k)', urls' = urls PROVE ListInv'
  BY <1>4 DEF OthersStay, ListInv
<1>5. ASSUME NEW k \in Workers, Middle(k) PROVE ListInv'
  <2>1. at[k].pc # "idle" /\ Proceeds(k)
    BY <1>5, MiddleOf
  <2>2. \A v \in Workers : Good(v)'
    BY <1>3, <2>1
  <2>3. GoodEnv(urls'.env)
    <3>1. CASE WriteURLs(k) \/ CreateURLs(k)
      <4>1. urls' = urls \/ urls' = [exists |-> TRUE, env |-> NewURLs(k)]
        BY <3>1, WritesURLs
      <4>2. urls'.env = urls.env \/ urls'.env = NewURLs(k)
        BY <4>1
      <4> QED
        BY <2>1, <4>2, NewURLsOf DEF ListInv
    <3>2. CASE ~ WriteURLs(k) /\ ~ CreateURLs(k)
      <4>1. urls' = urls
        BY <1>5, <3>2 DEF Middle, OwnSecret, WaitForPods, NoClusterInfo, ReadURLs, ApplyConsole,
           OwnConsole, DisownSecret, DeleteSplunkPvc, DeleteClaims, sharedVars
      <4> QED
        BY <4>1 DEF ListInv
    <3> QED
      BY <3>1, <3>2
  <2> QED
    BY <2>2, <2>3 DEF ListInv
<1>6. ASSUME NEW k \in Workers, Fails(k) PROVE ListInv'
  <2>1. Proceeds(k) /\ at[k].pc # "idle" /\ urls' = urls
    BY <1>6, FailsOf DEF Fails, sharedVars
  <2>2. \A v \in Workers : Good(v)'
    BY <1>3, <2>1
  <2> QED
    BY <2>1, <2>2 DEF ListInv
<1>7. ASSUME NEW k \in Workers, Take(k) PROVE ListInv'
  <2>1. PICK c \in queue : /\ mem'[k].size = size[c] /\ mem'[k].env = mem[k].env
                           /\ OthersStay(k) /\ urls' = urls
    BY <1>7, TakeOf
  <2>2. size[c] \in Nat
    BY NamespaceAssumption DEF TypesInv, RestInv
  <2>3. GoodEnv(mem'[k].env)
    BY <2>1 DEF ListInv
  <2> QED
    BY <1>4, <2>1, <2>2, <2>3
<1>8. ASSUME NEW k \in Workers, RemoveSplunkFinalizer(k) PROVE ListInv'
  <2>1. Stopped(k) /\ OthersStay(k) /\ urls' = urls
    BY <1>8, RemoveOf DEF sharedVars
  <2> QED
    BY <1>2, <1>4, <2>1
<1>9. CASE Besides
  <2>1. urls' = urls
    BY <1>9 DEF Besides, EditResource, DeleteResource, PodsUp, CollectSecret, CollectConsole,
                Crash, sharedVars
  <2>2. ASSUME NEW v \in Workers PROVE Good(v)'
    <3>1. Stopped(v) \/ mem'[v] = mem[v]
      BY <1>9, BesidesWorkers
    <3>2. CASE mem'[v] = mem[v]
      BY <3>2 DEF ListInv
    <3> QED
      BY <1>2, <3>1, <3>2
  <2> QED
    BY <2>1, <2>2 DEF ListInv
<1> QED
  BY <1>1, <1>5, <1>6, <1>7, <1>8, <1>9 DEF NamespaceNext, Reconcile, Middle, Besides

-----------------------------------------------------------------------------
(***************************************************************************)
(* Theorems                                                                *)
(***************************************************************************)

NamespaceInv == TypesInv /\ WorkInv /\ ClaimInv /\ UrlInv /\ RestInv /\ ListInv

\* For any resources and replicas, whatever fails and whatever the user does.
THEOREM NamespaceInvariant == NamespaceSpec => []NamespaceInv
<1>1. NamespaceInit => NamespaceInv
  BY TypesInit, WorkInit, ClaimInit, UrlInit, RestInit, ListInit DEF NamespaceInv
<1>2. NamespaceInv /\ [NamespaceNext]_vars => NamespaceInv'
  BY TypesStep, WorkStep, ClaimStep, UrlStep, RestStep, ListStep DEF NamespaceInv
<1> QED
  BY <1>1, <1>2, PTL DEF NamespaceSpec

\* A resource that was ready before its deletion leaves no claims behind when it goes,
\* although edits, failures and restarts of the operator interrupt its deletion.
THEOREM ClaimsDeletedCorrect == NamespaceSpec => []ClaimsDeleted
<1>1. NamespaceInv => ClaimsDeleted
  BY DEF NamespaceInv, ClaimInv, ClaimsDeleted, Range
<1> QED
  BY <1>1, NamespaceInvariant, PTL

\* The part of OthersKept about references: no worker, and no garbage collection, takes a
\* resource that stays from the owners of the secret or of the console.
OwnersKept ==
  [][\A c \in Resources :
       life[c] = "live"
       => /\ c \in secret.owners => c \in secret'.owners
          /\ c \in console.owners => c \in console'.owners]_vars

\* Updates are refused when the object changed since it was read, and only a resource whose
\* deletion was requested gives up its references.
THEOREM OwnersKeptCorrect == NamespaceSpec => OwnersKept
<1> DEFINE Kept == \A c \in Resources :
                     life[c] = "live"
                     => /\ c \in secret.owners => c \in secret'.owners
                        /\ c \in console.owners => c \in console'.owners
<1>1. ASSUME NamespaceInv, [NamespaceNext]_vars PROVE [Kept]_vars
  <2> SUFFICES ASSUME NamespaceNext, NEW c \in Resources, life[c] = "live"
               PROVE  /\ c \in secret.owners => c \in secret'.owners
                      /\ c \in console.owners => c \in console'.owners
    BY <1>1
  <2>0. TypesInv /\ WorkInv
    BY <1>1 DEF NamespaceInv
  <2>1. CASE UNCHANGED <<secret, console>>
    BY <2>1
  <2>2. ASSUME NEW k \in Workers, Take(k) \/ OwnSecret(k) PROVE c \in secret.owners => c \in secret'.owners
    <3>0. secret \in [exists : BOOLEAN, owners : SUBSET Resources]
      BY <2>0 DEF TypesInv
    <3> QED
      BY <2>2, <3>0 DEF Take, OwnSecret
  <2>3. ASSUME NEW k \in Workers, DisownSecret(k) PROVE c \in secret.owners => c \in secret'.owners
    <3>0. secret \in [exists : BOOLEAN, owners : SUBSET Resources]
      BY <2>0 DEF TypesInv
    <3>1. at[k].resource # c
      BY <2>0, <2>3 DEF WorkInv, DisownSecret
    <3> QED
      BY <2>3, <3>0, <3>1 DEF DisownSecret
  <2>4. CASE CollectSecret
    BY <2>4 DEF CollectSecret
  <2>5. ASSUME NEW k \in Workers, ApplyConsole(k) \/ OwnConsole(k) \/ PutURLs(k)
        PROVE  c \in console.owners => c \in console'.owners
    <3>0. console \in [exists : BOOLEAN, owners : SUBSET Resources, current : BOOLEAN]
      BY <2>0 DEF TypesInv
    <3>1. CASE ApplyConsole(k)
      BY <3>0, <3>1 DEF ApplyConsole
    <3>2. CASE OwnConsole(k)
      BY <3>0, <3>2 DEF OwnConsole
    <3>3. CASE PutURLs(k)
      BY <3>0, <3>3 DEF PutURLs
    <3> QED
      BY <2>5, <3>1, <3>2, <3>3
  <2>6. CASE CollectConsole
    BY <2>6 DEF CollectConsole
  <2>7. ASSUME NEW k \in Workers,
               \/ WaitForPods(k) \/ NoClusterInfo(k) \/ ReadURLs(k) \/ Fails(k)
               \/ DeleteSplunkPvc(k) \/ RemoveSplunkFinalizer(k)
        PROVE  UNCHANGED <<secret, console>>
    BY <2>7 DEF WaitForPods, NoClusterInfo, ReadURLs, Fails, DeleteSplunkPvc, DeleteClaims,
                RemoveSplunkFinalizer, sharedVars
  <2>8. ASSUME NEW d \in Resources, EditResource(d) \/ DeleteResource(d) \/ PodsUp(d) \/ Crash
        PROVE  UNCHANGED <<secret, console>>
    BY <2>8 DEF EditResource, DeleteResource, PodsUp, Crash, sharedVars
  <2>9. ASSUME NEW k \in Workers, Take(k) \/ OwnSecret(k) \/ DisownSecret(k) PROVE console' = console
    BY <2>9 DEF Take, OwnSecret, DisownSecret
  <2>10. ASSUME NEW k \in Workers, ApplyConsole(k) \/ OwnConsole(k) PROVE secret' = secret
    BY <2>10 DEF ApplyConsole, OwnConsole
  <2>11. ASSUME NEW k \in Workers, WriteURLs(k) \/ CreateURLs(k)
         PROVE  secret' = secret /\ (PutURLs(k) \/ console' = console)
    BY <2>11 DEF WriteURLs, CreateURLs, PutURLs, sharedVars
  <2>12. CASE CollectSecret \/ CollectConsole \/ Crash
    <3>1. CollectSecret => console' = console
      BY DEF CollectSecret
    <3>2. CollectConsole => secret' = secret
      BY DEF CollectConsole
    <3>3. Crash => UNCHANGED <<secret, console>>
      BY DEF Crash, sharedVars
    <3> QED
      BY <2>4, <2>6, <2>12, <3>1, <3>2, <3>3
  <2>13. ASSUME NEW k \in Workers, Reconcile(k) \/ Fails(k)
         PROVE  /\ c \in secret.owners => c \in secret'.owners
                /\ c \in console.owners => c \in console'.owners
    BY <2>2, <2>3, <2>5, <2>7, <2>9, <2>10, <2>11, <2>13 DEF Reconcile
  <2> QED
    BY <2>8, <2>12, <2>13 DEF NamespaceNext
<1> QED
  BY <1>1, NamespaceInvariant, PTL DEF NamespaceSpec, OwnersKept

\* No worker overwrites the URLs that another has just written: what replaces the ConfigMap
\* is always made from what is in it.
UrlsMerged ==
  [][urls' # urls
     => \E k \in Workers : /\ at[k].pc \in {"write", "create"}
                           /\ urls' = [exists |-> TRUE, env |-> NewURLs(k)]]_vars

\* A ConfigMap that changed between Get and Update refuses the Update, and CreateResource
\* leaves one that exists as it is.
THEOREM UrlsMergedCorrect == NamespaceSpec => UrlsMerged
<1> DEFINE Merged == urls' # urls
                     => \E k \in Workers : /\ at[k].pc \in {"write", "create"}
                                           /\ urls' = [exists |-> TRUE, env |-> NewURLs(k)]
<1>1. ASSUME NamespaceInv, [NamespaceNext]_vars PROVE [Merged]_vars
  BY <1>1, UrlsKept, WritesURLs DEF NamespaceInv
<1> QED
  BY <1>1, NamespaceInvariant, PTL DEF NamespaceSpec, UrlsMerged

\* What is stored and remembered is what the code means to store: no URL is listed twice, a
\* worker at rest remembers nothing, only what was read to be written goes stale.
THEOREM NamespaceTypesCorrect == NamespaceSpec => []NamespaceTypeOK
<1>1. ASSUME NamespaceInv PROVE NamespaceTypeOK
  <2> USE <1>1 DEF NamespaceInv
  <2>1. /\ life \in [Resources -> {"live", "deleting", "gone"}]
        /\ pods \in [Resources -> {"new", "down", "up", "late"}] /\ fresh \in [Resources -> BOOLEAN]
        /\ secret.exists \in BOOLEAN /\ secret.owners \subseteq Resources
        /\ console.exists \in BOOLEAN /\ console.owners \subseteq Resources
        /\ queue \subseteq Resources
    BY DEF TypesInv
  <2>2. size \in [Resources -> Sizes] /\ resized \in [Resources -> BOOLEAN]
    BY DEF RestInv
  <2>3. \A c \in Resources : /\ DOMAIN claims[c] = ToSet(Components(c))
                             /\ Range(claims[c]) \subseteq {"none", "bound", "deleted"}
    BY DEF TypesInv, RestInv, Range
  <2>4. DOMAIN urls.env = EnvNames /\ \A e \in EnvNames : IsInjective(urls.env[e])
    BY DEF ListInv, GoodEnv, GoodList
  <2>5. ASSUME NEW k \in Workers
        PROVE  /\ at[k].pc \in Places
               /\ at[k].pc = "idle" <=> at[k] = Idle
               /\ at[k].pc = "idle" => mem[k] = NoMem
               /\ at[k].stale => at[k].pc \in DOMAIN Holds
    <3>1. at[k].pc \in Places
      BY DEF TypesInv, Positions
    <3> QED
      BY <3>1, Records DEF RestInv
  <2> QED
    BY <2>1, <2>2, <2>3, <2>4, <2>5 DEF NamespaceTypeOK
<1> QED
  BY <1>1, NamespaceInvariant, PTL

\* What one worker writes never undoes what another has written: not the owner references of
\* a resource that stays, nor its URLs, whoever merges, scales down or is deleted meanwhile.
THEOREM OthersKeptCorrect == NamespaceSpec => OthersKept
<1> DEFINE Owners == \A c \in Resources :
                       life[c] = "live"
                       => /\ c \in secret.owners => c \in secret'.owners
                          /\ c \in console.owners => c \in console'.owners
           Kept == \A c \in Resources :
                     life[c] = "live"
                     => /\ c \in secret.owners => c \in secret'.owners
                        /\ c \in console.owners => c \in console'.owners
                        /\ urls' # urls /\ at[Worker(c)].resource # c => Listed(c) \subseteq Listed(c)'
<1>1. ASSUME NamespaceInv, [NamespaceNext]_vars, NEW c \in Resources,
             urls' # urls, at[Worker(c)].resource # c
      PROVE  Listed(c) \subseteq Listed(c)'
  <2>1. NamespaceNext
    BY <1>1 DEF vars, sharedVars
  <2>2. PICK k \in Workers : /\ at[k].pc \in {"write", "create"}
                             /\ urls' = [exists |-> TRUE, env |-> NewURLs(k)]
    BY <1>1, <2>1, UrlsKept, WritesURLs DEF NamespaceInv
  <2>3. at[k].pc # "idle" /\ urls'.env = NewURLs(k)
    BY <2>2
  <2>4. at[k].resource # c
    BY <1>1, <2>3 DEF NamespaceInv, WorkInv
  <2>5. KeepsOthers(urls.env, urls'.env, at[k].resource)
    BY <1>1, <2>3, NewURLsOf DEF NamespaceInv
  <2>6. c # "site0"
    BY NamespaceAssumption
  <2> QED
    BY <2>4, <2>5, <2>6 DEF Listed, KeepsOthers
<1>2. NamespaceInv /\ [NamespaceNext]_vars /\ [Owners]_vars => [Kept]_vars
  BY <1>1 DEF vars, sharedVars
<1>3. NamespaceSpec => [][Owners]_vars
  BY OwnersKeptCorrect DEF OwnersKept
<1> QED
  BY <1>2, <1>3, NamespaceInvariant, PTL DEF NamespaceSpec, OthersKept
=============================================================================
