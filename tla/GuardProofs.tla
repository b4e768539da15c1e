----------------------------- MODULE GuardProofs -----------------------------
(***************************************************************************)
(* Proofs about a guard and the audit it makes.                            *)
(*                                                                         *)
(* The source plan, the execution graph and the audit (SourceAudit): for   *)
(* any package, limits and surroundings, what a scan says it covered it    *)
(* did cover, and no leniency of the auditor clears what was found.        *)
(*                                                                         *)
(* The pipeline (GuardPipeline): what holds of every number of guards that *)
(* share the tarball cache, whatever requests, configurations and findings.*)
(***************************************************************************)
EXTENDS GuardPipeline, SourceAudit, FoldTheorems

-----------------------------------------------------------------------------
(* The inventory's order.                                                    *)

\* Sorting files keeps just the ones of the inventory.
LEMMA InOrderIs ==
    ASSUME NEW S, Order \in Seq(STRING)
    PROVE  InOrder(S) \in Seq(Names) /\ ToSet(InOrder(S)) = S \cap Names
  <1> DEFINE N == Len(Order)
             V == Seq(Names)
             After(q, i) == IF Order[i] \in S THEN Append(q, Order[i]) ELSE q
             G == [i \in 1 .. N |-> [q \in V |-> After(q, i)]]
             E(f) == f = [i \in 0 .. N |-> IF i = 0 THEN << >>
                          ELSE IF Order[i] \in S THEN Append(f[i - 1], Order[i]) ELSE f[i - 1]]
  <1>1. N \in Nat /\ \A i \in 1 .. N : Order[i] \in Names BY DEF Names, ToSet
  <1>2. \A i \in 1 .. N, q \in V : After(q, i) \in V BY <1>1
  <1>3. << >> \in V OBVIOUS
  <1>4. PICK f \in [0 .. N -> V] : Computes(f, << >>, G, N)
    <2>1. G \in StepFunctions(N, V)
      <3> HIDE DEF After, N, V
      <3> QED BY <1>2 DEF StepFunctions
    <2> HIDE DEF G, N, V
    <2> QED BY <1>1, <1>3, <2>1, Recursion
  <1>5. ASSUME NEW i \in 1 .. N PROVE f[i] = After(f[i - 1], i)
    <2>1. f[i - 1] \in V BY <1>1
    <2>2. f[i] = G[i][f[i - 1]] BY <1>4 DEF Computes
    <2>3. G[i] = [q \in V |-> After(q, i)] OBVIOUS
    <2> HIDE DEF G, V, After
    <2> QED BY <2>1, <2>2, <2>3
  <1>6. E(f)
    <2>1. f[0] = << >> BY <1>4 DEF Computes
    <2>2. ASSUME NEW i \in 0 .. N PROVE f[i] = IF i = 0 THEN << >> ELSE After(f[i - 1], i)
      <3>1. CASE i = 0 BY <2>1, <3>1
      <3>2. CASE i # 0
        <4>1. i \in 1 .. N BY <3>2, <1>1
        <4> HIDE DEF After, N, V, G
        <4> QED BY <4>1, <1>5, <3>2
      <3> QED BY <3>1, <3>2
    <2>3. f = [i \in 0 .. N |-> f[i]] OBVIOUS
    <2> HIDE DEF G, V, N
    <2> QED BY <2>2, <2>3
  <1>7. E(CHOOSE g : E(g))
    <2> HIDE DEF E
    <2> QED BY <1>6, Zenon
  <1> DEFINE g == CHOOSE g : E(g)
  <1>8. InOrder(S) = g[N] BY DEF InOrder
  <1>9. g[0] = << >> /\ \A i \in 1 .. N : g[i] = After(g[i - 1], i)
    <2>1. E(g) BY <1>7
    <2>2. g = [i \in 0 .. N |-> IF i = 0 THEN << >> ELSE After(g[i - 1], i)] BY <2>1
    <2> HIDE DEF g, G, V, N, After, E
    <2> QED BY <2>2, <1>1
  <1> HIDE DEF g, E, G
  <1> DEFINE T == {k \in Nat : k <= N => /\ g[k] \in V
                                         /\ ToSet(g[k]) = S \cap {Order[i] : i \in 1 .. k}}
  <1>10. 0 \in T
    <2>1. ToSet(<< >>) = {} BY DEF ToSet
    <2>2. g[0] \in V /\ ToSet(g[0]) = S \cap {Order[i] : i \in 1 .. 0} BY <1>9, <2>1
    <2> QED BY <2>2
  <1>11. ASSUME NEW k \in Nat, k \in T PROVE k + 1 \in T
    <2> SUFFICES ASSUME k + 1 <= N
                 PROVE  g[k + 1] \in V /\ ToSet(g[k + 1]) = S \cap {Order[i] : i \in 1 .. k + 1}
      OBVIOUS
    <2>1. g[k] \in V /\ ToSet(g[k]) = S \cap {Order[i] : i \in 1 .. k} BY <1>11
    <2>2. g[k + 1] = After(g[k], k + 1) BY <1>9
    <2>3. {Order[i] : i \in 1 .. k + 1} = {Order[i] : i \in 1 .. k} \cup {Order[k + 1]}
      <3>1. \A i : i \in 1 .. k + 1 <=> i \in 1 .. k \/ i = k + 1 OBVIOUS
      <3> HIDE DEF T, N, After
      <3> QED BY <3>1
    <2>4. \A q \in Seq(Names), x \in Names : ToSet(Append(q, x)) = ToSet(q) \cup {x}
      <3> HIDE DEF T, N, After
      <3> QED BY ToSetAppend
    <2>5. CASE Order[k + 1] \in S BY <1>1, <2>1, <2>2, <2>3, <2>4, <2>5
    <2>6. CASE Order[k + 1] \notin S BY <1>1, <2>1, <2>2, <2>3, <2>6
    <2> QED BY <2>5, <2>6
  <1>12. Nat \subseteq T
    <2> HIDE DEF T
    <2> QED BY <1>10, <1>11, Counting
  <1>13. N \in T BY <1>1, <1>12
  <1>14. Names = {Order[i] : i \in 1 .. N} BY DEF Names, ToSet
  <1> QED BY <1>8, <1>13, <1>14, <1>1

LEMMA NamesAreFinite ==
    ASSUME Order \in Seq(STRING) PROVE IsFiniteSet(Names) /\ Cardinality(Names) <= Len(Order)
  <1> DEFINE f == [i \in 1 .. Len(Order) |-> Order[i]]
  <1>1. Len(Order) \in Nat /\ DOMAIN Order = 1 .. Len(Order) OBVIOUS
  <1>2. f \in Surjection(1 .. Len(Order), Names) BY <1>1 DEF Surjection, Names, ToSet
  <1>3. IsFiniteSet(1 .. Len(Order)) /\ Cardinality(1 .. Len(Order)) = Len(Order) BY <1>1, FS_Interval
  <1> HIDE DEF f
  <1> QED BY <1>2, <1>3, FS_Surjection

\* Of two numbers, and of a set of them.
LEMMA AtLeastZero == \A a \in Int : Max({0, a}) \in Nat
  <1> TAKE a \in Int
  <1>1. \E x \in {0, a} : \A y \in {0, a} : x >= y OBVIOUS
  <1>2. Max({0, a}) \in {0, a} /\ \A y \in {0, a} : Max({0, a}) >= y BY <1>1 DEF Max
  <1> QED BY <1>2

LEMMA AtMost ==
    \A a, b \in Nat : Min({a, b}) \in Nat /\ Min({a, b}) <= a /\ Min({a, b}) <= b
  <1> TAKE a, b \in Nat
  <1>1. \E x \in {a, b} : \A y \in {a, b} : x <= y OBVIOUS
  <1>2. Min({a, b}) \in {a, b} /\ \A y \in {a, b} : Min({a, b}) <= y BY <1>1 DEF Min
  <1> QED BY <1>2

LEMMA MinIs ==
    ASSUME NEW S \in SUBSET Nat, S # {} PROVE Min(S) \in S /\ \A y \in S : Min(S) <= y
  BY Smallest DEF Min

-----------------------------------------------------------------------------
(* The plan.                                                                 *)

PlanGaps == {"work limit", "unresolved"}
PlanType == [required : Seq(Names), install : SUBSET Names, gaps : SUBSET PlanGaps, work : Nat]
RequiredBy(p) == ToSet(p.required)

\* From p to q the plan grew, in place.
Extends(p, q) ==
    /\ p.install \subseteq q.install /\ p.gaps \subseteq q.gaps
    /\ Len(p.required) <= Len(q.required)
    /\ \A n \in 1 .. Len(p.required) : q.required[n] = p.required[n]

\* It grew by nothing but the given files, and by all of them if it has no gap.
Grows(p, q, fs, install) ==
    /\ Extends(p, q)
    /\ RequiredBy(q) \subseteq RequiredBy(p) \cup fs
    /\ q.install \subseteq p.install \cup fs
    /\ ~install => q.install = p.install
    /\ q.gaps = {} => fs \subseteq RequiredBy(q) /\ (install => fs \subseteq q.install)
    /\ p.install \subseteq RequiredBy(p) => q.install \subseteq RequiredBy(q)

LEMMA PackageFits ==
    ASSUME package \in Packages
    PROVE  /\ Order \in Seq(STRING) /\ Marker \in Nat /\ WellFormed(package)
           /\ Inventory \subseteq package.files /\ package.files \subseteq Names
  BY PackagesAssumption DEF WellFormed, Inventory

LEMMA RequireGrows ==
    ASSUME NEW p \in PlanType, NEW fs \in SUBSET Names, NEW install \in BOOLEAN,
           Order \in Seq(STRING)
    PROVE  /\ Require(p, fs, install) \in PlanType
           /\ Require(p, fs, install).gaps = p.gaps
           /\ Require(p, fs, install).work = p.work
           /\ Grows(p, Require(p, fs, install), fs, install)
           /\ fs \subseteq RequiredBy(Require(p, fs, install))
           /\ install => fs \subseteq Require(p, fs, install).install
  <1> DEFINE new == InOrder(fs \ ToSet(p.required))
             q == Require(p, fs, install)
  <1>1. new \in Seq(Names) /\ ToSet(new) = fs \ RequiredBy(p) BY InOrderIs DEF RequiredBy
  <1>2. p.required \in Seq(Names) /\ p.install \in SUBSET Names BY DEF PlanType
  <1>a. q = [p EXCEPT !.required = p.required \o new,
                      !.install = IF install THEN p.install \cup fs ELSE p.install]
    BY DEF Require
  <1>b. p = [required |-> p.required, install |-> p.install, gaps |-> p.gaps, work |-> p.work]
    BY DEF PlanType
  <1> HIDE DEF new, q
  <1>3. /\ q.required = p.required \o new
        /\ q.install = IF install THEN p.install \cup fs ELSE p.install
        /\ q.gaps = p.gaps /\ q.work = p.work
        /\ q = [required |-> q.required, install |-> q.install, gaps |-> q.gaps, work |-> q.work]
    BY <1>a, <1>b
  <1> DEFINE r == p.required \o new
  <1>4. /\ r \in Seq(Names) /\ Len(r) = Len(p.required) + Len(new)
        /\ \A n \in 1 .. Len(p.required) : r[n] = p.required[n]
        /\ \A n \in 1 .. Len(new) : r[Len(p.required) + n] = new[n]
    BY <1>1, <1>2, ConcatProperties
  <1>5. ToSet(r) = RequiredBy(p) \cup ToSet(new) BY <1>1, <1>2, ToSetConcat DEF RequiredBy
  <1> HIDE DEF r
  <1>6. q \in PlanType BY <1>2, <1>3, <1>4 DEF PlanType, r
  <1>7. RequiredBy(q) = RequiredBy(p) \cup fs BY <1>1, <1>3, <1>5 DEF RequiredBy, r
  <1>8. Len(p.required) \in Nat /\ Len(new) \in Nat BY <1>1, <1>2
  <1>9. /\ Len(p.required) <= Len(q.required)
        /\ \A n \in 1 .. Len(p.required) : q.required[n] = p.required[n]
    BY <1>3, <1>4, <1>8 DEF r
  <1>10. Grows(p, q, fs, install) BY <1>3, <1>7, <1>9 DEF Grows, Extends
  <1> QED BY <1>3, <1>6, <1>7, <1>10 DEF q

\* One specifier: its files of the inventory join the plan, or a gap is left.
LEMMA ResolveGrows ==
    ASSUME package \in Packages, NEW p \in PlanType, NEW link \in LinkType(package.files),
           NEW install \in BOOLEAN
    PROVE  /\ Resolve(p, link, install) \in PlanType
           /\ Grows(p, Resolve(p, link, install), link.to \cap Inventory, install)
           /\ Resolve(p, link, install).gaps = {} => link.to \cap Inventory # {}
  <1> DEFINE left == package.maxWork - p.work - 1
             seen == IF link.glob
                     THEN {Listed[n] : n \in 1 .. Min({Len(Listed), Max({0, left})})}
                     ELSE Inventory
             hits == link.to \cap seen
             spent == IF link.glob THEN Min({Cardinality(Inventory), Max({0, left}) + 1}) ELSE 0
             worked == [p EXCEPT !.work = @ + 1 + spent]
             noted == Require(worked, hits, install)
             missing == (IF hits = {} THEN {"unresolved"} ELSE {})
                           \cup (IF seen = Inventory THEN {} ELSE {"work limit"})
             q == Resolve(p, link, install)
  <1>1. /\ Order \in Seq(STRING) /\ WellFormed(package)
        /\ Inventory \subseteq package.files /\ package.files \subseteq Names
    BY PackageFits
  <1>2. p.work \in Nat /\ left \in Int BY <1>1 DEF WellFormed, PlanType
  <1>3. Listed \in Seq(Names) /\ ToSet(Listed) = Inventory BY <1>1, InOrderIs DEF Listed
  <1>4. seen \subseteq Inventory
    <2>1. Len(Listed) \in Nat /\ Max({0, left}) \in Nat
      <3> HIDE DEF left
      <3> QED BY <1>2, <1>3, AtLeastZero
    <2>2. Min({Len(Listed), Max({0, left})}) <= Len(Listed)
          /\ Min({Len(Listed), Max({0, left})}) \in Nat
      <3> DEFINE most == Max({0, left})
      <3>1. most \in Nat BY <2>1
      <3> HIDE DEF most
      <3>2. Min({Len(Listed), most}) <= Len(Listed) /\ Min({Len(Listed), most}) \in Nat
        BY <2>1, <3>1, AtMost
      <3> QED BY <3>2 DEF most
    <2>3. \A n \in 1 .. Len(Listed) : Listed[n] \in Inventory BY <1>3 DEF ToSet
    <2> HIDE DEF left
    <2> QED BY <2>1, <2>2, <2>3
  <1>5. spent \in Nat
    <2>1. Cardinality(Inventory) \in Nat
      <3>1. IsFiniteSet(Names) BY <1>1, NamesAreFinite
      <3> QED BY <1>1, <3>1, FS_Subset, FS_CardinalityType
    <2>2. Max({0, left}) \in Nat
      <3> HIDE DEF left
      <3> QED BY <1>2, AtLeastZero
    <2>3. Min({Cardinality(Inventory), Max({0, left}) + 1}) \in Nat
      <3> DEFINE most == Max({0, left}) + 1
      <3>1. most \in Nat BY <2>2
      <3> HIDE DEF most
      <3>2. Min({Cardinality(Inventory), most}) \in Nat BY <2>1, <3>1, AtMost
      <3> QED BY <3>2 DEF most
    <2> QED BY <2>3
  <1>6. worked \in PlanType /\ worked.required = p.required /\ worked.install = p.install
        /\ worked.gaps = p.gaps
    <2> HIDE DEF spent
    <2>1. p.work + 1 + spent \in Nat BY <1>2, <1>5
    <2> QED BY <2>1 DEF PlanType
  <1>7. link.to \subseteq package.files BY DEF LinkType
  <1>8. q = IF left < 0 THEN [p EXCEPT !.work = @ + 1, !.gaps = @ \cup {"work limit"}]
            ELSE [noted EXCEPT !.gaps = @ \cup (IF hits = {} THEN {"unresolved"} ELSE {})
                                     \cup (IF seen = Inventory THEN {} ELSE {"work limit"})]
    BY DEF Resolve
  <1>9. CASE left < 0
    <2>1. q = [p EXCEPT !.work = @ + 1, !.gaps = @ \cup {"work limit"}] BY <1>8, <1>9
    <2> HIDE DEF q, left
    <2>a. p = [required |-> p.required, install |-> p.install, gaps |-> p.gaps, work |-> p.work]
          /\ p.required \in Seq(Names) /\ p.install \in SUBSET Names /\ p.gaps \in SUBSET PlanGaps
      BY DEF PlanType
    <2>b. q = [required |-> p.required, install |-> p.install, gaps |-> p.gaps \cup {"work limit"},
               work |-> p.work + 1]
      BY <2>1, <2>a
    <2>c. /\ p.gaps \cup {"work limit"} \in SUBSET PlanGaps
          /\ p.work + 1 \in Nat
      <3>1. p.gaps \cup {"work limit"} \in SUBSET PlanGaps BY <2>a DEF PlanGaps
      <3>2. p.work + 1 \in Nat BY <1>2
      <3> QED BY <3>1, <3>2
    <2>d. q.required = p.required /\ q.install = p.install /\ q.gaps = p.gaps \cup {"work limit"}
      BY <2>b
    <2>e. q \in PlanType
      <3> HIDE DEF PlanGaps
      <3> QED BY <2>a, <2>b, <2>c DEF PlanType
    <2>2. q.gaps # {} BY <2>d
    <2>3. Len(p.required) \in Nat BY DEF PlanType
    <2>4. Grows(p, q, link.to \cap Inventory, install)
      <3>1. Len(p.required) <= Len(q.required) /\ \A n \in 1 .. Len(p.required) : q.required[n] = p.required[n]
        <4>1. q.required = p.required BY <2>d
        <4>2. Len(p.required) <= Len(p.required) BY <2>3
        <4> QED BY <4>1, <4>2
      <3>2. p.gaps \subseteq q.gaps /\ RequiredBy(q) = RequiredBy(p) BY <2>d DEF RequiredBy
      <3> QED BY <2>d, <2>2, <3>1, <3>2 DEF Grows, Extends
    <2> QED BY <2>e, <2>2, <2>4 DEF q
  <1>10. CASE ~(left < 0)
    <2>1. hits \subseteq Names BY <1>1, <1>7
    <2> HIDE DEF seen, worked
    <2>2. /\ noted \in PlanType /\ noted.gaps = worked.gaps
          /\ Grows(worked, noted, hits, install)
          /\ hits \subseteq RequiredBy(noted) /\ (install => hits \subseteq noted.install)
      <3> HIDE DEF hits
      <3> QED BY <1>1, <1>6, <2>1, RequireGrows
    <2>3. q = [noted EXCEPT !.gaps = @ \cup (IF hits = {} THEN {"unresolved"} ELSE {})
                                     \cup (IF seen = Inventory THEN {} ELSE {"work limit"})]
      BY <1>8, <1>10
    <2> HIDE DEF q, noted, hits, left
    <2>4. /\ q \in PlanType /\ q.required = noted.required /\ q.install = noted.install
          /\ q.gaps = noted.gaps \cup missing
      BY <2>2, <2>3 DEF PlanType, PlanGaps
    <2>5. q.gaps = {} => hits # {} /\ hits = link.to \cap Inventory BY <2>4 DEF hits
    <2>6. hits \subseteq link.to \cap Inventory BY <1>4 DEF hits
    <2>7. Grows(p, q, link.to \cap Inventory, install)
      BY <1>6, <2>2, <2>4, <2>5, <2>6 DEF Grows, Extends, RequiredBy
    <2> QED BY <2>4, <2>5, <2>7 DEF q
  <1> QED BY <1>9, <1>10

LEMMA ExtendsKeeps ==
    ASSUME NEW p \in PlanType, NEW q \in PlanType, Extends(p, q)
    PROVE  RequiredBy(p) \subseteq RequiredBy(q)
  <1>1. /\ p.required \in Seq(Names) /\ q.required \in Seq(Names)
        /\ Len(p.required) <= Len(q.required) /\ Len(p.required) \in Nat /\ Len(q.required) \in Nat
        /\ DOMAIN p.required = 1 .. Len(p.required) /\ DOMAIN q.required = 1 .. Len(q.required)
        /\ \A n \in 1 .. Len(p.required) : q.required[n] = p.required[n]
    BY DEF Extends, PlanType
  <1>2. \A n \in DOMAIN p.required : n \in DOMAIN q.required /\ q.required[n] = p.required[n] BY <1>1
  <1> QED BY <1>2 DEF RequiredBy, ToSet

LEMMA ExtendsOn ==
    ASSUME NEW p \in PlanType, NEW q \in PlanType, NEW r \in PlanType, Extends(p, q), Extends(q, r)
    PROVE  Extends(p, r)
  <1>1. Len(p.required) \in Nat /\ Len(q.required) \in Nat /\ Len(r.required) \in Nat BY DEF PlanType
  <1>2. Len(p.required) <= Len(q.required) /\ Len(q.required) <= Len(r.required) BY DEF Extends
  <1>3. ASSUME NEW n \in 1 .. Len(p.required) PROVE r.required[n] = p.required[n]
    <2>1. n \in 1 .. Len(q.required) BY <1>1, <1>2
    <2> QED BY <2>1 DEF Extends
  <1>4. p.install \subseteq r.install /\ p.gaps \subseteq r.gaps BY DEF Extends
  <1>5. Len(p.required) <= Len(r.required) BY <1>1, <1>2
  <1> QED BY <1>3, <1>4, <1>5 DEF Extends

LEMMA GrowsOn ==
    ASSUME NEW p \in PlanType, NEW q \in PlanType, NEW r \in PlanType, NEW A, NEW B,
           NEW install \in BOOLEAN, Grows(p, q, A, install), Grows(q, r, B, install)
    PROVE  Grows(p, r, A \cup B, install)
  <1>1. Extends(p, q) /\ Extends(q, r) BY DEF Grows
  <1>2. Extends(p, r) BY <1>1, ExtendsOn
  <1>3. RequiredBy(p) \subseteq RequiredBy(q) /\ RequiredBy(q) \subseteq RequiredBy(r)
    BY <1>1, ExtendsKeeps
  <1>5. RequiredBy(r) \subseteq RequiredBy(p) \cup (A \cup B) BY DEF Grows
  <1>6. r.install \subseteq p.install \cup (A \cup B) BY DEF Grows
  <1>7. ~install => r.install = p.install BY DEF Grows
  <1>8. r.gaps = {} => A \cup B \subseteq RequiredBy(r) /\ (install => A \cup B \subseteq r.install)
    <2> SUFFICES ASSUME r.gaps = {}
                 PROVE  A \cup B \subseteq RequiredBy(r) /\ (install => A \cup B \subseteq r.install)
      OBVIOUS
    <2>1. q.gaps = {} BY <1>1 DEF Extends
    <2>2. install => q.install \subseteq r.install BY <1>1 DEF Extends
    <2> QED BY <2>1, <2>2, <1>3 DEF Grows
  <1>9. p.install \subseteq RequiredBy(p) => r.install \subseteq RequiredBy(r) BY DEF Grows
  <1> QED BY <1>2, <1>5, <1>6, <1>7, <1>8, <1>9 DEF Grows

\* A list of specifiers: the files of each of them.
LEMMA ResolveAllGrows ==
    ASSUME package \in Packages, NEW p \in PlanType, NEW links \in Seq(LinkType(package.files)),
           NEW install \in BOOLEAN
    PROVE  /\ ResolveAll(p, links, install) \in PlanType
           /\ Grows(p, ResolveAll(p, links, install), Targets(links) \cap Inventory, install)
           /\ ResolveAll(p, links, install).gaps = {} =>
                 \A n \in DOMAIN links : links[n].to \cap Inventory # {}
  <1> DEFINE N == Len(links)
             G == [i \in 1 .. N |-> [q \in PlanType |-> Resolve(q, links[i], install)]]
             E(f) == f = [n \in 0 .. N |-> IF n = 0 THEN p ELSE Resolve(f[n - 1], links[n], install)]
  <1>1. N \in Nat /\ DOMAIN links = 1 .. N /\ \A i \in 1 .. N : links[i] \in LinkType(package.files)
    OBVIOUS
  <1>2. \A i \in 1 .. N, q \in PlanType :
           /\ Resolve(q, links[i], install) \in PlanType
           /\ Grows(q, Resolve(q, links[i], install), links[i].to \cap Inventory, install)
           /\ Resolve(q, links[i], install).gaps = {} => links[i].to \cap Inventory # {}
    <2> HIDE DEF N
    <2> QED BY <1>1, ResolveGrows
  <1>4. PICK f \in [0 .. N -> PlanType] : Computes(f, p, G, N)
    <2>1. G \in StepFunctions(N, PlanType)
      <3> HIDE DEF N
      <3> QED BY <1>2 DEF StepFunctions
    <2> HIDE DEF G, N
    <2> QED BY <1>1, <2>1, Recursion
  <1>5. ASSUME NEW i \in 1 .. N PROVE f[i] = Resolve(f[i - 1], links[i], install)
    <2>1. f[i - 1] \in PlanType BY <1>1
    <2>2. f[i] = G[i][f[i - 1]] BY <1>4 DEF Computes
    <2>3. G[i] = [q \in PlanType |-> Resolve(q, links[i], install)] OBVIOUS
    <2> HIDE DEF G, N
    <2> QED BY <2>1, <2>2, <2>3
  <1>6. E(f)
    <2>1. f[0] = p BY <1>4 DEF Computes
    <2>2. ASSUME NEW i \in 0 .. N PROVE f[i] = IF i = 0 THEN p ELSE Resolve(f[i - 1], links[i], install)
      <3>1. CASE i = 0 BY <2>1, <3>1
      <3>2. CASE i # 0
        <4>1. i \in 1 .. N BY <3>2, <1>1
        <4> HIDE DEF N, G
        <4> QED BY <4>1, <1>5, <3>2
      <3> QED BY <3>1, <3>2
    <2>3. f = [i \in 0 .. N |-> f[i]] OBVIOUS
    <2> HIDE DEF G, N
    <2> QED BY <2>2, <2>3
  <1>7. E(CHOOSE g : E(g))
    <2> HIDE DEF E
    <2> QED BY <1>6, Zenon
  <1> DEFINE g == CHOOSE h : E(h)
  <1>8. ResolveAll(p, links, install) = g[N] BY DEF ResolveAll
  <1>9. g[0] = p /\ \A i \in 1 .. N : g[i] = Resolve(g[i - 1], links[i], install)
    <2>1. E(g) BY <1>7
    <2>2. g = [n \in 0 .. N |-> IF n = 0 THEN p ELSE Resolve(g[n - 1], links[n], install)] BY <2>1
    <2> HIDE DEF g, G, N, E
    <2> QED BY <2>2, <1>1
  <1> HIDE DEF g, E, G
  <1> DEFINE To(k) == (UNION {links[n].to : n \in 1 .. k}) \cap Inventory
             Good(k) == /\ g[k] \in PlanType
                        /\ Grows(p, g[k], To(k), install)
                        /\ g[k].gaps = {} => \A n \in 1 .. k : links[n].to \cap Inventory # {}
             T == {k \in Nat : k <= N => Good(k)}
  <1>10. 0 \in T
    <2>1. To(0) = {} OBVIOUS
    <2>2. Len(p.required) \in Nat BY DEF PlanType
    <2>3. Grows(p, p, {}, install) BY <2>2 DEF Grows, Extends
    <2> HIDE DEF To, N
    <2>4. Good(0)
      <3>1. g[0] = p BY <1>9
      <3>2. 1 .. 0 = {} OBVIOUS
      <3> HIDE DEF T
      <3> QED BY <2>1, <2>3, <3>1, <3>2
    <2> HIDE DEF Good
    <2> QED BY <2>4
  <1>11. ASSUME NEW k \in Nat, k \in T PROVE k + 1 \in T
    <2> SUFFICES ASSUME k + 1 <= N PROVE Good(k + 1) OBVIOUS
    <2>1. Good(k) BY <1>11
    <2>2. g[k + 1] = Resolve(g[k], links[k + 1], install) BY <1>9
    <2>3. k + 1 \in 1 .. N OBVIOUS
    <2>4. /\ g[k + 1] \in PlanType
          /\ Grows(g[k], g[k + 1], links[k + 1].to \cap Inventory, install)
          /\ g[k + 1].gaps = {} => links[k + 1].to \cap Inventory # {}
      <3> HIDE DEF To, N, T
      <3> QED BY <1>2, <2>1, <2>2, <2>3
    <2>5. \A n : n \in 1 .. k + 1 <=> n \in 1 .. k \/ n = k + 1 OBVIOUS
    <2>6. To(k + 1) = To(k) \cup (links[k + 1].to \cap Inventory)
      <3> HIDE DEF T, N
      <3> QED BY <2>5
    <2> HIDE DEF To, N, T
    <2>7. Grows(p, g[k + 1], To(k + 1), install) BY <2>1, <2>4, <2>6, GrowsOn
    <2>8. g[k + 1].gaps = {} => g[k].gaps = {} BY <2>4 DEF Grows, Extends
    <2> QED BY <2>1, <2>4, <2>5, <2>7, <2>8
  <1>12. Nat \subseteq T
    <2> HIDE DEF T
    <2> QED BY <1>10, <1>11, Counting
  <1>13. Good(N)
    <2>1. N \in T BY <1>1, <1>12
    <2> HIDE DEF Good, N
    <2> QED BY <2>1, <1>1
  <1>14. To(N) = Targets(links) \cap Inventory BY <1>1 DEF Targets
  <1> HIDE DEF To, N
  <1> QED BY <1>1, <1>8, <1>13, <1>14

LEMMA TargetsFit ==
    ASSUME NEW fs, NEW links \in Seq(LinkType(fs)) PROVE Targets(links) \subseteq fs
  <1>1. DOMAIN links = 1 .. Len(links) /\ \A n \in 1 .. Len(links) : links[n] \in LinkType(fs)
    OBVIOUS
  <1>2. \A n \in DOMAIN links : links[n].to \subseteq fs BY <1>1 DEF LinkType
  <1> QED BY <1>2 DEF Targets

\* Reading the manifest plans what it names.
LEMMA ManifestPlanGrows ==
    ASSUME package \in Packages, NEW p \in PlanType
    PROVE  /\ ManifestPlan(p) \in PlanType
           /\ Extends(p, ManifestPlan(p))
           /\ RequiredBy(ManifestPlan(p)) \subseteq RequiredBy(p) \cup Inventory
           /\ ManifestPlan(p).install \subseteq p.install \cup Targets(package.hooks)
           /\ p.install \subseteq RequiredBy(p) =>
                 ManifestPlan(p).install \subseteq RequiredBy(ManifestPlan(p))
           /\ ManifestPlan(p).gaps = {} /\ Inventory = package.files =>
                 /\ Roots \subseteq RequiredBy(ManifestPlan(p))
                 /\ Targets(package.hooks) \subseteq ManifestPlan(p).install
  <1> DEFINE e == ResolveAll(p, package.entries, FALSE)
             main == package.noMain /\ Index \in Inventory
             m == IF main THEN Require(e, {Index}, FALSE) ELSE e
             h == ResolveAll(m, package.hooks, TRUE)
             q == ResolveAll(h, package.scripts, FALSE)
             L == Seq(LinkType(package.files))
  <1>1. /\ Order \in Seq(STRING) /\ WellFormed(package)
        /\ Inventory \subseteq package.files /\ package.files \subseteq Names
    BY PackageFits
  <1>2. package.entries \in L /\ package.hooks \in L /\ package.scripts \in L
    BY <1>1 DEF WellFormed
  <1>3. e \in PlanType /\ Grows(p, e, Targets(package.entries) \cap Inventory, FALSE)
    BY <1>2, ResolveAllGrows
  <1> HIDE DEF e
  <1>4. m \in PlanType /\ Grows(e, m, IF main THEN {Index} ELSE {}, FALSE)
    <2>1. CASE main
      <3>1. {Index} \in SUBSET Names BY <2>1, <1>1
      <3> QED BY <1>1, <1>3, <2>1, <3>1, RequireGrows
    <2>2. CASE ~main
      <3>1. m = e BY <2>2
      <3>2. Len(e.required) \in Nat BY <1>3 DEF PlanType
      <3>3. Grows(e, e, {}, FALSE) BY <3>2 DEF Grows, Extends
      <3> QED BY <1>3, <2>2, <3>1, <3>3
    <2> QED BY <2>1, <2>2
  <1> HIDE DEF m
  <1>5. h \in PlanType /\ Grows(m, h, Targets(package.hooks) \cap Inventory, TRUE)
    BY <1>2, <1>4, ResolveAllGrows
  <1> HIDE DEF h
  <1>6. q \in PlanType /\ Grows(h, q, Targets(package.scripts) \cap Inventory, FALSE)
    BY <1>2, <1>5, ResolveAllGrows
  <1>7. ManifestPlan(p) = q BY DEF ManifestPlan, q, h, m, e
  <1> HIDE DEF q
  <1>8. Extends(p, e) /\ Extends(e, m) /\ Extends(m, h) /\ Extends(h, q)
    BY <1>3, <1>4, <1>5, <1>6 DEF Grows
  <1>9. Extends(p, q) BY <1>3, <1>4, <1>5, <1>6, <1>8, ExtendsOn
  <1>10. /\ RequiredBy(e) \subseteq RequiredBy(m) /\ RequiredBy(m) \subseteq RequiredBy(h)
         /\ RequiredBy(h) \subseteq RequiredBy(q)
    BY <1>3, <1>4, <1>5, <1>6, <1>8, ExtendsKeeps
  <1>11. RequiredBy(q) \subseteq RequiredBy(p) \cup Inventory
    BY <1>3, <1>4, <1>5, <1>6 DEF Grows
  <1>12. q.install \subseteq p.install \cup Targets(package.hooks)
    BY <1>3, <1>4, <1>5, <1>6 DEF Grows
  <1>13. p.install \subseteq RequiredBy(p) => q.install \subseteq RequiredBy(q)
    BY <1>3, <1>4, <1>5, <1>6 DEF Grows
  <1>14. ASSUME q.gaps = {}, Inventory = package.files
         PROVE  Roots \subseteq RequiredBy(q) /\ Targets(package.hooks) \subseteq q.install
    <2>1. h.gaps = {} /\ m.gaps = {} /\ e.gaps = {} BY <1>8, <1>14 DEF Extends
    <2>2. /\ Targets(package.entries) \subseteq Inventory
          /\ Targets(package.hooks) \subseteq Inventory
          /\ Targets(package.scripts) \subseteq Inventory
      BY <1>2, <1>14, TargetsFit
    <2>3. Targets(package.entries) \subseteq RequiredBy(e) BY <1>3, <2>1, <2>2 DEF Grows
    <2>4. main => Index \in RequiredBy(m) BY <1>4, <2>1 DEF Grows
    <2>5. Targets(package.hooks) \subseteq RequiredBy(h) /\ Targets(package.hooks) \subseteq h.install
      BY <1>5, <2>1, <2>2 DEF Grows
    <2>6. Targets(package.scripts) \subseteq RequiredBy(q) /\ h.install \subseteq q.install
      BY <1>6, <1>8, <1>14, <2>2 DEF Grows, Extends
    <2> QED BY <1>10, <1>14, <2>3, <2>4, <2>5, <2>6 DEF Roots
  <1> QED BY <1>6, <1>7, <1>9, <1>11, <1>12, <1>13, <1>14

-----------------------------------------------------------------------------
(* Reachability.                                                             *)

LEMMA EdgesAreNames ==
    ASSUME package \in Packages
    PROVE  /\ \A f \in package.files :
                 Links[f] \in Seq(LinkType(package.files)) /\ Targets(Links[f]) \subseteq package.files
           /\ Edges \in [Names -> SUBSET Names]
           /\ Targets(package.hooks) \subseteq package.files
           /\ Roots \subseteq package.files
           /\ Targets(package.hooks) \subseteq Roots
  <1>1. WellFormed(package) /\ package.files \subseteq Names BY PackageFits
  <1>2. ASSUME NEW f \in package.files PROVE Links[f] \in Seq(LinkType(package.files))
    <2>1. package.imports[f] \in Seq(LinkType(package.files)) /\ package.starts[f] \in Seq(LinkType(package.files))
      BY <1>1 DEF WellFormed
    <2>2. Links[f] = package.imports[f] \o package.starts[f] BY DEF Links
    <2> QED BY <2>1, <2>2, ConcatProperties
  <1>3. \A f \in package.files : Targets(Links[f]) \subseteq package.files
    BY <1>2, TargetsFit
  <1>4. /\ package.entries \in Seq(LinkType(package.files))
        /\ package.hooks \in Seq(LinkType(package.files))
        /\ package.scripts \in Seq(LinkType(package.files))
        /\ Manifest \notin package.files => package.hooks = << >>
    BY <1>1 DEF WellFormed
  <1>5. /\ Targets(package.entries) \subseteq package.files
        /\ Targets(package.hooks) \subseteq package.files
        /\ Targets(package.scripts) \subseteq package.files
    BY <1>4, TargetsFit
  <1>6. Targets(<< >>) = {} BY DEF Targets
  <1>7. Edges \in [Names -> SUBSET Names] BY <1>1, <1>3 DEF Edges
  <1>8. Roots \subseteq package.files BY <1>5 DEF Roots
  <1>9. Targets(package.hooks) \subseteq Roots
    <2>1. CASE Manifest \in package.files BY <2>1 DEF Roots
    <2>2. CASE Manifest \notin package.files BY <1>4, <1>6, <2>2
    <2> QED BY <2>1, <2>2
  <1> QED BY <1>2, <1>3, <1>5, <1>7, <1>8, <1>9

LEMMA RootsAreReached ==
    ASSUME NEW roots \in SUBSET Names PROVE roots \subseteq ReachableFrom(roots)
  BY DEF ReachableFrom

LEMMA ReachedIsClosed ==
    ASSUME package \in Packages, NEW roots, NEW f \in ReachableFrom(roots)
    PROVE  f \in Names /\ Edges[f] \subseteq ReachableFrom(roots)
  <1>1. Edges[f] \subseteq Names BY EdgesAreNames DEF ReachableFrom
  <1> QED BY <1>1 DEF ReachableFrom, Closed

LEMMA ReachedIsLeast ==
    ASSUME NEW roots, NEW fs \in SUBSET Names, roots \subseteq fs, Closed(fs)
    PROVE  ReachableFrom(roots) \subseteq fs
  BY DEF ReachableFrom

-----------------------------------------------------------------------------
(* The collection's inductive invariant.                                     *)

\* Nothing was recorded that keeps the coverage from being complete.
Unmarred == gaps = {} /\ plan.gaps = {}

\* What the install hooks lead to.
Hooked == ReachableFrom(Targets(package.hooks))

CollectionTypes ==
    /\ package \in Packages /\ plan \in PlanType /\ readOrder \in Seq(Names)
    /\ expanded \in [Names -> {"no", "runtime", "install"}]
    /\ at \in Nat \ {0} /\ cursor \in Nat \ {0} /\ bytes \in Nat /\ phase \in {"pass", "done"}

\* What is planned comes from the inventory, and what is marked for install time from the hooks.
\* Nothing is planned before the manifest is read.
PlanFits ==
    /\ RequiredBy(plan) \subseteq Inventory /\ plan.install \subseteq RequiredBy(plan)
    /\ plan.install \subseteq Hooked
    /\ Manifest \notin read => plan.required = << >>

\* Every loss leaves a gap, and each optional file behind the cursor was taken.
ReadingFits ==
    /\ read \subseteq visited /\ visited \subseteq Inventory
    /\ blind \subseteq elided /\ elided \subseteq read /\ unparsed \subseteq elided \cup package.unparsable
    /\ gaps = {} => Inventory = package.files /\ visited = read /\ elided = {}
    /\ cursor > 1 /\ Manifest \in Inventory => Manifest \in visited
    /\ \A m \in DOMAIN Pending : m < cursor => Pending[m] \in visited \/ Pending[m] \notin package.text

\* What the manifest and the links that were followed lead to is planned.
FollowedFits ==
    Unmarred =>
      /\ Manifest \in read => Roots \subseteq RequiredBy(plan) /\ Targets(package.hooks) \subseteq plan.install
      /\ \A f \in Names :
           /\ expanded[f] # "no" => /\ f \in read /\ f \in RequiredBy(plan) /\ Edges[f] \subseteq RequiredBy(plan)
                                    /\ \A n \in DOMAIN Links[f] : Links[f][n].to # {}
           /\ expanded[f] = "install" => f \in plan.install /\ Edges[f] \subseteq plan.install

\* Files whose links would have to be followed once more, since they turned out to run at install
\* time; those that the pass is past.
Outdated == {f \in RequiredBy(plan) : expanded[f] # Mode(f)}
OutdatedBefore == {f \in Outdated : \E n \in DOMAIN plan.required : n < at /\ plan.required[n] = f}

\* The pass follows the links of each required file that was read.  Once the optional files are
\* reached, the required ones are known and were followed; a file that is still outdated was added
\* to the install-time files by a pass of its own, so there are at least as many as passes.
PassFits ==
    Unmarred =>
      /\ \A n \in DOMAIN plan.required :
            n < at /\ plan.required[n] \in read => expanded[plan.required[n]] # "no"
      /\ cursor > 2 =>
           /\ \A f \in RequiredBy(plan) : f \in read /\ expanded[f] # "no"
           /\ Outdated # {} => Cardinality(plan.install) >= cursor - 2
           /\ OutdatedBefore # {} => Cardinality(plan.install) >= cursor - 1

\* What was established when the collection ended without a gap.
CompleteFits ==
    Complete =>
      /\ plan.gaps = {}
      /\ package.text \subseteq read
      /\ RequiredBy(plan) \subseteq read /\ RequiredBy(plan) \cap package.binary = {}
      /\ Manifest \in package.files => Manifest \in read /\ Outdated = {}
      /\ \A f \in RequiredBy(plan) : expanded[f] # "no"

CollectionInv ==
    /\ CollectionTypes /\ PlanFits /\ ReadingFits /\ FollowedFits
    /\ PassFits /\ CompleteFits /\ CoverageIsBounded

-----------------------------------------------------------------------------
(* What a step leaves alone, and what it starts from.                        *)

LEMMA PackageStays ==
    ASSUME package' = package
    PROVE  /\ Inventory' = Inventory /\ Pending' = Pending /\ Edges' = Edges
           /\ Roots' = Roots /\ Hooked' = Hooked /\ Links' = Links
  <1>1. Inventory' = Inventory /\ Pending' = Pending BY DEF Inventory, Pending, Listed
  <1>2. Edges' = Edges /\ Links' = Links BY DEF Edges, Links
  <1>3. Roots' = Roots BY DEF Roots
  <1>4. Hooked' = Hooked BY <1>2 DEF Hooked, ReachableFrom, Closed
  <1> QED BY <1>1, <1>2, <1>3, <1>4

\* Nothing of the collection changes.
LEMMA CollectionStays ==
    ASSUME CollectionInv, UNCHANGED collection PROVE CollectionInv'
  <1>1. /\ package' = package /\ plan' = plan /\ readOrder' = readOrder /\ elided' = elided
        /\ blind' = blind /\ unparsed' = unparsed /\ visited' = visited /\ expanded' = expanded /\ at' = at
        /\ cursor' = cursor /\ bytes' = bytes /\ gaps' = gaps /\ phase' = phase
    BY DEF collection
  <1>2. read' = read BY <1>1 DEF read
  <1>3. /\ Inventory' = Inventory /\ Pending' = Pending /\ Edges' = Edges
        /\ Roots' = Roots /\ Hooked' = Hooked /\ Links' = Links
    BY <1>1, PackageStays
  <1>4. Outdated' = Outdated /\ OutdatedBefore' = OutdatedBefore
    BY <1>1 DEF Outdated, OutdatedBefore, Mode
  <1>5. CollectionTypes' BY <1>1 DEF CollectionInv, CollectionTypes
  <1>6. PlanFits' BY <1>1, <1>2, <1>3 DEF CollectionInv, PlanFits
  <1>7. ReadingFits' BY <1>1, <1>2, <1>3 DEF CollectionInv, ReadingFits
  <1>8. FollowedFits' BY <1>1, <1>2, <1>3 DEF CollectionInv, FollowedFits, Unmarred
  <1>9. PassFits' BY <1>1, <1>2, <1>4 DEF CollectionInv, PassFits, Unmarred
  <1>10. CompleteFits' BY <1>1, <1>2, <1>4 DEF CollectionInv, CompleteFits, Complete
  <1>11. CoverageIsBounded' BY <1>1, <1>2 DEF CollectionInv, CoverageIsBounded
  <1> QED BY <1>5, <1>6, <1>7, <1>8, <1>9, <1>10, <1>11 DEF CollectionInv

\* The required files by their places.
LEMMA RequiredAt ==
    ASSUME CollectionTypes
    PROVE  /\ Len(plan.required) \in Nat /\ DOMAIN plan.required = 1 .. Len(plan.required)
           /\ \A n \in DOMAIN plan.required : plan.required[n] \in RequiredBy(plan)
           /\ \A f \in RequiredBy(plan) : \E n \in DOMAIN plan.required : plan.required[n] = f
           /\ RequiredBy(plan) \subseteq Names /\ plan.install \subseteq Names /\ read \subseteq Names
           /\ IsFiniteSet(Names)
  <1>1. plan.required \in Seq(Names) /\ plan.install \subseteq Names BY DEF CollectionTypes, PlanType
  <1>2. Len(plan.required) \in Nat /\ DOMAIN plan.required = 1 .. Len(plan.required) BY <1>1
  <1>3. RequiredBy(plan) \subseteq Names BY <1>1, <1>2 DEF RequiredBy, ToSet
  <1>4. DOMAIN readOrder = 1 .. Len(readOrder) /\ Len(readOrder) \in Nat BY DEF CollectionTypes
  <1>5. read \subseteq Names BY <1>4 DEF read, ToSet, CollectionTypes
  <1>6. IsFiniteSet(Names) BY PackageFits, NamesAreFinite DEF CollectionTypes
  <1> QED BY <1>1, <1>2, <1>3, <1>5, <1>6 DEF RequiredBy, ToSet

\* The pending files: the whole inventory, and the manifest first.
LEMMA PendingIs ==
    ASSUME package \in Packages
    PROVE  /\ Len(Pending) \in Nat /\ DOMAIN Pending = 1 .. Len(Pending)
           /\ \A n \in DOMAIN Pending : Pending[n] \in Inventory
           /\ \A f \in Inventory : \E n \in DOMAIN Pending : Pending[n] = f
           /\ Manifest \in Inventory => /\ 1 \in DOMAIN Pending /\ Pending[1] = Manifest
                                        /\ Len(Pending) >= Cardinality(Inventory) + 1
                                        /\ Len(Pending) >= 2
  <1> DEFINE first == IF Manifest \in Inventory THEN <<Manifest>> ELSE << >>
  <1>1. /\ Order \in Seq(STRING) /\ Inventory \subseteq Names BY PackageFits
  <1>2. Listed \in Seq(Names) /\ ToSet(Listed) = Inventory BY <1>1, InOrderIs DEF Listed
  <1>3. first \in Seq(Names) /\ ToSet(first) = Inventory \cap {Manifest}
    <2>1. CASE Manifest \in Inventory
      <3>1. first = <<Manifest>> /\ Manifest \in Names BY <1>1, <2>1
      <3>2. ToSet(<<Manifest>>) = {Manifest} BY DEF ToSet
      <3>3. <<Manifest>> \in Seq(Names) BY <3>1
      <3> HIDE DEF first
      <3> QED BY <2>1, <3>1, <3>2, <3>3
    <2>2. CASE Manifest \notin Inventory
      <3>1. ToSet(<< >>) = {} BY DEF ToSet
      <3> QED BY <2>2, <3>1
    <2> QED BY <2>1, <2>2
  <1>4. Pending = first \o Listed BY DEF Pending
  <1>5. /\ Pending \in Seq(Names) /\ Len(Pending) = Len(first) + Len(Listed)
        /\ \A i \in 1 .. Len(first) : Pending[i] = first[i]
    <2> HIDE DEF first
    <2> QED BY <1>2, <1>3, <1>4, ConcatProperties
  <1>6. ToSet(Pending) = Inventory
    <2> HIDE DEF first
    <2>1. ToSet(first \o Listed) = ToSet(first) \cup ToSet(Listed) BY <1>2, <1>3, ToSetConcat
    <2> QED BY <1>2, <1>3, <1>4, <2>1
  <1>7. Len(Pending) \in Nat /\ DOMAIN Pending = 1 .. Len(Pending) BY <1>5
  <1>8. Manifest \in Inventory => /\ 1 \in DOMAIN Pending /\ Pending[1] = Manifest
                                 /\ Len(Pending) >= Cardinality(Inventory) + 1
                                 /\ Len(Pending) >= 2
    <2> SUFFICES ASSUME Manifest \in Inventory
                 PROVE  /\ 1 \in DOMAIN Pending /\ Pending[1] = Manifest
                        /\ Len(Pending) >= Cardinality(Inventory) + 1 /\ Len(Pending) >= 2
      OBVIOUS
    <2>1. Len(first) = 1 /\ first[1] = Manifest OBVIOUS
    <2>2. Len(Listed) \in Nat /\ DOMAIN Listed = 1 .. Len(Listed) BY <1>2
    <2>3. IsFiniteSet(1 .. Len(Listed)) /\ Cardinality(1 .. Len(Listed)) = Len(Listed)
      <3> DEFINE N == Len(Listed)
      <3>1. N \in Nat BY <2>2
      <3> HIDE DEF N
      <3>2. IsFiniteSet(1 .. N) /\ Cardinality(1 .. N) = N BY <3>1, FS_Interval
      <3> QED BY <3>2 DEF N
    <2> DEFINE g == [i \in 1 .. Len(Listed) |-> Listed[i]]
    <2>4. g \in Surjection(1 .. Len(Listed), Inventory) BY <1>2, <2>2 DEF Surjection, ToSet
    <2> HIDE DEF g, first
    <2>5. IsFiniteSet(Inventory) /\ Cardinality(Inventory) <= Len(Listed)
      BY <2>3, <2>4, FS_Surjection
    <2>6. Cardinality(Inventory) \in Nat /\ Cardinality(Inventory) # 0
      BY <2>5, FS_CardinalityType, FS_EmptySet
    <2>7. Len(Pending) = 1 + Len(Listed) BY <1>5, <2>1
    <2>8. Len(Pending) >= Cardinality(Inventory) + 1 /\ Len(Pending) >= 2
      BY <2>2, <2>5, <2>6, <2>7
    <2>9. Pending[1] = Manifest BY <1>5, <2>1
    <2> QED BY <1>7, <2>8, <2>9
  <1>9. /\ \A n \in DOMAIN Pending : Pending[n] \in Inventory
        /\ \A f \in Inventory : \E n \in DOMAIN Pending : Pending[n] = f
    BY <1>6 DEF ToSet
  <1> QED BY <1>7, <1>8, <1>9

-----------------------------------------------------------------------------
(* Every step of the collection keeps the invariant.                         *)

LEMMA CollectionStarts == ASSUME InitCollection PROVE CollectionInv
  <1>1. /\ package \in Packages
        /\ plan = [required |-> << >>, install |-> {}, gaps |-> {}, work |-> 0]
        /\ readOrder = << >> /\ elided = {} /\ blind = {} /\ unparsed = {} /\ visited = {}
        /\ expanded = [f \in Names |-> "no"] /\ at = 1 /\ cursor = 1 /\ bytes = 0
        /\ gaps = (IF Truncated THEN {"entry limit"} ELSE {}) /\ phase = "pass"
    BY DEF InitCollection
  <1>a. at = 1 /\ cursor = 1 /\ bytes = 0 BY <1>1
  <1>b. package \in Packages BY <1>1
  <1>c. ~(cursor > 1) /\ ~(cursor > 2) BY <1>a
  <1>2. plan.required = << >> /\ plan.install = {} /\ plan.gaps = {} BY <1>1
  <1>3. RequiredBy(plan) = {} /\ read = {} /\ DOMAIN plan.required = {}
    <2>1. ToSet(<< >>) = {} /\ DOMAIN << >> = {} BY DEF ToSet
    <2> QED BY <1>1, <1>2, <2>1 DEF RequiredBy, read
  <1>4. plan \in PlanType
    <2>1. << >> \in Seq(Names) /\ 0 \in Nat OBVIOUS
    <2>2. plan = [required |-> << >>, install |-> {}, gaps |-> {}, work |-> 0] BY <1>1
    <2> QED BY <2>1, <2>2 DEF PlanType
  <1>5. CollectionTypes
    <2>1. << >> \in Seq(Names) OBVIOUS
    <2>2. expanded \in [Names -> {"no", "runtime", "install"}] BY <1>1
    <2>3. at \in Nat \ {0} /\ cursor \in Nat \ {0} /\ bytes \in Nat BY <1>a
    <2> QED BY <1>1, <1>4, <2>1, <2>2, <2>3 DEF CollectionTypes
  <1>6. PlanFits BY <1>2, <1>3 DEF PlanFits
  <1>7. ReadingFits
    <2>1. gaps = {} => Inventory = package.files BY <1>1 DEF Truncated, Inventory
    <2>3. \A m \in DOMAIN Pending : ~(m < cursor)
      <3>1. DOMAIN Pending = 1 .. Len(Pending) /\ Len(Pending) \in Nat BY <1>b, PendingIs
      <3> QED BY <1>a, <3>1
    <2> QED BY <1>1, <1>3, <1>c, <2>1, <2>3 DEF ReadingFits
  <1>8. FollowedFits
    <2>1. \A f \in Names : expanded[f] = "no" BY <1>1
    <2> QED BY <1>3, <2>1 DEF FollowedFits
  <1>9. PassFits
    <2> QED BY <1>3, <1>c DEF PassFits
  <1>10. CompleteFits BY <1>1 DEF CompleteFits, Complete
  <1>11. CoverageIsBounded
    <2>1. package.maxFiles \in Nat /\ package.maxTotal \in Nat /\ Marker \in Nat
      BY <1>b, PackageFits DEF WellFormed
    <2>2. Cardinality(read) = 0 BY <1>3, FS_EmptySet
    <2> QED BY <1>a, <2>1, <2>2 DEF CoverageIsBounded
  <1> QED BY <1>5, <1>6, <1>7, <1>8, <1>9, <1>10, <1>11 DEF CollectionInv

LEMMA PassKeeps == ASSUME CollectionInv, Pass PROVE CollectionInv'
  <1>1. /\ phase = "pass" /\ at <= Len(plan.required) /\ ~Stale(plan.required[at])
        /\ at' = at + 1
        /\ package' = package /\ plan' = plan /\ readOrder' = readOrder /\ elided' = elided
        /\ blind' = blind /\ unparsed' = unparsed /\ visited' = visited /\ expanded' = expanded
        /\ cursor' = cursor /\ bytes' = bytes /\ gaps' = gaps /\ phase' = phase
    BY DEF Pass
  <1>2. read' = read BY <1>1 DEF read
  <1>3. /\ Inventory' = Inventory /\ Pending' = Pending /\ Edges' = Edges
        /\ Roots' = Roots /\ Hooked' = Hooked /\ Links' = Links
    BY <1>1, PackageStays
  <1>4. Outdated' = Outdated BY <1>1 DEF Outdated, Mode
  <1>5. CollectionTypes' BY <1>1 DEF CollectionInv, CollectionTypes
  <1>6. PlanFits' BY <1>1, <1>2, <1>3 DEF CollectionInv, PlanFits
  <1>7. ReadingFits' BY <1>1, <1>2, <1>3 DEF CollectionInv, ReadingFits
  <1>8. FollowedFits' BY <1>1, <1>2, <1>3 DEF CollectionInv, FollowedFits, Unmarred
  <1>9. PassFits'
    <2> SUFFICES ASSUME Unmarred
                 PROVE  /\ \A n \in DOMAIN plan.required :
                             n < at + 1 /\ plan.required[n] \in read => expanded[plan.required[n]] # "no"
                        /\ cursor > 2 =>
                             /\ \A f \in RequiredBy(plan) : f \in read /\ expanded[f] # "no"
                             /\ Outdated # {} => Cardinality(plan.install) >= cursor - 2
                             /\ OutdatedBefore' # {} => Cardinality(plan.install) >= cursor - 1
      BY <1>1, <1>2, <1>4 DEF PassFits, Unmarred
    <2>1. /\ Len(plan.required) \in Nat /\ DOMAIN plan.required = 1 .. Len(plan.required)
          /\ \A n \in DOMAIN plan.required : plan.required[n] \in RequiredBy(plan)
          /\ at \in Nat \ {0}
      BY RequiredAt DEF CollectionInv, CollectionTypes
    <2>2. plan.required[at] \in read => expanded[plan.required[at]] = Mode(plan.required[at])
      BY <1>1 DEF Stale
    <2>3. ASSUME NEW n \in DOMAIN plan.required, n < at + 1, plan.required[n] \in read
          PROVE  expanded[plan.required[n]] # "no"
      <3>1. CASE n < at BY <2>3, <3>1 DEF CollectionInv, PassFits
      <3>2. CASE n = at BY <2>2, <2>3, <3>2 DEF Mode
      <3> QED BY <2>1, <2>3, <3>1, <3>2
    <2>4. ASSUME cursor > 2
          PROVE  OutdatedBefore' \subseteq OutdatedBefore
      <3> SUFFICES ASSUME NEW f \in Outdated, NEW n \in DOMAIN plan.required, n < at + 1,
                          plan.required[n] = f
                   PROVE  f \in OutdatedBefore
        BY <1>1, <1>4 DEF OutdatedBefore
      <3>1. f \in read BY <2>4 DEF CollectionInv, PassFits, Outdated
      <3>2. n # at BY <2>2, <3>1 DEF Outdated
      <3>3. n < at BY <2>1, <3>2
      <3> QED BY <3>3 DEF OutdatedBefore
    <2> QED BY <2>3, <2>4 DEF CollectionInv, PassFits
  <1>10. CompleteFits' BY <1>1 DEF CompleteFits, Complete
  <1>11. CoverageIsBounded' BY <1>1, <1>2 DEF CollectionInv, CoverageIsBounded
  <1> QED BY <1>5, <1>6, <1>7, <1>8, <1>9, <1>10, <1>11 DEF CollectionInv

\* Where the pass has ended with everything required visited.
LEMMA PassEnds ==
    ASSUME CollectionInv, EndOfPass, Unvisited = {}, Unmarred
    PROVE  /\ \A f \in RequiredBy(plan) : f \in read /\ expanded[f] # "no"
           /\ OutdatedBefore = Outdated
           /\ Outdated \subseteq plan.install
  <1>1. /\ Len(plan.required) \in Nat /\ DOMAIN plan.required = 1 .. Len(plan.required)
        /\ \A f \in RequiredBy(plan) : \E n \in DOMAIN plan.required : plan.required[n] = f
        /\ RequiredBy(plan) \subseteq Names
        /\ at \in Nat \ {0} /\ at > Len(plan.required)
    BY RequiredAt DEF CollectionInv, CollectionTypes, EndOfPass
  <1>2. \A n \in DOMAIN plan.required : n < at BY <1>1
  <1>3. ASSUME NEW f \in RequiredBy(plan) PROVE f \in read /\ expanded[f] # "no"
    <2>1. PICK n \in DOMAIN plan.required : plan.required[n] = f BY <1>1
    <2>2. f \in visited BY <2>1 DEF Unvisited
    <2>3. f \in read BY <2>2 DEF CollectionInv, ReadingFits, Unmarred
    <2> QED BY <1>2, <2>1, <2>3 DEF CollectionInv, PassFits
  <1>4. OutdatedBefore = Outdated BY <1>1, <1>2 DEF OutdatedBefore, Outdated
  <1>5. ASSUME NEW f \in Outdated PROVE f \in plan.install
    <2>1. f \in RequiredBy(plan) /\ expanded[f] # Mode(f) BY DEF Outdated
    <2>2. f \in Names /\ expanded[f] # "no" BY <1>1, <1>3, <2>1
    <2>3. expanded[f] \in {"runtime", "install"} BY <2>2 DEF CollectionInv, CollectionTypes
    <2>4. expanded[f] = "install" => f \in plan.install BY <2>2 DEF CollectionInv, FollowedFits
    <2> QED BY <2>1, <2>3, <2>4 DEF Mode
  <1> QED BY <1>3, <1>4, <1>5

\* A step to the next optional file keeps what is known of the passes.
LEMMA NextOptional ==
    ASSUME CollectionInv, EndOfPass, Unvisited = {}, Unmarred, cursor + 1 > 2
    PROVE  /\ \A f \in RequiredBy(plan) : f \in read /\ expanded[f] # "no"
           /\ Outdated # {} => Cardinality(plan.install) >= cursor - 1
  <1>1. cursor \in Nat BY DEF CollectionInv, CollectionTypes
  <1>2. plan.install \subseteq Names /\ IsFiniteSet(Names) BY RequiredAt DEF CollectionInv
  <1>3. IsFiniteSet(plan.install) /\ Cardinality(plan.install) \in Nat
    BY <1>2, FS_Subset, FS_CardinalityType
  <1>4. ASSUME Outdated # {} PROVE Cardinality(plan.install) >= cursor - 1
    <2>1. CASE cursor > 2 BY <1>4, <2>1, PassEnds DEF CollectionInv, PassFits
    <2>2. CASE ~(cursor > 2)
      <3>1. plan.install # {} BY <1>4, PassEnds
      <3>2. Cardinality(plan.install) # 0 BY <1>3, <3>1, FS_EmptySet
      <3> QED BY <1>1, <1>3, <2>2, <3>2
    <2> QED BY <2>1, <2>2
  <1> QED BY <1>4, PassEnds

\* The manifest comes first among the optional files.
LEMMA CursorMoves ==
    ASSUME CollectionInv, NextIsOptional
    PROVE  /\ Pending[cursor] \in Inventory
           /\ cursor = 1 /\ Manifest \in Inventory => Pending[cursor] = Manifest
           /\ Manifest \in Inventory => Manifest \in package.text
           /\ \A m \in DOMAIN Pending : m < cursor + 1 => m < cursor \/ m = cursor
  <1>1. package \in Packages /\ cursor \in Nat \ {0} /\ cursor <= Len(Pending)
    BY DEF CollectionInv, CollectionTypes, NextIsOptional
  <1>2. Len(Pending) \in Nat /\ DOMAIN Pending = 1 .. Len(Pending) BY <1>1, PendingIs
  <1>3. cursor \in DOMAIN Pending BY <1>1, <1>2
  <1>4. Manifest \in Inventory => Manifest \in package.text
    BY <1>1, PackageFits DEF WellFormed
  <1>5. \A m \in DOMAIN Pending : m < cursor + 1 => m < cursor \/ m = cursor BY <1>1, <1>2
  <1> QED BY <1>1, <1>3, <1>4, <1>5, PendingIs

LEMMA SkipKeeps == ASSUME CollectionInv, Skip PROVE CollectionInv'
  <1>1. /\ NextIsOptional /\ EndOfPass /\ Unvisited = {} /\ phase = "pass"
        /\ Pending[cursor] \in visited \/ Pending[cursor] \notin package.text
        /\ package' = package /\ plan' = plan /\ readOrder' = readOrder /\ elided' = elided
        /\ blind' = blind /\ unparsed' = unparsed /\ visited' = visited /\ expanded' = expanded
        /\ bytes' = bytes /\ gaps' = gaps /\ phase' = phase
    BY DEF Skip, NextIsOptional, EndOfPass
  <1>a. at' = 1 /\ cursor' = cursor + 1 BY DEF Skip
  <1>2. read' = read BY <1>1 DEF read
  <1>3. /\ Inventory' = Inventory /\ Pending' = Pending /\ Edges' = Edges
        /\ Roots' = Roots /\ Hooked' = Hooked /\ Links' = Links
    BY <1>1, PackageStays
  <1>4. Outdated' = Outdated BY <1>1 DEF Outdated, Mode
  <1>5. CollectionTypes'
    <2>1. at' \in Nat \ {0} /\ cursor' \in Nat \ {0} BY <1>a DEF CollectionInv, CollectionTypes
    <2> QED BY <1>1, <2>1 DEF CollectionInv, CollectionTypes
  <1>6. PlanFits' BY <1>1, <1>2, <1>3 DEF CollectionInv, PlanFits
  <1>7. ReadingFits'
    <2>1. Manifest \in Inventory => Manifest \in visited
      <3>1. CASE cursor > 1 BY <3>1 DEF CollectionInv, ReadingFits
      <3>2. CASE ~(cursor > 1)
        <4>1. cursor = 1 BY <3>2 DEF CollectionInv, CollectionTypes
        <4> QED BY <1>1, <4>1, CursorMoves
      <3> QED BY <3>1, <3>2
    <2>2. ASSUME NEW m \in DOMAIN Pending, m < cursor + 1
          PROVE  Pending[m] \in visited \/ Pending[m] \notin package.text
      <3>1. m < cursor \/ m = cursor BY <1>1, <2>2, CursorMoves
      <3> QED BY <1>1, <3>1 DEF CollectionInv, ReadingFits
    <2> QED BY <1>1, <1>a, <1>2, <1>3, <2>1, <2>2 DEF CollectionInv, ReadingFits
  <1>8. FollowedFits' BY <1>1, <1>2, <1>3 DEF CollectionInv, FollowedFits, Unmarred
  <1>9. PassFits'
    <2> SUFFICES ASSUME Unmarred
                 PROVE  /\ \A n \in DOMAIN plan.required : ~(n < 1)
                        /\ cursor + 1 > 2 =>
                             /\ \A f \in RequiredBy(plan) : f \in read /\ expanded[f] # "no"
                             /\ Outdated # {} => Cardinality(plan.install) >= (cursor + 1) - 2
                             /\ OutdatedBefore' = {}
      BY <1>1, <1>a, <1>2, <1>4 DEF PassFits, Unmarred
    <2>1. \A n \in DOMAIN plan.required : ~(n < 1)
      <3>1. DOMAIN plan.required = 1 .. Len(plan.required) /\ Len(plan.required) \in Nat
        BY RequiredAt DEF CollectionInv
      <3> QED BY <3>1
    <2>2. OutdatedBefore' = {} BY <1>1, <1>a, <2>1 DEF OutdatedBefore
    <2>3. (cursor + 1) - 2 = cursor - 1 BY DEF CollectionInv, CollectionTypes
    <2> QED BY <1>1, <2>1, <2>2, <2>3, NextOptional
  <1>10. CompleteFits' BY <1>1 DEF CompleteFits, Complete
  <1>11. CoverageIsBounded' BY <1>1, <1>2 DEF CollectionInv, CoverageIsBounded
  <1> QED BY <1>5, <1>6, <1>7, <1>8, <1>9, <1>10, <1>11 DEF CollectionInv

\* The file a step visits is of the inventory and new, and what is behind the cursor was taken.
LEMMA VisitKnows ==
    ASSUME CollectionInv, NEW f, Visits(f)
    PROVE  /\ f \in Inventory /\ f \notin visited /\ f \notin read /\ EndOfPass
           /\ cursor' \in Nat \ {0}
           /\ cursor' > 1 /\ Manifest \in Inventory => Manifest \in visited \cup {f}
           /\ \A m \in DOMAIN Pending : m < cursor' =>
                 Pending[m] \in visited \cup {f} \/ Pending[m] \notin package.text
           /\ Unmarred /\ cursor' > 2 => /\ cursor' = cursor + 1 /\ Unvisited = {} /\ f # Manifest
  <1>1. CASE MoreRequired /\ f = plan.required[Min(Unvisited)] /\ UNCHANGED cursor
    <2>1. EndOfPass /\ Unvisited # {} /\ cursor' = cursor BY <1>1 DEF MoreRequired
    <2>2. Unvisited \in SUBSET Nat
      <3>1. DOMAIN plan.required = 1 .. Len(plan.required) /\ Len(plan.required) \in Nat
        BY RequiredAt DEF CollectionInv
      <3> QED BY <3>1 DEF Unvisited
    <2>3. Min(Unvisited) \in Unvisited BY <2>1, <2>2, MinIs
    <2>4. f \in RequiredBy(plan) /\ f \notin visited
      BY <1>1, <2>3, RequiredAt DEF Unvisited, CollectionInv
    <2>5. f \in Inventory /\ f \notin read
      BY <2>4 DEF CollectionInv, PlanFits, ReadingFits
    <2>6. cursor \in Nat \ {0} BY DEF CollectionInv, CollectionTypes
    <2>7. ~(Unmarred /\ cursor > 2)
      BY <2>4, <2>5 DEF CollectionInv, PassFits
    <2> QED BY <2>1, <2>4, <2>5, <2>6, <2>7 DEF CollectionInv, ReadingFits
  <1>2. CASE NextIsOptional /\ f = Pending[cursor] /\ f \notin visited /\ f \in package.text
                 /\ cursor' = cursor + 1
    <2>1. EndOfPass /\ Unvisited = {} /\ cursor \in Nat \ {0}
      BY <1>2 DEF NextIsOptional, CollectionInv, CollectionTypes
    <2>2. f \in Inventory /\ f \notin read
      BY <1>2, CursorMoves DEF CollectionInv, ReadingFits
    <2>3. Manifest \in Inventory => Manifest \in visited \cup {f}
      <3>1. CASE cursor > 1 BY <3>1 DEF CollectionInv, ReadingFits
      <3>2. CASE ~(cursor > 1)
        <4>1. cursor = 1 BY <2>1, <3>2
        <4> QED BY <1>2, <4>1, CursorMoves
      <3> QED BY <3>1, <3>2
    <2>4. ASSUME NEW m \in DOMAIN Pending, m < cursor + 1
          PROVE  Pending[m] \in visited \cup {f} \/ Pending[m] \notin package.text
      <3>1. m < cursor \/ m = cursor BY <1>2, <2>4, CursorMoves
      <3> QED BY <1>2, <3>1 DEF CollectionInv, ReadingFits
    <2>5. cursor > 1 => f # Manifest
      BY <1>2, <2>2 DEF CollectionInv, ReadingFits
    <2>6. cursor + 1 > 2 => cursor > 1 BY <2>1
    <2>7. cursor + 1 \in Nat \ {0} BY <2>1
    <2> QED BY <1>2, <2>1, <2>2, <2>3, <2>4, <2>5, <2>6, <2>7
  <1> QED BY <1>1, <1>2 DEF Visits

LEMMA RefuseKeeps == ASSUME CollectionInv, NEW f \in Names, Refuse(f) PROVE CollectionInv'
  <1>1. /\ Visits(f) /\ visited' = visited \cup {f}
        /\ gaps' # {}
        /\ package' = package /\ plan' = plan /\ readOrder' = readOrder /\ elided' = elided
        /\ blind' = blind /\ unparsed' = unparsed /\ expanded' = expanded /\ bytes' = bytes /\ phase' = phase
    BY DEF Refuse, Visit
  <1>a. at' = 1 BY DEF Refuse, Visit
  <1>2. read' = read BY <1>1 DEF read
  <1>3. /\ Inventory' = Inventory /\ Pending' = Pending /\ Edges' = Edges
        /\ Roots' = Roots /\ Hooked' = Hooked /\ Links' = Links
    BY <1>1, PackageStays
  <1>4. phase = "pass" BY <1>1, VisitKnows DEF EndOfPass
  <1>5. CollectionTypes'
    <2>1. at' \in Nat \ {0} /\ cursor' \in Nat \ {0} BY <1>1, <1>a, VisitKnows
    <2> QED BY <1>1, <2>1 DEF CollectionInv, CollectionTypes
  <1>6. PlanFits' BY <1>1, <1>2, <1>3 DEF CollectionInv, PlanFits
  <1>7. ReadingFits'
    <2>1. /\ read \subseteq visited' /\ visited' \subseteq Inventory
          /\ blind \subseteq elided /\ elided \subseteq read /\ unparsed \subseteq elided \cup package.unparsable
      BY <1>1, VisitKnows DEF CollectionInv, ReadingFits
    <2>2. cursor' > 1 /\ Manifest \in Inventory => Manifest \in visited'
      BY <1>1, VisitKnows
    <2>3. \A m \in DOMAIN Pending : m < cursor' => Pending[m] \in visited' \/ Pending[m] \notin package.text
      BY <1>1, VisitKnows
    <2> QED BY <1>1, <1>2, <1>3, <2>1, <2>2, <2>3 DEF ReadingFits
  <1>8. FollowedFits' BY <1>1 DEF FollowedFits, Unmarred
  <1>9. PassFits' BY <1>1 DEF PassFits, Unmarred
  <1>10. CompleteFits' BY <1>1, <1>4 DEF CompleteFits, Complete
  <1>11. CoverageIsBounded' BY <1>1, <1>2 DEF CollectionInv, CoverageIsBounded
  <1> QED BY <1>5, <1>6, <1>7, <1>8, <1>9, <1>10, <1>11 DEF CollectionInv

\* A reading leaves one of the two cases: to the last byte, or both ends.
LEMMA ReadFileIs ==
    ASSUME CollectionInv, NEW f \in Names, ReadFile(f)
    PROVE  /\ Visits(f) /\ visited' = visited \cup {f} /\ readOrder' = Append(readOrder, f) /\ ~Full
           /\ at' = 1 /\ package' = package /\ expanded' = expanded /\ phase' = phase
           /\ gaps \subseteq gaps'
           /\ elided \subseteq elided' /\ elided' \subseteq elided \cup {f}
           /\ blind' \subseteq elided' /\ unparsed' \subseteq elided' \cup package.unparsable
           /\ bytes' \in Nat /\ bytes' <= 3 * package.maxTotal + Marker
           /\ gaps' = {} => elided' = elided
           /\ f = Manifest /\ gaps' = {} => plan' = ManifestPlan(plan)
           /\ plan' # plan => f = Manifest /\ plan' = ManifestPlan(plan)
  <1>1. /\ Visits(f) /\ visited' = visited \cup {f} /\ readOrder' = Append(readOrder, f) /\ ~Full
        /\ package' = package /\ expanded' = expanded /\ phase' = phase
    BY DEF ReadFile, Visit
  <1>2. at' = 1 BY DEF ReadFile, Visit
  <1>3. f \in package.files /\ package \in Packages /\ WellFormed(package) /\ Marker \in Nat
    BY <1>1, VisitKnows, PackageFits DEF CollectionInv, CollectionTypes
  <1>4. package.size[f] \in Nat /\ package.maxTotal \in Nat /\ package.perFile \in Nat
    BY <1>3 DEF WellFormed
  <1>5. bytes \in Nat /\ bytes < package.maxTotal
    BY <1>1, <1>4 DEF Full, CollectionInv, CollectionTypes
  <1>6. Limit \in Nat /\ Limit <= package.maxTotal - bytes
    <2> DEFINE rest == package.maxTotal - bytes
    <2>1. rest \in Nat BY <1>4, <1>5
    <2> HIDE DEF rest
    <2>2. Min({package.perFile, rest}) \in Nat /\ Min({package.perFile, rest}) <= rest
      BY <1>4, <2>1, AtMost
    <2> QED BY <2>2 DEF Limit, rest
  <1>7. blind \subseteq elided /\ unparsed \subseteq elided \cup package.unparsable
    BY DEF CollectionInv, ReadingFits
  <1>a. ASSUME NEW n \in Nat, n <= Limit, NEW m \in Decoded(f, n), NEW more \in {0, Marker}
        PROVE  bytes + m + more \in Nat /\ bytes + m + more <= 3 * package.maxTotal + Marker
    <2>1. m \in Nat /\ m <= 3 * n
      <3>1. CASE f \in package.nonAscii BY <1>a, <3>1 DEF Decoded
      <3>2. CASE f \notin package.nonAscii BY <1>a, <3>2 DEF Decoded
      <3> QED BY <3>1, <3>2
    <2> QED BY <1>a, <1>3, <1>4, <1>5, <1>6, <2>1
  <1>8. CASE ~Cut(f) /\ (\E n \in Decoded(f, package.size[f]) : bytes' = bytes + n)
             /\ unparsed' = unparsed \cup ({f} \cap package.unparsable)
             /\ plan' = (IF f = Manifest /\ package.parses THEN ManifestPlan(plan) ELSE plan)
             /\ gaps' = gaps \cup (IF f = Manifest /\ ~package.parses THEN {"manifest"} ELSE {})
             /\ elided' = elided /\ blind' = blind
    <2>1. bytes' \in Nat /\ bytes' <= 3 * package.maxTotal + Marker
      <3>1. package.size[f] <= Limit BY <1>4, <1>6, <1>8 DEF Cut
      <3>2. PICK n \in Decoded(f, package.size[f]) : bytes' = bytes + n BY <1>8
      <3>3. bytes + n + 0 \in Nat /\ bytes + n + 0 <= 3 * package.maxTotal + Marker BY <1>4, <1>a, <3>1
      <3>4. n \in Int
        <4>1. CASE f \in package.nonAscii BY <1>4, <4>1 DEF Decoded
        <4>2. CASE f \notin package.nonAscii BY <1>4, <4>2 DEF Decoded
        <4> QED BY <4>1, <4>2
      <3> QED BY <1>5, <3>2, <3>3, <3>4
    <2>2. gaps' = {} => ~(f = Manifest /\ ~package.parses) BY <1>8
    <2>3. /\ f = Manifest /\ gaps' = {} => plan' = ManifestPlan(plan)
          /\ plan' # plan => f = Manifest /\ plan' = ManifestPlan(plan)
      BY <1>8, <2>2
    <2>4. gaps \subseteq gaps' BY <1>8
    <2>5. unparsed' \subseteq elided' \cup package.unparsable BY <1>7, <1>8
    <2> QED BY <1>1, <1>2, <1>7, <1>8, <2>1, <2>3, <2>4, <2>5
  <1>9. CASE Cut(f) /\ (\E n \in Decoded(f, 2 * (Limit \div 2)) : bytes' = bytes + n + Marker)
             /\ elided' = elided \cup {f}
             /\ (\E lost, broken \in SUBSET {f} : blind' = blind \cup lost /\ unparsed' = unparsed \cup broken)
             /\ gaps' = gaps \cup {"truncated"} \cup (IF f = Manifest THEN {"manifest"} ELSE {})
             /\ plan' = plan
    <2>1. 2 * (Limit \div 2) \in Nat /\ 2 * (Limit \div 2) <= Limit BY <1>6
    <2>2. bytes' \in Nat /\ bytes' <= 3 * package.maxTotal + Marker
      <3>1. PICK n \in Decoded(f, 2 * (Limit \div 2)) : bytes' = bytes + n + Marker BY <1>9
      <3> QED BY <1>a, <2>1, <3>1
    <2>3. gaps' # {} /\ gaps \subseteq gaps' BY <1>9
    <2>4. blind' \subseteq elided' /\ unparsed' \subseteq elided' \cup package.unparsable BY <1>7, <1>9
    <2> QED BY <1>1, <1>2, <1>9, <2>2, <2>3, <2>4
  <1> QED BY <1>8, <1>9 DEF ReadFile

LEMMA ReadFileKeeps == ASSUME CollectionInv, NEW f \in Names, ReadFile(f) PROVE CollectionInv'
  <1>1. /\ Visits(f) /\ visited' = visited \cup {f} /\ readOrder' = Append(readOrder, f) /\ ~Full
        /\ package' = package /\ expanded' = expanded /\ phase' = phase
        /\ gaps \subseteq gaps'
        /\ elided \subseteq elided' /\ elided' \subseteq elided \cup {f}
        /\ blind' \subseteq elided' /\ unparsed' \subseteq elided' \cup package.unparsable
        /\ bytes' \in Nat /\ bytes' <= 3 * package.maxTotal + Marker
        /\ gaps' = {} => elided' = elided
        /\ f = Manifest /\ gaps' = {} => plan' = ManifestPlan(plan)
        /\ plan' # plan => f = Manifest /\ plan' = ManifestPlan(plan)
    BY ReadFileIs
  <1>a. at' = 1 BY ReadFileIs
  <1>2. read' = read \cup {f}
    <2>1. readOrder \in Seq(Names) BY DEF CollectionInv, CollectionTypes
    <2>2. ToSet(Append(readOrder, f)) = ToSet(readOrder) \cup {f} BY <2>1, ToSetAppend
    <2> QED BY <1>1, <2>2 DEF read
  <1>3. /\ Inventory' = Inventory /\ Pending' = Pending /\ Edges' = Edges
        /\ Roots' = Roots /\ Hooked' = Hooked /\ Links' = Links
    BY <1>1, PackageStays
  <1>4. f \in Inventory /\ f \notin visited /\ f \notin read /\ phase = "pass" /\ package \in Packages
    BY <1>1, VisitKnows DEF EndOfPass, CollectionInv, CollectionTypes
  <1>5. plan \in PlanType BY DEF CollectionInv, CollectionTypes
  <1>6. plan' \in PlanType /\ Extends(plan, plan')
    <2>1. CASE plan' = plan
      <3>1. Len(plan.required) \in Nat BY <1>5 DEF PlanType
      <3>2. Extends(plan, plan) BY <3>1 DEF Extends
      <3> QED BY <1>5, <2>1, <3>2
    <2>2. CASE plan' # plan BY <1>1, <1>4, <1>5, <2>2, ManifestPlanGrows
    <2> QED BY <2>1, <2>2
  <1>7. RequiredBy(plan) \subseteq RequiredBy(plan') BY <1>5, <1>6, ExtendsKeeps
  <1>8. Unmarred' => Unmarred BY <1>1, <1>6 DEF Unmarred, Extends
  <1>9. f # Manifest => plan' = plan BY <1>1
  <1>10. f = Manifest => plan.required = << >> /\ RequiredBy(plan) = {} /\ plan.install = {}
    <2> SUFFICES ASSUME f = Manifest
                 PROVE  plan.required = << >> /\ RequiredBy(plan) = {} /\ plan.install = {}
      OBVIOUS
    <2>1. plan.required = << >> BY <1>4 DEF CollectionInv, PlanFits
    <2>2. ToSet(<< >>) = {} BY DEF ToSet
    <2> QED BY <2>1, <2>2 DEF RequiredBy, CollectionInv, PlanFits
  <1>11. CollectionTypes'
    <2>1. at' \in Nat \ {0} /\ cursor' \in Nat \ {0} BY <1>1, <1>a, VisitKnows
    <2>2. readOrder' \in Seq(Names) BY <1>1 DEF CollectionInv, CollectionTypes
    <2> QED BY <1>1, <1>6, <2>1, <2>2 DEF CollectionInv, CollectionTypes
  <1>12. PlanFits'
    <2>1. CASE plan' = plan
      <3>1. Manifest \notin read' => plan'.required = << >>
        BY <1>2, <2>1 DEF CollectionInv, PlanFits
      <3> QED BY <1>3, <2>1, <3>1 DEF CollectionInv, PlanFits
    <2>2. CASE plan' # plan
      <3>1. f = Manifest /\ plan' = ManifestPlan(plan) BY <1>1, <2>2
      <3>2. /\ RequiredBy(plan') \subseteq Inventory
            /\ plan'.install \subseteq Targets(package.hooks)
            /\ plan'.install \subseteq RequiredBy(plan')
        BY <1>4, <1>5, <1>10, <3>1, ManifestPlanGrows
      <3>3. Targets(package.hooks) \subseteq Hooked
        <4>1. Targets(package.hooks) \subseteq Names BY <1>4, EdgesAreNames, PackageFits
        <4> QED BY <4>1, RootsAreReached DEF Hooked
      <3>4. Manifest \in read' BY <1>2, <3>1
      <3> QED BY <1>3, <3>2, <3>3, <3>4 DEF PlanFits
    <2> QED BY <2>1, <2>2
  <1>13. ReadingFits'
    <2>1. /\ read' \subseteq visited' /\ visited' \subseteq Inventory
          /\ blind' \subseteq elided' /\ elided' \subseteq read'
          /\ unparsed' \subseteq elided' \cup package.unparsable
      BY <1>1, <1>2, <1>4 DEF CollectionInv, ReadingFits
    <2>2. gaps' = {} => Inventory = package.files /\ visited' = read' /\ elided' = {}
      BY <1>1, <1>2 DEF CollectionInv, ReadingFits
    <2>3. cursor' > 1 /\ Manifest \in Inventory => Manifest \in visited'
      BY <1>1, VisitKnows
    <2>4. \A m \in DOMAIN Pending : m < cursor' => Pending[m] \in visited' \/ Pending[m] \notin package.text
      BY <1>1, VisitKnows
    <2> QED BY <1>1, <1>3, <2>1, <2>2, <2>3, <2>4 DEF ReadingFits
  <1>14. FollowedFits'
    <2> SUFFICES ASSUME Unmarred'
                 PROVE  /\ Manifest \in read' => /\ Roots \subseteq RequiredBy(plan')
                                                /\ Targets(package.hooks) \subseteq plan'.install
                        /\ \A g \in Names :
                             /\ expanded[g] # "no" =>
                                  /\ g \in read' /\ g \in RequiredBy(plan') /\ Edges[g] \subseteq RequiredBy(plan')
                                  /\ \A n \in DOMAIN Links[g] : Links[g][n].to # {}
                             /\ expanded[g] = "install" => g \in plan'.install /\ Edges[g] \subseteq plan'.install
      BY <1>1, <1>3 DEF FollowedFits
    <2>1. Unmarred /\ gaps' = {} /\ plan'.gaps = {} BY <1>8 DEF Unmarred
    <2>2. ASSUME Manifest \in read'
          PROVE  Roots \subseteq RequiredBy(plan') /\ Targets(package.hooks) \subseteq plan'.install
      <3>1. CASE f = Manifest
        <4>1. plan' = ManifestPlan(plan) BY <1>1, <2>1, <3>1
        <4>2. Inventory = package.files BY <2>1 DEF CollectionInv, ReadingFits, Unmarred
        <4> QED BY <1>4, <1>5, <2>1, <4>1, <4>2, ManifestPlanGrows
      <3>2. CASE f # Manifest
        BY <1>2, <1>9, <2>1, <2>2, <3>2 DEF CollectionInv, FollowedFits
      <3> QED BY <3>1, <3>2
    <2>3. plan.install \subseteq plan'.install BY <1>6 DEF Extends
    <2> QED BY <1>2, <1>7, <2>1, <2>2, <2>3 DEF CollectionInv, FollowedFits
  <1>15. PassFits'
    <2> SUFFICES ASSUME Unmarred'
                 PROVE  /\ \A n \in DOMAIN plan'.required : ~(n < 1)
                        /\ cursor' > 2 =>
                             /\ \A g \in RequiredBy(plan') : g \in read' /\ expanded[g] # "no"
                             /\ Outdated' # {} => Cardinality(plan'.install) >= cursor' - 2
                             /\ OutdatedBefore' = {}
      BY <1>1, <1>a DEF PassFits
    <2>1. \A n \in DOMAIN plan'.required : ~(n < 1)
      <3>1. plan'.required \in Seq(Names) BY <1>6 DEF PlanType
      <3>2. DOMAIN plan'.required = 1 .. Len(plan'.required) /\ Len(plan'.required) \in Nat BY <3>1
      <3> QED BY <3>2
    <2>2. OutdatedBefore' = {} BY <1>a, <2>1 DEF OutdatedBefore
    <2>3. ASSUME cursor' > 2
          PROVE  /\ \A g \in RequiredBy(plan') : g \in read' /\ expanded[g] # "no"
                 /\ Outdated' # {} => Cardinality(plan'.install) >= cursor' - 2
      <3>1. /\ cursor' = cursor + 1 /\ Unvisited = {} /\ f # Manifest /\ EndOfPass /\ Unmarred
        BY <1>1, <1>8, <2>3, VisitKnows
      <3>2. plan' = plan BY <1>9, <3>1
      <3>3. Outdated' = Outdated BY <1>1, <3>2 DEF Outdated, Mode
      <3>4. cursor + 1 > 2 /\ (cursor + 1) - 2 = cursor - 1
        BY <2>3, <3>1 DEF CollectionInv, CollectionTypes
      <3>5. /\ \A g \in RequiredBy(plan) : g \in read /\ expanded[g] # "no"
            /\ Outdated # {} => Cardinality(plan.install) >= cursor - 1
        BY <3>1, <3>4, NextOptional
      <3> QED BY <1>2, <3>1, <3>2, <3>3, <3>4, <3>5
    <2> QED BY <2>1, <2>2, <2>3
  <1>16. CompleteFits' BY <1>1, <1>4 DEF CompleteFits, Complete
  <1>17. CoverageIsBounded'
    <2>1. package.maxFiles \in Nat BY <1>4, PackageFits DEF WellFormed
    <2>2. IsFiniteSet(read) BY RequiredAt, FS_Subset DEF CollectionInv
    <2>3. Cardinality(read \cup {f}) = Cardinality(read) + 1 /\ Cardinality(read) \in Nat
      BY <1>4, <2>2, FS_AddElement, FS_CardinalityType
    <2>4. ~(Cardinality(read) >= package.maxFiles) BY <1>1 DEF Full
    <2>5. Cardinality(read') <= package.maxFiles BY <1>2, <2>1, <2>3, <2>4
    <2> QED BY <1>1, <2>5 DEF CoverageIsBounded
  <1> QED BY <1>11, <1>12, <1>13, <1>14, <1>15, <1>16, <1>17 DEF CollectionInv

\* Following the links of a required file.
LEMMA ExpandIs ==
    ASSUME CollectionInv, Expand
    PROVE  \E f \in RequiredBy(plan) :
              /\ f = plan.required[at] /\ f \in Inventory /\ f \in read /\ expanded[f] # Mode(f)
              /\ expanded' = [expanded EXCEPT ![f] = Mode(f)]
              /\ plan' \in PlanType /\ Extends(plan, plan')
              /\ RequiredBy(plan') \subseteq RequiredBy(plan) \cup (Edges[f] \cap Inventory)
              /\ plan'.install \subseteq plan.install \cup Edges[f]
              /\ f \notin plan.install => plan'.install = plan.install
              /\ plan'.install \subseteq RequiredBy(plan')
              /\ Unmarred' => /\ Edges[f] \subseteq RequiredBy(plan')
                              /\ f \in plan.install => Edges[f] \subseteq plan'.install
                              /\ \A n \in DOMAIN Links[f] : Links[f][n].to # {}
  <1> DEFINE f == plan.required[at]
             links == LinksRead(f)
             install == Mode(f) = "install"
  <1>1. /\ f \in read /\ expanded[f] # Mode(f) /\ plan' = ResolveAll(plan, links, install)
        /\ expanded' = [expanded EXCEPT ![f] = Mode(f)]
        /\ gaps' = gaps /\ package' = package
    BY DEF Expand, Stale
  <1>2. at \in DOMAIN plan.required
    <2>1. at \in Nat \ {0} /\ at <= Len(plan.required) BY DEF Expand, CollectionInv, CollectionTypes
    <2> QED BY <2>1, RequiredAt DEF CollectionInv
  <1>3. f \in RequiredBy(plan) BY <1>2, RequiredAt DEF CollectionInv
  <1>4. f \in Inventory /\ plan \in PlanType /\ package \in Packages
    BY <1>3 DEF CollectionInv, PlanFits, CollectionTypes
  <1>5. f \in package.files /\ f \in Names BY <1>4, PackageFits
  <1>6. /\ Links[f] \in Seq(LinkType(package.files))
        /\ package.imports[f] \in Seq(LinkType(package.files))
        /\ package.starts[f] \in Seq(LinkType(package.files))
        /\ Links[f] = package.imports[f] \o package.starts[f]
        /\ f \in package.unparsable => package.starts[f] = << >>
    BY <1>4, <1>5, PackageFits, EdgesAreNames DEF WellFormed, Links
  <1>7. Edges[f] = Targets(Links[f]) BY <1>5 DEF Edges
  <1>8. links \in Seq(LinkType(package.files)) /\ Targets(links) \subseteq Edges[f]
    <2>1. CASE f \in blind
      <3>1. links = << >> BY <2>1 DEF LinksRead
      <3>2. Targets(<< >>) = {} BY DEF Targets
      <3>3. << >> \in Seq(LinkType(package.files)) OBVIOUS
      <3> HIDE DEF links
      <3> QED BY <3>1, <3>2, <3>3
    <2>2. CASE f \notin blind /\ f \in unparsed
      <3>1. links = package.imports[f] BY <2>2 DEF LinksRead
      <3> DEFINE imported == package.imports[f]
                 all == imported \o package.starts[f]
      <3>2. /\ imported \in Seq(LinkType(package.files)) /\ package.starts[f] \in Seq(LinkType(package.files))
            /\ Links[f] = all
        BY <1>6
      <3> HIDE DEF links, imported
      <3>3. /\ Len(imported) \in Nat /\ DOMAIN imported = 1 .. Len(imported)
            /\ Len(package.starts[f]) \in Nat
        BY <3>2
      <3>4. /\ all \in Seq(LinkType(package.files))
            /\ Len(all) = Len(imported) + Len(package.starts[f])
            /\ \A n \in 1 .. Len(imported) : all[n] = imported[n]
        BY <3>2, ConcatProperties
      <3> HIDE DEF all
      <3>5. \A n \in DOMAIN imported : n \in DOMAIN all /\ all[n] = imported[n] BY <3>3, <3>4
      <3>6. Targets(imported) \subseteq Targets(all) BY <3>5 DEF Targets
      <3> QED BY <1>7, <3>1, <3>2, <3>6 DEF imported
    <2>3. CASE f \notin blind /\ f \notin unparsed
      <3>1. links = Links[f] BY <1>6, <2>3 DEF LinksRead
      <3> HIDE DEF links
      <3> QED BY <1>6, <1>7, <3>1
    <2> QED BY <2>1, <2>2, <2>3
  <1>9. install \in BOOLEAN /\ (install <=> f \in plan.install) BY DEF Mode
  <1> HIDE DEF f, links, install
  <1>10. /\ plan' \in PlanType
         /\ Grows(plan, plan', Targets(links) \cap Inventory, install)
         /\ plan'.gaps = {} => \A n \in DOMAIN links : links[n].to \cap Inventory # {}
    BY <1>1, <1>4, <1>8, <1>9, ResolveAllGrows
  <1>11. Extends(plan, plan') BY <1>10 DEF Grows
  <1>12. RequiredBy(plan') \subseteq RequiredBy(plan) \cup (Edges[f] \cap Inventory) BY <1>8, <1>10 DEF Grows
  <1>13. /\ plan'.install \subseteq plan.install \cup Edges[f]
         /\ f \notin plan.install => plan'.install = plan.install
    BY <1>8, <1>9, <1>10 DEF Grows
  <1>14. plan'.install \subseteq RequiredBy(plan') BY <1>10 DEF Grows, CollectionInv, PlanFits
  <1>15. ASSUME Unmarred'
         PROVE  /\ Edges[f] \subseteq RequiredBy(plan')
                /\ f \in plan.install => Edges[f] \subseteq plan'.install
                /\ \A n \in DOMAIN Links[f] : Links[f][n].to # {}
    <2>1. gaps = {} /\ plan'.gaps = {} BY <1>1, <1>15 DEF Unmarred
    <2>2. Inventory = package.files /\ f \notin blind /\ (f \in unparsed => f \in package.unparsable)
      BY <2>1 DEF CollectionInv, ReadingFits
    <2>3. links = Links[f]
      <3>1. CASE f \in unparsed
        <4>1. links = package.imports[f] BY <2>2, <3>1 DEF links, LinksRead
        <4>2. Links[f] = package.imports[f] \o << >> BY <1>6, <2>2, <3>1
        <4> QED BY <1>6, <4>1, <4>2, ConcatEmptySeq
      <3>2. CASE f \notin unparsed BY <1>6, <2>2, <3>2 DEF links, LinksRead
      <3> QED BY <3>1, <3>2
    <2>4. Targets(links) = Edges[f] /\ Edges[f] \subseteq Inventory
      BY <1>4, <1>5, <1>7, <2>2, <2>3, EdgesAreNames
    <2>5. Edges[f] \subseteq RequiredBy(plan') /\ (f \in plan.install => Edges[f] \subseteq plan'.install)
      BY <1>9, <1>10, <2>1, <2>4 DEF Grows
    <2>6. \A n \in DOMAIN Links[f] : Links[f][n].to # {} BY <1>10, <2>1, <2>3
    <2> QED BY <2>5, <2>6
  <1> QED BY <1>1, <1>3, <1>4, <1>10, <1>11, <1>12, <1>13, <1>14, <1>15 DEF f

LEMMA ExpandKeeps == ASSUME CollectionInv, Expand PROVE CollectionInv'
  <1>1. PICK f \in RequiredBy(plan) :
              /\ f = plan.required[at] /\ f \in Inventory /\ f \in read /\ expanded[f] # Mode(f)
              /\ expanded' = [expanded EXCEPT ![f] = Mode(f)]
              /\ plan' \in PlanType /\ Extends(plan, plan')
              /\ RequiredBy(plan') \subseteq RequiredBy(plan) \cup (Edges[f] \cap Inventory)
              /\ plan'.install \subseteq plan.install \cup Edges[f]
              /\ f \notin plan.install => plan'.install = plan.install
              /\ plan'.install \subseteq RequiredBy(plan')
              /\ Unmarred' => /\ Edges[f] \subseteq RequiredBy(plan')
                              /\ f \in plan.install => Edges[f] \subseteq plan'.install
                              /\ \A n \in DOMAIN Links[f] : Links[f][n].to # {}
    BY ExpandIs
  <1>2. /\ phase = "pass" /\ at <= Len(plan.required)
        /\ package' = package /\ readOrder' = readOrder /\ elided' = elided
        /\ blind' = blind /\ unparsed' = unparsed /\ visited' = visited
        /\ cursor' = cursor /\ bytes' = bytes /\ gaps' = gaps /\ phase' = phase
    BY DEF Expand
  <1>a. at' = at + 1 BY DEF Expand
  <1>3. read' = read BY <1>2 DEF read
  <1>4. /\ Inventory' = Inventory /\ Pending' = Pending /\ Edges' = Edges
        /\ Roots' = Roots /\ Hooked' = Hooked /\ Links' = Links
    BY <1>2, PackageStays
  <1>5. plan \in PlanType /\ package \in Packages /\ f \in Names /\ at \in Nat \ {0}
    BY <1>1, RequiredAt DEF CollectionInv, CollectionTypes
  <1>6. RequiredBy(plan) \subseteq RequiredBy(plan') BY <1>1, <1>5, ExtendsKeeps
  <1>7. Unmarred' => Unmarred BY <1>1, <1>2 DEF Unmarred, Extends
  <1>8. plan.install \subseteq plan'.install BY <1>1 DEF Extends
  <1>b. /\ expanded \in [Names -> {"no", "runtime", "install"}]
        /\ expanded'[f] = Mode(f) /\ \A g \in Names : g # f => expanded'[g] = expanded[g]
    BY <1>1, <1>5 DEF CollectionInv, CollectionTypes
  <1>9. CollectionTypes'
    <2>1. at' \in Nat \ {0} BY <1>a, <1>5
    <2>2. expanded' \in [Names -> {"no", "runtime", "install"}] BY <1>1, <1>b DEF Mode
    <2> QED BY <1>1, <1>2, <2>1, <2>2 DEF CollectionInv, CollectionTypes
  <1>10. PlanFits'
    <2>1. RequiredBy(plan') \subseteq Inventory BY <1>1 DEF CollectionInv, PlanFits
    <2>2. plan'.install \subseteq Hooked
      <3>1. CASE f \in plan.install
        <4>1. f \in Hooked BY <3>1 DEF CollectionInv, PlanFits
        <4>2. Edges[f] \subseteq Hooked BY <1>5, <4>1, ReachedIsClosed DEF Hooked
        <4> QED BY <1>1, <4>2 DEF CollectionInv, PlanFits
      <3>2. CASE f \notin plan.install BY <1>1, <3>2 DEF CollectionInv, PlanFits
      <3> QED BY <3>1, <3>2
    <2>3. Manifest \in read
      <3>1. plan.required # << >>
        <4>1. Len(<< >>) = 0 OBVIOUS
        <4> QED BY <1>2, <1>5, <4>1
      <3> QED BY <3>1 DEF CollectionInv, PlanFits
    <2> QED BY <1>1, <1>3, <1>4, <2>1, <2>2, <2>3 DEF PlanFits
  <1>11. ReadingFits' BY <1>2, <1>3, <1>4 DEF CollectionInv, ReadingFits
  <1>12. FollowedFits'
    <2> SUFFICES ASSUME Unmarred'
                 PROVE  /\ Manifest \in read => /\ Roots \subseteq RequiredBy(plan')
                                               /\ Targets(package.hooks) \subseteq plan'.install
                        /\ \A g \in Names :
                             /\ expanded'[g] # "no" =>
                                  /\ g \in read /\ g \in RequiredBy(plan') /\ Edges[g] \subseteq RequiredBy(plan')
                                  /\ \A n \in DOMAIN Links[g] : Links[g][n].to # {}
                             /\ expanded'[g] = "install" => g \in plan'.install /\ Edges[g] \subseteq plan'.install
      BY <1>2, <1>3, <1>4 DEF FollowedFits
    <2>1. Unmarred BY <1>7
    <2>2. ASSUME NEW g \in Names
          PROVE  /\ expanded'[g] # "no" =>
                      /\ g \in read /\ g \in RequiredBy(plan') /\ Edges[g] \subseteq RequiredBy(plan')
                      /\ \A n \in DOMAIN Links[g] : Links[g][n].to # {}
                 /\ expanded'[g] = "install" => g \in plan'.install /\ Edges[g] \subseteq plan'.install
      <3>1. CASE g = f
        <4>1. expanded'[g] = "install" => f \in plan.install BY <1>b, <3>1 DEF Mode
        <4> QED BY <1>1, <1>6, <1>8, <3>1, <4>1
      <3>2. CASE g # f
        <4>1. expanded'[g] = expanded[g] BY <1>b, <3>2
        <4> QED BY <1>6, <1>8, <2>1, <4>1 DEF CollectionInv, FollowedFits
      <3> QED BY <3>1, <3>2
    <2>3. Manifest \in read => Roots \subseteq RequiredBy(plan') /\ Targets(package.hooks) \subseteq plan'.install
      BY <1>6, <1>8, <2>1 DEF CollectionInv, FollowedFits
    <2> QED BY <2>2, <2>3
  <1>13. PassFits'
    <2> SUFFICES ASSUME Unmarred'
                 PROVE  /\ \A n \in DOMAIN plan'.required :
                             n < at + 1 /\ plan'.required[n] \in read => expanded'[plan'.required[n]] # "no"
                        /\ cursor > 2 =>
                             /\ \A g \in RequiredBy(plan') : g \in read /\ expanded'[g] # "no"
                             /\ Outdated' # {} => Cardinality(plan'.install) >= cursor - 2
                             /\ OutdatedBefore' # {} => Cardinality(plan'.install) >= cursor - 1
      BY <1>2, <1>a, <1>3 DEF PassFits
    <2>1. Unmarred BY <1>7
    <2>2. /\ Len(plan.required) \in Nat /\ DOMAIN plan.required = 1 .. Len(plan.required)
          /\ \A n \in DOMAIN plan.required : plan.required[n] \in RequiredBy(plan)
          /\ RequiredBy(plan) \subseteq Names
      BY RequiredAt DEF CollectionInv
    <2>3. /\ DOMAIN plan'.required = 1 .. Len(plan'.required)
          /\ \A n \in 1 .. Len(plan.required) : plan'.required[n] = plan.required[n]
          /\ Len(plan'.required) \in Nat
      BY <1>1 DEF Extends, PlanType
    <2>a. Mode(f) # "no" BY DEF Mode
    <2>4. ASSUME NEW n \in DOMAIN plan'.required, n < at + 1, plan'.required[n] \in read
          PROVE  expanded'[plan'.required[n]] # "no"
      <3>1. n \in DOMAIN plan.required /\ plan'.required[n] = plan.required[n] /\ (n < at \/ n = at)
        BY <1>2, <1>5, <2>2, <2>3, <2>4
      <3> DEFINE g == plan.required[n]
      <3>2. g \in Names BY <2>2, <3>1
      <3>3. CASE g = f BY <1>b, <2>a, <3>1, <3>3
      <3>4. CASE g # f
        <4>1. n < at BY <1>1, <3>1, <3>4
        <4>2. expanded[g] # "no" BY <2>1, <2>4, <3>1, <4>1 DEF CollectionInv, PassFits
        <4> QED BY <1>b, <3>1, <3>2, <3>4, <4>2
      <3> QED BY <3>3, <3>4
    <2>5. ASSUME cursor > 2
          PROVE  /\ \A g \in RequiredBy(plan') : g \in read /\ expanded'[g] # "no"
                 /\ Outdated' # {} => Cardinality(plan'.install) >= cursor - 2
                 /\ OutdatedBefore' # {} => Cardinality(plan'.install) >= cursor - 1
      <3>1. \A g \in RequiredBy(plan) : g \in read /\ expanded[g] # "no"
        BY <2>1, <2>5 DEF CollectionInv, PassFits
      <3>2. Edges[f] \subseteq RequiredBy(plan)
        BY <1>5, <2>1, <3>1 DEF CollectionInv, FollowedFits
      <3>3. RequiredBy(plan') = RequiredBy(plan) BY <1>1, <1>6, <3>2
      <3>4. \A g \in RequiredBy(plan') : g \in read /\ expanded'[g] # "no"
        BY <1>b, <2>2, <2>a, <3>1, <3>3
      <3>5. f \in plan.install
        <4>1. expanded[f] \in {"runtime", "install"} BY <1>b, <1>5, <3>1
        <4>2. expanded[f] = "install" => f \in plan.install
          BY <1>5, <2>1 DEF CollectionInv, FollowedFits
        <4> QED BY <1>1, <4>1, <4>2 DEF Mode
      <3>6. f \in Outdated BY <1>1 DEF Outdated
      <3>7. Cardinality(plan.install) >= cursor - 2
        BY <2>1, <2>5, <3>6 DEF CollectionInv, PassFits
      <3>8. plan'.install \subseteq Names BY <1>1 DEF PlanType
      <3>9. /\ IsFiniteSet(plan'.install) /\ Cardinality(plan'.install) \in Nat
            /\ IsFiniteSet(plan.install) /\ Cardinality(plan.install) \in Nat
        <4>1. IsFiniteSet(Names) BY RequiredAt DEF CollectionInv
        <4> QED BY <1>8, <3>8, <4>1, FS_Subset, FS_CardinalityType
      <3>10. Cardinality(plan.install) <= Cardinality(plan'.install)
        BY <1>8, <3>9, FS_Subset
      <3>b. cursor \in Nat BY DEF CollectionInv, CollectionTypes
      <3>11. Cardinality(plan'.install) >= cursor - 2 BY <3>7, <3>9, <3>10, <3>b
      <3>12. ASSUME OutdatedBefore' # {} PROVE Cardinality(plan'.install) >= cursor - 1
        <4>1. PICK g \in OutdatedBefore' : TRUE BY <3>12
        <4>2. PICK n \in DOMAIN plan'.required : n < at + 1 /\ plan'.required[n] = g
          BY <1>a, <4>1 DEF OutdatedBefore
        <4>3. g \in RequiredBy(plan') /\ expanded'[g] # Mode(g)' BY <4>1 DEF OutdatedBefore, Outdated
        <4>4. g # f
          <5> SUFFICES ASSUME g = f PROVE FALSE OBVIOUS
          <5>1. f \in plan'.install BY <1>8, <3>5
          <5>2. Mode(g)' = "install" BY <5>1 DEF Mode
          <5>3. Mode(f) = "install" BY <3>5 DEF Mode
          <5> QED BY <1>b, <4>3, <5>2, <5>3
        <4>5. n \in DOMAIN plan.required /\ plan.required[n] = g /\ n < at
          <5>1. n \in DOMAIN plan.required /\ (n < at \/ n = at) BY <1>2, <1>5, <2>2, <2>3, <4>2
          <5>2. plan.required[n] = g BY <2>2, <2>3, <4>2, <5>1
          <5> QED BY <1>1, <4>4, <5>1, <5>2
        <4>6. g \in Names /\ expanded'[g] = expanded[g] BY <1>b, <2>2, <3>3, <4>3, <4>4
        <4>7. CASE g \in plan'.install /\ g \notin plan.install
          <5>1. plan.install # plan'.install BY <4>7
          <5>2. Cardinality(plan.install) < Cardinality(plan'.install)
            BY <1>8, <3>9, <5>1, FS_Subset
          <5> QED BY <3>7, <3>9, <3>b, <5>2
        <4>8. CASE ~(g \in plan'.install /\ g \notin plan.install)
          <5>1. Mode(g)' = Mode(g) BY <1>8, <4>8 DEF Mode
          <5>2. g \in Outdated BY <3>3, <4>3, <4>6, <5>1 DEF Outdated
          <5>3. g \in OutdatedBefore BY <4>5, <5>2 DEF OutdatedBefore
          <5>4. Cardinality(plan.install) >= cursor - 1
            BY <2>1, <2>5, <5>3 DEF CollectionInv, PassFits
          <5> QED BY <3>9, <3>10, <3>b, <5>4
        <4> QED BY <4>7, <4>8
      <3> QED BY <3>4, <3>11, <3>12
    <2> QED BY <2>4, <2>5
  <1>14. CompleteFits' BY <1>2 DEF CompleteFits, Complete
  <1>15. CoverageIsBounded' BY <1>2, <1>3 DEF CollectionInv, CoverageIsBounded
  <1> QED BY <1>9, <1>10, <1>11, <1>12, <1>13, <1>14, <1>15 DEF CollectionInv

LEMMA FinishKeeps == ASSUME CollectionInv, Finish PROVE CollectionInv'
  <1>1. /\ EndOfPass /\ ~MoreToDo /\ phase' = "done"
        /\ gaps' = gaps \cup plan.gaps \cup (IF Uninspected = {} THEN {} ELSE {"not inspected"})
                        \cup (IF Opaque = {} THEN {} ELSE {"binary"})
        /\ package' = package /\ plan' = plan /\ readOrder' = readOrder /\ elided' = elided
        /\ blind' = blind /\ unparsed' = unparsed /\ visited' = visited /\ expanded' = expanded /\ at' = at
        /\ cursor' = cursor /\ bytes' = bytes
    BY DEF Finish
  <1>2. read' = read BY <1>1 DEF read
  <1>3. /\ Inventory' = Inventory /\ Pending' = Pending /\ Edges' = Edges
        /\ Roots' = Roots /\ Hooked' = Hooked /\ Links' = Links
    BY <1>1, PackageStays
  <1>4. Outdated' = Outdated /\ OutdatedBefore' = OutdatedBefore
    BY <1>1 DEF Outdated, OutdatedBefore, Mode
  <1>5. gaps' = {} => gaps = {} /\ plan.gaps = {} /\ Uninspected = {} /\ Opaque = {} BY <1>1
  <1>6. Unmarred' => Unmarred BY <1>1, <1>5 DEF Unmarred
  <1>7. CollectionTypes' BY <1>1 DEF CollectionInv, CollectionTypes
  <1>8. PlanFits' BY <1>1, <1>2, <1>3 DEF CollectionInv, PlanFits
  <1>9. ReadingFits'
    <2>1. gaps' = {} => Inventory = package.files /\ visited = read /\ elided = {}
      BY <1>5 DEF CollectionInv, ReadingFits
    <2> QED BY <1>1, <1>2, <1>3, <2>1 DEF CollectionInv, ReadingFits
  <1>10. FollowedFits' BY <1>1, <1>2, <1>3, <1>6 DEF CollectionInv, FollowedFits
  <1>11. PassFits' BY <1>1, <1>2, <1>4, <1>6 DEF CollectionInv, PassFits
  <1>12. CompleteFits'
    <2> SUFFICES ASSUME gaps' = {}
                 PROVE  /\ plan.gaps = {}
                        /\ package.text \subseteq read
                        /\ RequiredBy(plan) \subseteq read /\ RequiredBy(plan) \cap package.binary = {}
                        /\ Manifest \in package.files => Manifest \in read /\ Outdated = {}
                        /\ \A f \in RequiredBy(plan) : expanded[f] # "no"
      BY <1>1, <1>2, <1>4 DEF CompleteFits, Complete
    <2>1. gaps = {} /\ plan.gaps = {} /\ Unmarred /\ Uninspected = {} /\ Opaque = {}
      BY <1>5 DEF Unmarred
    <2>2. Unvisited = {} /\ ~(cursor <= Len(Pending)) BY <1>1 DEF MoreToDo, MoreRequired, NextIsOptional
    <2>3. package \in Packages /\ cursor \in Nat BY DEF CollectionInv, CollectionTypes
    <2>4. Inventory = package.files /\ visited = read BY <2>1 DEF CollectionInv, ReadingFits
    <2>5. package.text \subseteq package.files /\ (Manifest \in package.files => Manifest \in package.text)
      BY <2>3, PackageFits DEF WellFormed
    <2>6. package.text \subseteq read
      <3> SUFFICES ASSUME NEW f \in package.text PROVE f \in read OBVIOUS
      <3>1. PICK m \in DOMAIN Pending : Pending[m] = f BY <2>3, <2>4, <2>5, PendingIs
      <3>2. m < cursor
        <4>1. DOMAIN Pending = 1 .. Len(Pending) /\ Len(Pending) \in Nat BY <2>3, PendingIs
        <4> QED BY <2>2, <2>3, <4>1
      <3> QED BY <2>4, <3>1, <3>2 DEF CollectionInv, ReadingFits
    <2>7. RequiredBy(plan) \subseteq read /\ RequiredBy(plan) \cap package.binary = {}
      BY <2>1 DEF Uninspected, Opaque, RequiredBy
    <2>8. \A f \in RequiredBy(plan) : expanded[f] # "no" BY <1>1, <2>1, <2>2, PassEnds
    <2>9. ASSUME Manifest \in package.files, Outdated # {} PROVE FALSE
      <3>1. OutdatedBefore # {} BY <1>1, <2>1, <2>2, <2>9, PassEnds
      <3>2. Len(Pending) >= Cardinality(Inventory) + 1 /\ Len(Pending) >= 2 /\ Len(Pending) \in Nat
        BY <2>3, <2>4, <2>9, PendingIs
      <3>3. cursor > 2 BY <2>2, <2>3, <3>2
      <3>4. Cardinality(plan.install) >= cursor - 1
        BY <2>1, <3>1, <3>3 DEF CollectionInv, PassFits
      <3>5. plan.install \subseteq Inventory BY DEF CollectionInv, PlanFits
      <3>6. IsFiniteSet(Inventory)
        <4>1. IsFiniteSet(Names) BY RequiredAt DEF CollectionInv
        <4>2. Inventory \subseteq Names BY <2>3, PackageFits
        <4> QED BY <4>1, <4>2, FS_Subset
      <3>7. /\ Cardinality(plan.install) <= Cardinality(Inventory)
            /\ Cardinality(plan.install) \in Nat /\ Cardinality(Inventory) \in Nat
        BY <3>5, <3>6, FS_Subset, FS_CardinalityType
      <3> QED BY <2>2, <2>3, <3>2, <3>4, <3>7
    <2> QED BY <2>1, <2>5, <2>6, <2>7, <2>8, <2>9
  <1>13. CoverageIsBounded' BY <1>1, <1>2 DEF CollectionInv, CoverageIsBounded
  <1> QED BY <1>7, <1>8, <1>9, <1>10, <1>11, <1>12, <1>13 DEF CollectionInv

LEMMA CollectionKeeps == ASSUME CollectionInv, CollectStep PROVE CollectionInv'
  BY ExpandKeeps, PassKeeps, SkipKeeps, FinishKeeps, RefuseKeeps, ReadFileKeeps DEF CollectStep

\* The invariant says what complete coverage means.
LEMMA CompleteCoverage ==
    ASSUME CollectionInv
    PROVE  /\ CompleteIsWhole /\ InstallTimeIsClosed
           /\ Complete => ReachableFrom(Roots) \subseteq RequiredBy(plan)
  <1>1. package \in Packages /\ RequiredBy(plan) \subseteq Names /\ plan.install \subseteq Names
    BY RequiredAt DEF CollectionInv, CollectionTypes
  <1>2. ASSUME Complete
        PROVE  /\ Unmarred /\ elided = {} /\ package.text \subseteq read
               /\ Inventory = package.files /\ RequiredBy(plan) \subseteq read
               /\ RequiredBy(plan) \cap package.binary = {}
               /\ Manifest \in package.files => Manifest \in read /\ Outdated = {}
               /\ \A f \in RequiredBy(plan) : expanded[f] # "no"
    BY <1>2 DEF CollectionInv, CompleteFits, ReadingFits, Unmarred, Complete
  <1>3. ASSUME Complete PROVE ReachableFrom(Roots) \subseteq RequiredBy(plan)
    <2>1. Roots \subseteq RequiredBy(plan)
      <3>1. CASE Manifest \in package.files
        BY <1>2, <1>3, <3>1 DEF CollectionInv, FollowedFits
      <3>2. CASE Manifest \notin package.files BY <3>2 DEF Roots
      <3> QED BY <3>1, <3>2
    <2>2. Closed(RequiredBy(plan))
      BY <1>1, <1>2, <1>3 DEF Closed, CollectionInv, FollowedFits
    <2> QED BY <1>1, <2>1, <2>2, ReachedIsLeast
  <1>4. ASSUME Complete PROVE \A f \in RequiredBy(plan) : \A n \in DOMAIN Links[f] : Links[f][n].to # {}
    BY <1>1, <1>2, <1>4 DEF CollectionInv, FollowedFits
  <1>5. CompleteIsWhole BY <1>2, <1>3, <1>4 DEF CompleteIsWhole
  <1>6. ASSUME Complete, Manifest \in package.files PROVE plan.install = Hooked
    <2>1. Targets(package.hooks) \subseteq plan.install
      BY <1>2, <1>6 DEF CollectionInv, FollowedFits
    <2>2. ASSUME NEW f \in plan.install PROVE Edges[f] \subseteq plan.install
      <3>1. f \in RequiredBy(plan) BY DEF CollectionInv, PlanFits
      <3>2. expanded[f] = Mode(f) BY <1>2, <1>6, <3>1 DEF Outdated
      <3>3. expanded[f] = "install" BY <3>2 DEF Mode
      <3> QED BY <1>1, <1>2, <1>6, <3>3 DEF CollectionInv, FollowedFits
    <2>3. Closed(plan.install) BY <2>2 DEF Closed
    <2>4. Hooked \subseteq plan.install BY <1>1, <2>1, <2>3, ReachedIsLeast DEF Hooked
    <2> QED BY <2>4 DEF CollectionInv, PlanFits
  <1>7. InstallTimeIsClosed BY <1>6 DEF InstallTimeIsClosed, Hooked
  <1> QED BY <1>3, <1>5, <1>7

-----------------------------------------------------------------------------
(* The graph's worklist.                                                     *)

\* What a file imports or starts, of what was read.
Linked(f) == Imports(f) \cup Started(f)

GraphTypes ==
    /\ queue \in Seq(Names) /\ next \in Nat \ {0}
    /\ runtime \subseteq Names /\ state \in [Names -> SUBSET {"new", "install", "lifecycle"}]
    /\ graph \in {"idle", "walk", "done"}
    /\ graph = "idle" => next = 1 /\ graphGaps = {} /\ over = {} /\ \A f \in Names : state[f] = {"new"}
    /\ graph # "idle" => phase = "done"

\* Every file that runs is in the worklist, once more since its flags last changed unless it was
\* followed with them; a file that was followed passed its flags on.
Waiting(f) == \E n \in DOMAIN queue : next <= n /\ queue[n] = f
WalkFits ==
    /\ installTime \subseteq runtime /\ lifecycle \subseteq runtime
    /\ \A n \in DOMAIN queue : queue[n] \in runtime
    /\ \A f \in Names : state[f] # {"new"} => f \in runtime
    /\ over # {} => graphGaps # {}
    /\ graph # "idle" /\ graphGaps = {} => \A f \in runtime :
          /\ state[f] = Flags(f) \/ Waiting(f)
          /\ f \in read /\ state[f] # {"new"} =>
                /\ Linked(f) \subseteq runtime
                /\ "install" \in state[f] => Linked(f) \subseteq installTime
                /\ "lifecycle" \in state[f] => Linked(f) \subseteq lifecycle
    /\ graph = "done" /\ graphGaps = {} => \A f \in runtime : state[f] = Flags(f)

GraphInv == GraphTypes /\ WalkFits

LEMMA LinksStay ==
    ASSUME UNCHANGED collection
    PROVE  read' = read /\ phase' = phase /\ \A f : Linked(f)' = Linked(f)
  <1>1. /\ package' = package /\ readOrder' = readOrder /\ blind' = blind /\ unparsed' = unparsed
        /\ phase' = phase
    BY DEF collection
  <1>2. read' = read BY <1>1 DEF read
  <1>3. \A f : Linked(f)' = Linked(f)
    BY <1>1, <1>2 DEF Linked, Imports, Started, First, StartsOf, Parsed
  <1> QED BY <1>1, <1>2, <1>3

LEMMA LinkedIsRead == \A f : Linked(f) \subseteq read
  BY DEF Linked, Imports, Started, First

LEMMA WalkIsMonotone ==
    ASSUME NEW A, NEW B, A \subseteq B PROVE Walk(A) \subseteq Walk(B)
  BY DEF Walk, Below

LEMMA SeedsAreFiles ==
    ASSUME package \in Packages
    PROVE  /\ Seeds(package.hooks) \subseteq Names
           /\ ScriptSeeds \cup EntrySeeds \subseteq Names \cup read
  <1>1. /\ package.entries \in Seq(LinkType(package.files))
        /\ package.hooks \in Seq(LinkType(package.files))
        /\ package.scripts \in Seq(LinkType(package.files))
    BY PackageFits DEF WellFormed
  <1>2. ASSUME NEW links \in Seq(LinkType(package.files)) PROVE Seeds(links) \subseteq Names
    <2>1. DOMAIN links = 1 .. Len(links) /\ \A n \in 1 .. Len(links) : links[n] \in LinkType(package.files)
      OBVIOUS
    <2>2. \A l \in ToSet(links) : l.audit \in Seq(Names) BY <2>1 DEF ToSet, LinkType
    <2>3. ASSUME NEW l \in ToSet(links) PROVE ToSet(l.audit) \subseteq Names
      <3>1. DOMAIN l.audit = 1 .. Len(l.audit) /\ \A n \in 1 .. Len(l.audit) : l.audit[n] \in Names BY <2>2
      <3> QED BY <3>1 DEF ToSet
    <2>4. CASE ManifestSeen BY <2>3, <2>4 DEF Seeds
    <2>5. CASE ~ManifestSeen BY <2>5 DEF Seeds
    <2> QED BY <2>4, <2>5
  <1>3. EntrySeeds \subseteq read BY DEF EntrySeeds, First
  <1> QED BY <1>1, <1>2, <1>3 DEF ScriptSeeds

LEMMA GraphStarts == ASSUME InitGraph PROVE GraphInv
  <1>1. /\ runtime = {} /\ installTime = {} /\ lifecycle = {} /\ queue = << >>
        /\ state = [f \in Names |-> {"new"}] /\ over = {} /\ graphGaps = {} /\ graph = "idle"
    BY DEF InitGraph
  <1>2. next = 1 BY DEF InitGraph
  <1>3. next \in Nat \ {0} BY <1>2
  <1>4. << >> \in Seq(Names) OBVIOUS
  <1>5. GraphTypes BY <1>1, <1>2, <1>3, <1>4 DEF GraphTypes
  <1>6. DOMAIN queue = {} BY <1>1
  <1> QED BY <1>1, <1>5, <1>6 DEF GraphInv, WalkFits

\* The collection is over when the graph begins.
LEMMA CollectionFirst ==
    ASSUME GraphInv, CollectStep, UNCHANGED graphVars PROVE GraphInv'
  <1>1. phase = "pass" BY DEF CollectStep, Expand, Pass, Skip, Finish, Refuse, ReadFile, Visit, Visits,
                              NextIsOptional, MoreRequired, EndOfPass
  <1>2. graph = "idle" BY <1>1 DEF GraphInv, GraphTypes
  <1>3. /\ runtime' = runtime /\ installTime' = installTime /\ lifecycle' = lifecycle /\ queue' = queue
        /\ next' = next /\ state' = state /\ over' = over /\ graphGaps' = graphGaps /\ graph' = graph
    BY DEF graphVars
  <1>4. GraphTypes' BY <1>2, <1>3 DEF GraphInv, GraphTypes
  <1>5. WalkFits' BY <1>2, <1>3 DEF GraphInv, WalkFits
  <1> QED BY <1>4, <1>5 DEF GraphInv

LEMMA GraphStays == ASSUME GraphInv, UNCHANGED <<collection, graphVars>> PROVE GraphInv'
  <1>1. read' = read /\ phase' = phase /\ \A f : Linked(f)' = Linked(f) BY LinksStay
  <1>2. /\ runtime' = runtime /\ installTime' = installTime /\ lifecycle' = lifecycle /\ queue' = queue
        /\ next' = next /\ state' = state /\ over' = over /\ graphGaps' = graphGaps /\ graph' = graph
    BY DEF graphVars
  <1>3. GraphTypes' BY <1>1, <1>2 DEF GraphInv, GraphTypes
  <1>4. \A f : Flags(f)' = Flags(f) /\ (Waiting(f)' <=> Waiting(f)) BY <1>2 DEF Flags, Waiting
  <1>5. WalkFits' BY <1>1, <1>2, <1>4 DEF GraphInv, WalkFits
  <1> QED BY <1>3, <1>5 DEF GraphInv

LEMMA StartGraphKeeps == ASSUME CollectionInv, GraphInv, StartGraph PROVE GraphInv'
  <1>1. /\ phase = "done" /\ graph = "idle" /\ graph' = "walk" /\ UNCHANGED collection
        /\ runtime' = Walk(ScriptSeeds \cup EntrySeeds) \cup ToSet(plan.required)
        /\ installTime' = Walk(Seeds(package.hooks)) \cup plan.install
        /\ lifecycle' = Walk(ScriptSeeds) \cup plan.install
        /\ queue' = InOrder(runtime')
        /\ next' = next /\ state' = state /\ over' = over /\ graphGaps' = graphGaps
    BY DEF StartGraph
  <1>2. read' = read /\ phase' = phase BY <1>1, LinksStay
  <1>3. package \in Packages /\ Order \in Seq(STRING) /\ package.files \subseteq Names /\ read \subseteq Names
    BY RequiredAt, PackageFits DEF CollectionInv, CollectionTypes
  <1>4. runtime' \subseteq Names
    <2>1. ScriptSeeds \cup EntrySeeds \subseteq Names BY <1>3, SeedsAreFiles
    <2>2. \A A : Below(A) \subseteq A \cup read
      BY DEF Below, FoundIn, First
    <2>3. Walk(ScriptSeeds \cup EntrySeeds) \subseteq Names BY <1>3, <2>1, <2>2 DEF Walk
    <2>4. ToSet(plan.required) \subseteq Names BY RequiredAt DEF RequiredBy, CollectionInv
    <2> QED BY <1>1, <2>3, <2>4
  <1>5. queue' \in Seq(Names) /\ ToSet(queue') = runtime'
    <2> DEFINE r == runtime'
    <2>1. r \subseteq Names BY <1>4
    <2> HIDE DEF r
    <2>2. InOrder(r) \in Seq(Names) /\ ToSet(InOrder(r)) = r BY <1>3, <2>1, InOrderIs
    <2> QED BY <1>1, <2>2 DEF r
  <1>6. installTime' \subseteq runtime' /\ lifecycle' \subseteq runtime'
    <2>1. Walk(Seeds(package.hooks)) \subseteq Walk(ScriptSeeds \cup EntrySeeds)
      BY WalkIsMonotone DEF ScriptSeeds
    <2>2. Walk(ScriptSeeds) \subseteq Walk(ScriptSeeds \cup EntrySeeds) BY WalkIsMonotone
    <2>3. plan.install \subseteq ToSet(plan.required) BY DEF CollectionInv, PlanFits, RequiredBy
    <2> QED BY <1>1, <2>1, <2>2, <2>3
  <1>7. next = 1 /\ over = {} /\ \A f \in Names : state[f] = {"new"}
    BY <1>1 DEF GraphInv, GraphTypes
  <1>8. \A f \in runtime' : Waiting(f)'
    <2>1. \A n \in DOMAIN queue' : next <= n
      <3>1. DOMAIN queue' = 1 .. Len(queue') /\ Len(queue') \in Nat BY <1>5
      <3> QED BY <1>7, <3>1
    <2>2. \A f \in runtime' : \E n \in DOMAIN queue' : queue'[n] = f BY <1>5 DEF ToSet
    <2> QED BY <1>1, <2>1, <2>2 DEF Waiting
  <1>9. GraphTypes' BY <1>1, <1>2, <1>4, <1>5 DEF GraphInv, GraphTypes
  <1>10. \A n \in DOMAIN queue' : queue'[n] \in runtime' BY <1>5 DEF ToSet
  <1>11. WalkFits' BY <1>1, <1>4, <1>6, <1>7, <1>8, <1>10 DEF WalkFits
  <1> QED BY <1>9, <1>11 DEF GraphInv

LEMMA AgainKeeps == ASSUME GraphInv, Again PROVE GraphInv'
  <1>1. /\ graph = "walk" /\ state[queue[next]] = Flags(queue[next]) /\ UNCHANGED collection
        /\ runtime' = runtime /\ installTime' = installTime /\ lifecycle' = lifecycle /\ queue' = queue
        /\ state' = state /\ over' = over /\ graphGaps' = graphGaps /\ graph' = graph
    BY DEF Again, CanWalk
  <1>2. next' = next + 1 /\ next \in Nat \ {0} BY DEF Again, GraphInv, GraphTypes
  <1>3. read' = read /\ phase' = phase /\ \A f : Linked(f)' = Linked(f) BY <1>1, LinksStay
  <1>4. \A f : Flags(f)' = Flags(f) BY <1>1 DEF Flags
  <1>5. GraphTypes'
    <2>1. next' \in Nat \ {0} BY <1>2
    <2> QED BY <1>1, <1>3, <2>1 DEF GraphInv, GraphTypes
  <1>6. ASSUME NEW f, Waiting(f), state[f] # Flags(f) PROVE Waiting(f)'
    <2>1. PICK n \in DOMAIN queue : next <= n /\ queue[n] = f BY <1>6 DEF Waiting
    <2>2. n # next BY <1>1, <1>6, <2>1
    <2>3. n \in Nat BY <2>1 DEF GraphInv, GraphTypes
    <2>4. next' <= n BY <1>2, <2>1, <2>2, <2>3
    <2> QED BY <1>1, <2>1, <2>4 DEF Waiting
  <1>7. WalkFits' BY <1>1, <1>3, <1>4, <1>6 DEF GraphInv, WalkFits
  <1> QED BY <1>5, <1>7 DEF GraphInv

LEMMA FinishGraphKeeps == ASSUME GraphInv, FinishGraph PROVE GraphInv'
  <1>1. /\ graph = "walk" /\ graph' = "done" /\ UNCHANGED collection
        /\ graphGaps' = graphGaps \cup
              (IF Len(queue) > MaxQueue THEN {<<queue[1], "reachability limit">>} ELSE {})
        /\ runtime' = runtime /\ installTime' = installTime /\ lifecycle' = lifecycle /\ queue' = queue
        /\ next' = next /\ state' = state /\ over' = over
    BY DEF FinishGraph
  <1>2. read' = read /\ phase' = phase /\ \A f : Linked(f)' = Linked(f) BY <1>1, LinksStay
  <1>3. \A f : Flags(f)' = Flags(f) /\ (Waiting(f)' <=> Waiting(f)) BY <1>1 DEF Flags, Waiting
  <1>4. GraphTypes' BY <1>1, <1>2 DEF GraphInv, GraphTypes
  <1>5. graphGaps' = {} => graphGaps = {} /\ ~(Len(queue) > MaxQueue) BY <1>1
  <1>6. ASSUME graphGaps' = {}, NEW f \in runtime PROVE state[f] = Flags(f)
    <2>1. state[f] = Flags(f) \/ Waiting(f) BY <1>1, <1>5, <1>6 DEF GraphInv, WalkFits
    <2>2. ASSUME Waiting(f) PROVE FALSE
      <3>1. PICK n \in DOMAIN queue : next <= n BY <2>2 DEF Waiting
      <3>2. /\ DOMAIN queue = 1 .. Len(queue) /\ Len(queue) \in Nat /\ next \in Nat
        BY DEF GraphInv, GraphTypes
      <3>3. MaxQueue \in Nat BY GraphAssumption
      <3>4. ~(next <= Len(queue) /\ next <= MaxQueue) BY <1>1 DEF FinishGraph, CanWalk
      <3> QED BY <1>5, <1>6, <3>1, <3>2, <3>3, <3>4
    <2> QED BY <2>1, <2>2
  <1>7. WalkFits' BY <1>1, <1>2, <1>3, <1>5, <1>6 DEF GraphInv, WalkFits
  <1> QED BY <1>4, <1>7 DEF GraphInv

LEMMA FollowKeeps == ASSUME CollectionInv, GraphInv, Follow PROVE GraphInv'
  <1> DEFINE f == queue[next]
             full == f \notin facts /\ Cardinality(facts) >= MaxFacts
             targets == IF f \notin read \/ full \/ f \in over THEN {} ELSE Imports(f) \cup Started(f)
  <1>1. /\ graph = "walk" /\ UNCHANGED collection /\ graph' = graph
        /\ state' = [state EXCEPT ![f] = Flags(f)]
        /\ over' = (IF f \in read /\ full THEN over \cup {f} ELSE over)
        /\ runtime' = runtime \cup targets
        /\ installTime' = (IF f \in installTime THEN installTime \cup targets ELSE installTime)
        /\ lifecycle' = (IF f \in lifecycle THEN lifecycle \cup targets ELSE lifecycle)
        /\ queue' = queue \o InOrder(targets)
        /\ graphGaps' = graphGaps \cup
              (IF f \notin read THEN {<<f, "not collected">>}
               ELSE IF full THEN {<<f, "package limit">>}
               ELSE IF Dangling(f) # {} THEN {<<f, "target not collected">>} ELSE {})
    BY DEF Follow, CanWalk
  <1>2. next' = next + 1 /\ next \in Nat \ {0} /\ next <= Len(queue)
    BY DEF Follow, CanWalk, GraphInv, GraphTypes
  <1>3. read' = read /\ phase' = phase /\ \A g : Linked(g)' = Linked(g) BY <1>1, LinksStay
  <1>4. read \subseteq Names /\ Order \in Seq(STRING)
    BY RequiredAt, PackageFits DEF CollectionInv, CollectionTypes
  <1>5. targets \subseteq Linked(f) /\ targets \subseteq Names
    <2>1. targets \subseteq Linked(f) BY DEF Linked
    <2> HIDE DEF f, targets
    <2> QED BY <1>4, <2>1, LinkedIsRead
  <1>6. queue \in Seq(Names) /\ DOMAIN queue = 1 .. Len(queue) /\ Len(queue) \in Nat /\ f \in Names
    BY <1>2 DEF GraphInv, GraphTypes
  <1> HIDE DEF f
  <1>7. graphGaps' = {} => f \in read /\ ~full /\ graphGaps = {}
    <2> HIDE DEF full
    <2> QED BY <1>1
  <1>8. graphGaps' = {} => targets = Linked(f)
    <2> SUFFICES ASSUME graphGaps' = {} PROVE targets = Linked(f) OBVIOUS
    <2>1. f \in read /\ ~full /\ f \notin over BY <1>7 DEF GraphInv, WalkFits
    <2> HIDE DEF full
    <2> QED BY <2>1 DEF Linked
  <1>9. over' # {} => graphGaps' # {}
    <2> HIDE DEF full
    <2> QED BY <1>1, <1>7 DEF GraphInv, WalkFits
  <1> HIDE DEF full, targets
  <1> DEFINE more == InOrder(targets)
  <1>10. more \in Seq(Names) /\ ToSet(more) = targets BY <1>4, <1>5, InOrderIs
  <1> HIDE DEF more
  <1>11. /\ queue' \in Seq(Names) /\ Len(queue') = Len(queue) + Len(more) /\ Len(more) \in Nat
         /\ DOMAIN queue' = 1 .. Len(queue')
         /\ \A n \in 1 .. Len(queue) : queue'[n] = queue[n]
         /\ \A n \in 1 .. Len(more) : queue'[Len(queue) + n] = more[n]
    <2> DEFINE q == queue \o more
    <2>1. /\ q \in Seq(Names) /\ Len(q) = Len(queue) + Len(more) /\ Len(more) \in Nat
          /\ \A n \in 1 .. Len(queue) : q[n] = queue[n]
          /\ \A n \in 1 .. Len(more) : q[Len(queue) + n] = more[n]
      BY <1>6, <1>10, ConcatProperties
    <2> HIDE DEF q
    <2>2. DOMAIN q = 1 .. Len(q) BY <2>1
    <2>3. queue' = q BY <1>1 DEF q, more
    <2> QED BY <2>1, <2>2, <2>3
  <1>12. ASSUME NEW g \in targets PROVE Waiting(g)'
    <2>1. PICK n \in DOMAIN more : more[n] = g BY <1>10 DEF ToSet
    <2>2. n \in 1 .. Len(more) BY <1>10, <2>1
    <2>3. queue'[Len(queue) + n] = g BY <1>11, <2>1, <2>2
    <2>4. Len(queue) + n \in DOMAIN queue' /\ next' <= Len(queue) + n BY <1>2, <1>6, <1>11, <2>2
    <2> QED BY <2>3, <2>4 DEF Waiting
  <1>13. ASSUME NEW g, Waiting(g), g # f PROVE Waiting(g)'
    <2>1. PICK n \in DOMAIN queue : next <= n /\ queue[n] = g BY <1>13 DEF Waiting
    <2>2. n # next BY <1>13, <2>1 DEF f
    <2>3. n \in DOMAIN queue' /\ next' <= n /\ queue'[n] = g BY <1>2, <1>6, <1>11, <2>1, <2>2
    <2> QED BY <2>3 DEF Waiting
  <1>14. /\ state \in [Names -> SUBSET {"new", "install", "lifecycle"}]
         /\ state'[f] = Flags(f) /\ \A g \in Names : g # f => state'[g] = state[g]
         /\ state' \in [Names -> SUBSET {"new", "install", "lifecycle"}]
    BY <1>1, <1>6 DEF GraphInv, GraphTypes, Flags
  <1>15. \A g : g \notin targets => Flags(g)' = Flags(g) BY <1>1 DEF Flags
  <1>16. installTime \subseteq installTime' /\ lifecycle \subseteq lifecycle' /\ runtime \subseteq runtime'
    BY <1>1
  <1>17. installTime' \subseteq runtime' /\ lifecycle' \subseteq runtime'
    BY <1>1 DEF GraphInv, WalkFits
  <1>18. GraphTypes'
    <2>1. next' \in Nat \ {0} BY <1>2
    <2>2. runtime' \subseteq Names BY <1>1, <1>5 DEF GraphInv, GraphTypes
    <2> QED BY <1>1, <1>3, <1>11, <1>14, <2>1, <2>2 DEF GraphInv, GraphTypes
  <1>19. ASSUME graphGaps' = {}, NEW g \in runtime'
         PROVE  /\ state'[g] = Flags(g)' \/ Waiting(g)'
                /\ g \in read /\ state'[g] # {"new"} =>
                      /\ Linked(g) \subseteq runtime'
                      /\ "install" \in state'[g] => Linked(g) \subseteq installTime'
                      /\ "lifecycle" \in state'[g] => Linked(g) \subseteq lifecycle'
    <2>1. graphGaps = {} /\ targets = Linked(f) BY <1>7, <1>8, <1>19
    <2>2. g \in Names /\ (g \in runtime \/ g \in targets) BY <1>1, <1>18, <1>19 DEF GraphTypes
    <2>3. ASSUME g = f, g \notin targets PROVE state'[g] = Flags(g)' BY <1>14, <1>15, <2>3
    <2>4. ASSUME g # f, g \notin targets PROVE state'[g] = Flags(g)' \/ Waiting(g)'
      <3>1. state[g] = Flags(g) \/ Waiting(g) BY <1>1, <2>1, <2>2, <2>4 DEF GraphInv, WalkFits
      <3> QED BY <1>13, <1>14, <1>15, <2>2, <2>4, <3>1
    <2>5. state'[g] = Flags(g)' \/ Waiting(g)' BY <1>12, <2>3, <2>4
    <2>6. ASSUME g = f
          PROVE  /\ Linked(g) \subseteq runtime'
                 /\ "install" \in state'[g] => Linked(g) \subseteq installTime'
                 /\ "lifecycle" \in state'[g] => Linked(g) \subseteq lifecycle'
      <3>1. Linked(g) \subseteq runtime' BY <1>1, <2>1, <2>6
      <3>2. ASSUME "install" \in state'[g] PROVE Linked(g) \subseteq installTime'
        <4>1. f \in installTime BY <1>14, <2>6, <3>2 DEF Flags
        <4> QED BY <1>1, <2>1, <2>6, <4>1
      <3>3. ASSUME "lifecycle" \in state'[g] PROVE Linked(g) \subseteq lifecycle'
        <4>1. f \in lifecycle BY <1>14, <2>6, <3>3 DEF Flags
        <4> QED BY <1>1, <2>1, <2>6, <4>1
      <3> QED BY <3>1, <3>2, <3>3
    <2>7. ASSUME g # f, g \in read, state'[g] # {"new"}
          PROVE  /\ Linked(g) \subseteq runtime'
                 /\ "install" \in state'[g] => Linked(g) \subseteq installTime'
                 /\ "lifecycle" \in state'[g] => Linked(g) \subseteq lifecycle'
      <3>1. state'[g] = state[g] BY <1>14, <2>2, <2>7
      <3>2. g \in runtime BY <2>2, <2>7, <3>1 DEF GraphInv, WalkFits
      <3> QED BY <1>1, <1>16, <2>1, <2>7, <3>1, <3>2 DEF GraphInv, WalkFits
    <2> QED BY <2>5, <2>6, <2>7
  <1>20. ASSUME NEW n \in DOMAIN queue' PROVE queue'[n] \in runtime'
    <2>1. CASE n \in 1 .. Len(queue) BY <1>6, <1>11, <1>16, <2>1 DEF GraphInv, WalkFits
    <2>2. CASE n \notin 1 .. Len(queue)
      <3>1. n - Len(queue) \in 1 .. Len(more) /\ n = Len(queue) + (n - Len(queue))
        BY <1>6, <1>11, <2>2
      <3>2. queue'[n] = more[n - Len(queue)] BY <1>11, <3>1
      <3>3. more[n - Len(queue)] \in targets BY <1>10, <3>1 DEF ToSet
      <3> QED BY <1>1, <3>2, <3>3
    <2> QED BY <2>1, <2>2
  <1>21. ASSUME NEW g \in Names, state'[g] # {"new"} PROVE g \in runtime'
    <2>1. f \in runtime BY <1>2, <1>6 DEF GraphInv, WalkFits, f
    <2> QED BY <1>14, <1>16, <1>21, <2>1 DEF GraphInv, WalkFits
  <1>22. WalkFits' BY <1>1, <1>3, <1>9, <1>17, <1>19, <1>20, <1>21 DEF WalkFits
  <1> QED BY <1>18, <1>22 DEF GraphInv

\* When the walk ended, no file of the three sets leads outside of it.
LEMMA ClosedGraph == ASSUME GraphInv PROVE GraphIsClosed
  <1> SUFFICES ASSUME graph = "done", graphGaps = {}
               PROVE  /\ \A f \in runtime \cap read : Linked(f) \subseteq runtime
                      /\ \A f \in installTime \cap read : Linked(f) \subseteq installTime
                      /\ \A f \in lifecycle \cap read : Linked(f) \subseteq lifecycle
    BY DEF GraphIsClosed, Linked
  <1>1. installTime \subseteq runtime /\ lifecycle \subseteq runtime BY DEF GraphInv, WalkFits
  <1>2. ASSUME NEW f \in runtime, f \in read
        PROVE  /\ Linked(f) \subseteq runtime
               /\ f \in installTime => Linked(f) \subseteq installTime
               /\ f \in lifecycle => Linked(f) \subseteq lifecycle
    <2>1. state[f] = Flags(f) BY DEF GraphInv, WalkFits
    <2>2. state[f] # {"new"} BY <2>1 DEF Flags
    <2>3. /\ Linked(f) \subseteq runtime
          /\ "install" \in state[f] => Linked(f) \subseteq installTime
          /\ "lifecycle" \in state[f] => Linked(f) \subseteq lifecycle
      BY <1>2, <2>2 DEF GraphInv, WalkFits
    <2>4. /\ f \in installTime => "install" \in Flags(f)
          /\ f \in lifecycle => "lifecycle" \in Flags(f)
      BY DEF Flags
    <2> QED BY <2>1, <2>3, <2>4
  <1> QED BY <1>1, <1>2

LEMMA ScanKeeps ==
    ASSUME CollectionInv, GraphInv, [AuditNext]_auditVars PROVE CollectionInv' /\ GraphInv'
  <1>1. CASE CollectStep /\ UNCHANGED <<graphVars, evidence>>
    BY <1>1, CollectionKeeps, CollectionFirst
  <1>2. CASE GraphStep /\ UNCHANGED evidence
    <2>1. UNCHANGED collection BY <1>2 DEF GraphStep, StartGraph, Again, Follow, FinishGraph
    <2>2. CollectionInv' BY <2>1, CollectionStays
    <2>3. GraphInv'
      BY <1>2, StartGraphKeeps, AgainKeeps, FollowKeeps, FinishGraphKeeps DEF GraphStep
    <2> QED BY <2>2, <2>3
  <1>3. CASE Audit BY <1>3, CollectionStays, GraphStays DEF Audit
  <1>4. CASE UNCHANGED auditVars BY <1>4, CollectionStays, GraphStays DEF auditVars
  <1> QED BY <1>1, <1>2, <1>3, <1>4 DEF AuditNext

-----------------------------------------------------------------------------
(* The auditor: what becomes of a finding.                                   *)

\* Every finding is a record of these fields, so changing its severity leaves it one.
IsFinding(g) ==
    g = [category |-> g.category, severity |-> g.severity, file |-> g.file, keep |-> g.keep, note |-> g.note]

LEMMA InFinding == \A file, noted : \A g \in In(file, noted) : IsFinding(g)
  <1> TAKE file, noted
  <1> TAKE g \in In(file, noted)
  <1>1. PICK h \in noted :
          g = [category |-> h.category, severity |-> h.severity, file |-> file, keep |-> h.keep, note |-> h.note]
    BY DEF In
  <1> QED BY <1>1 DEF IsFinding

LEMMA LoweredFinding ==
    ASSUME NEW g, IsFinding(g)
    PROVE  [g EXCEPT !.severity = "medium"] =
             [category |-> g.category, severity |-> "medium", file |-> g.file, keep |-> g.keep, note |-> g.note]
  BY DEF IsFinding

LEMMA MetadataFindings == \A ev : \A g \in AuditMetadata(ev) : IsFinding(g)
  <1> TAKE ev
  <1>1. \A g \in InspectManifests(ev) : IsFinding(g) BY InFinding DEF InspectManifests
  <1>2. \A g \in InspectMetadataObject(ev) : IsFinding(g) BY InFinding DEF InspectMetadataObject
  <1>3. \A g \in InspectGithubMetadata(ev) : IsFinding(g) BY InFinding DEF InspectGithubMetadata, InspectMaintainerSurface
  <1>4. \A g \in InspectProvenance(ev) : IsFinding(g) BY InFinding DEF InspectProvenance
  <1>5. \A g \in InspectVulnerabilities(ev) : IsFinding(g) BY InFinding DEF InspectVulnerabilities
  <1>6. \A g \in InspectNpmVsGithubDiff(ev) : IsFinding(g) BY InFinding DEF InspectNpmVsGithubDiff
  <1> QED BY <1>1, <1>2, <1>3, <1>4, <1>5, <1>6 DEF AuditMetadata

LEMMA BaseFindingsAreFindings == \A ev : \A g \in BaseFindings(ev) : IsFinding(g)
  <1> TAKE ev
  <1>1. \A g \in InspectGraph(ev) : IsFinding(g) BY InFinding DEF InspectGraph
  <1>2. \A g \in InspectLanguage(ev) : IsFinding(g) BY InFinding DEF InspectLanguage
  <1>3. \A g \in InspectFiles(ev) : IsFinding(g) BY InFinding DEF InspectFiles
  <1>4. \A g \in InspectCrossFileExfil(ev) : IsFinding(g) BY InFinding DEF InspectCrossFileExfil
  <1> QED BY <1>1, <1>2, <1>3, <1>4, MetadataFindings DEF BaseFindings

LEMMA RawFindingsAreFindings == \A ev : \A g \in RawFindings(ev) : IsFinding(g)
  <1> TAKE ev
  <1>1. \A g \in InspectArtifactOnlyMalware(ev, BaseFindings(ev)) : IsFinding(g)
    BY InFinding DEF InspectArtifactOnlyMalware
  <1> QED BY <1>1, BaseFindingsAreFindings DEF RawFindings

\* A high finding is never lost, at most lowered to one for review.
LEMMA HighIsKept ==
    ASSUME NEW ev, NEW g \in RawFindings(ev), g.severity = "high"
    PROVE  /\ \E h \in Findings(ev) : h.severity \in {"high", "medium"}
           /\ ~IsVerifiedSelfScan(ev) /\ ~Downgraded(ev, g) => \E h \in Findings(ev) : h.severity = "high"
  <1> DEFINE low(h) == [h EXCEPT !.severity = "medium"]
             noted == FileFindings(ev)
  <1>1. IsFinding(g) BY RawFindingsAreFindings
  <1>2. low(g).severity = "medium" BY <1>1, LoweredFinding
  <1>3. g \in noted \/ low(g) \in noted BY DEF FileFindings, Downgrade
  <1>4. ~Downgraded(ev, g) => g \in noted BY DEF FileFindings, Downgrade
  <1> HIDE DEF noted, low
  <1>5. \E h \in ApplySelfScanDowngrade(noted) : h.severity \in {"high", "medium"}
    <2>1. CASE low(g) \in noted BY <1>2, <2>1 DEF ApplySelfScanDowngrade
    <2>2. CASE g \in noted BY <1>2, <2>2 DEF ApplySelfScanDowngrade, low
    <2> QED BY <1>3, <2>1, <2>2
  <1>6. (IF IsVerifiedSelfScan(ev) THEN ApplySelfScanDowngrade(noted) ELSE noted) \subseteq Findings(ev)
    BY DEF Findings, noted
  <1>7. CASE IsVerifiedSelfScan(ev) BY <1>5, <1>6, <1>7
  <1>8. CASE ~IsVerifiedSelfScan(ev) BY <1>2, <1>3, <1>4, <1>6, <1>8
  <1> QED BY <1>7, <1>8

-----------------------------------------------------------------------------
(* The evidence of an audit.                                                 *)

\* The graph starts from the plan, and the auditor sees what was read and found once both are done.
SeedsFit ==
    graph # "idle" => RequiredBy(plan) \subseteq runtime /\ plan.install \subseteq installTime \cap lifecycle
IsEvidence(ev) == \E about \in Surroundings : ev = EvidenceOf(about)
EvidenceInv ==
    /\ SeedsFit
    /\ IsFiniteSet(graphGaps) /\ IsFiniteSet(facts)
    /\ Audited => graph = "done" /\ IsEvidence(Ev)

ScanInv == CollectionInv /\ GraphInv /\ EvidenceInv

\* The comparison of two trees looks at what was collected, and at nothing later.
LEMMA ComparisonStays ==
    ASSUME UNCHANGED <<collection, graphVars>>
    PROVE  \A repo : DiffNpmVsGithub(repo)' = DiffNpmVsGithub(repo)
  <1>1. /\ package' = package /\ readOrder' = readOrder /\ blind' = blind /\ unparsed' = unparsed
        /\ plan' = plan
    BY DEF collection
  <1>2. SourceGraph' = SourceGraph BY <1>1 DEF SourceGraph, Imports, Started, StartsOf, Parsed, First, read
  <1>3. ExecutionFiles' = ExecutionFiles
    BY <1>1 DEF ExecutionFiles, ConcealedIn, Seen, Unseen, SourceGraph, Imports, Started, StartsOf, Parsed, First, read
  <1>4. Walked' = Walked
    BY <1>1 DEF Walked, RuntimePaths, ExecutionFiles, ConcealedIn, Seen, Unseen, SourceGraph, Imports,
                Started, StartsOf, Parsed, First, read, Is
  <1>5. NpmFiles' = NpmFiles BY <1>1 DEF NpmFiles, Is
  <1>6. ASSUME NEW repo PROVE DiffNpmVsGithub(repo)' = DiffNpmVsGithub(repo)
    <2>1. Selective(repo)' = Selective(repo) /\ PairedPaths(repo)' = PairedPaths(repo)
      BY <1>5 DEF Selective, PairedPaths
    <2>2. TreeMissing(repo)' = TreeMissing(repo) BY <2>1 DEF TreeMissing
    <2>3. HasBuildScript' = HasBuildScript BY <1>1 DEF HasBuildScript
    <2>4. Trees(repo)' = Trees(repo) BY <1>1, <1>3, <1>4, <1>5, <2>1, <2>3 DEF Trees
    <2>5. Matched(Trees(repo))' = Matched(Trees(repo))
      BY <1>1, <2>4 DEF Matched, Hash, Mismatched, Common, Considered, Hashed, IsAlwaysIgnored, Is
    <2>6. Mismatched(Trees(repo))' = Mismatched(Trees(repo))
      BY <1>1, <2>4 DEF Mismatched, Common, Considered, Hashed, IsAlwaysIgnored, Is
    <2>7. ExtraSource(Trees(repo))' = ExtraSource(Trees(repo))
      BY <1>1, <2>4 DEF ExtraSource, Extra, Considered, Authored, IsAlwaysIgnored, Is
    <2>8. ExtraBuild(Trees(repo))' = ExtraBuild(Trees(repo))
      BY <1>1, <2>4, <2>7 DEF ExtraBuild, Extra, Considered, IsAlwaysIgnored, Is
    <2>9. MismatchedSource(Trees(repo))' = MismatchedSource(Trees(repo))
      BY <1>1, <2>4, <2>6 DEF MismatchedSource, Authored, Is
    <2>10. DiffTrees(Trees(repo))' = DiffTrees(Trees(repo))
      BY <2>4, <2>5, <2>6, <2>7, <2>8, <2>9
         DEF DiffTrees, ExecutionDivergence, Noise, LayoutDiffers, MostlyGenerated, BuiltBeforePublish
    <2> QED BY <2>2, <2>10 DEF DiffNpmVsGithub
  <1> QED BY <1>6

LEMMA EvidenceStays ==
    ASSUME UNCHANGED <<collection, graphVars>> PROVE \A about : EvidenceOf(about)' = EvidenceOf(about)
  <1>1. /\ package' = package /\ readOrder' = readOrder /\ blind' = blind /\ unparsed' = unparsed /\ gaps' = gaps
        /\ runtime' = runtime /\ installTime' = installTime /\ lifecycle' = lifecycle
        /\ graphGaps' = graphGaps /\ facts' = facts /\ over' = over /\ plan' = plan
    BY DEF collection, graphVars
  <1>2. read' = read BY <1>1 DEF read
  <1>3. Seen' = Seen BY <1>1, <1>2 DEF Seen, Unseen
  <1>4. \A fs : ConcealedIn(fs)' = ConcealedIn(fs)
    BY <1>1, <1>2, <1>3 DEF ConcealedIn, Started, StartsOf, Parsed, First
  <1>5. \A repo : DiffNpmVsGithub(repo)' = DiffNpmVsGithub(repo) BY ComparisonStays
  <1>6. \A about : DiffRuns(about)' = DiffRuns(about) BY <1>1 DEF DiffRuns
  <1>7. ConcealedIn(facts \ over)' = ConcealedIn(facts \ over)
    BY <1>1, <1>2, <1>3 DEF ConcealedIn, Started, StartsOf, Parsed, First
  <1>8. ASSUME NEW about PROVE EvidenceOf(about)' = EvidenceOf(about)
    BY <1>1, <1>3, <1>5, <1>6, <1>7 DEF EvidenceOf
  <1> QED BY <1>8

LEMMA EvidenceStarts == ASSUME AuditInit PROVE EvidenceInv
  <1>1. graph = "idle" /\ graphGaps = {} /\ facts = {} /\ evidence = << >> BY DEF AuditInit, InitGraph
  <1> QED BY <1>1, FS_EmptySet DEF EvidenceInv, SeedsFit, Audited

LEMMA EvidenceKeeps ==
    ASSUME CollectionInv, GraphInv, EvidenceInv, [AuditNext]_auditVars PROVE EvidenceInv'
  <1>1. CASE CollectStep /\ UNCHANGED <<graphVars, evidence>>
    <2>1. phase = "pass" BY <1>1 DEF CollectStep, Expand, Pass, Skip, Finish, Refuse, ReadFile, Visit, Visits,
                                     NextIsOptional, MoreRequired, EndOfPass
    <2>2. graph = "idle" BY <2>1 DEF GraphInv, GraphTypes
    <2>3. graph' = graph /\ graphGaps' = graphGaps /\ facts' = facts /\ evidence' = evidence
      BY <1>1 DEF graphVars
    <2>4. ~Audited BY <2>2 DEF EvidenceInv
    <2> QED BY <2>2, <2>3, <2>4 DEF EvidenceInv, SeedsFit, Audited
  <1>2. CASE GraphStep /\ UNCHANGED evidence
    <2>1. graph # "done" /\ plan' = plan /\ evidence' = evidence
      BY <1>2 DEF GraphStep, StartGraph, Again, Follow, FinishGraph, CanWalk, collection
    <2>2. ~Audited BY <2>1 DEF EvidenceInv
    <2>3. ~Audited' BY <2>1, <2>2 DEF Audited
    <2>4. CASE StartGraph
      <3>1. SeedsFit' BY <2>1, <2>4 DEF StartGraph, SeedsFit, RequiredBy
      <3>2. graphGaps' = graphGaps /\ facts' = facts BY <2>4 DEF StartGraph
      <3> QED BY <2>3, <3>1, <3>2 DEF EvidenceInv
    <2>5. CASE Again
      <3>1. SeedsFit' BY <2>1, <2>5 DEF Again, SeedsFit, EvidenceInv, RequiredBy
      <3>2. graphGaps' = graphGaps /\ facts' = facts BY <2>5 DEF Again
      <3> QED BY <2>3, <3>1, <3>2 DEF EvidenceInv
    <2>6. CASE Follow
      <3>1. /\ graph' = graph /\ runtime \subseteq runtime' /\ lifecycle \subseteq lifecycle'
            /\ installTime \subseteq installTime'
        BY <2>6 DEF Follow
      <3>2. SeedsFit' BY <2>1, <3>1 DEF SeedsFit, EvidenceInv, RequiredBy
      <3>3. PICK more : graphGaps' = graphGaps \cup more /\ \E g : more \in {{}, {g}} BY <2>6 DEF Follow
      <3>4. IsFiniteSet(graphGaps') BY <3>3, FS_Union, FS_EmptySet, FS_Singleton DEF EvidenceInv
      <3>5. facts' \in {facts, facts \cup {queue[next]}} BY <2>6 DEF Follow
      <3>6. IsFiniteSet(facts \cup {queue[next]}) BY FS_Union, FS_Singleton DEF EvidenceInv
      <3>7. IsFiniteSet(facts') BY <3>5, <3>6 DEF EvidenceInv
      <3> QED BY <2>3, <3>2, <3>4, <3>7 DEF EvidenceInv
    <2>7. CASE FinishGraph
      <3>1. SeedsFit' BY <2>1, <2>7 DEF FinishGraph, SeedsFit, EvidenceInv, RequiredBy
      <3>2. PICK more : graphGaps' = graphGaps \cup more /\ \E g : more \in {{}, {g}} BY <2>7 DEF FinishGraph
      <3>3. IsFiniteSet(graphGaps') BY <3>2, FS_Union, FS_EmptySet, FS_Singleton DEF EvidenceInv
      <3>4. facts' = facts BY <2>7 DEF FinishGraph
      <3> QED BY <2>3, <3>1, <3>3, <3>4 DEF EvidenceInv
    <2> QED BY <1>2, <2>4, <2>5, <2>6, <2>7 DEF GraphStep
  <1>3. ASSUME UNCHANGED <<collection, graphVars>>,
               evidence' = evidence \/ \E about \in Surroundings : graph = "done" /\ evidence' = <<EvidenceOf(about)>>
        PROVE  EvidenceInv'
    <2>1. /\ graph' = graph /\ plan' = plan /\ runtime' = runtime /\ lifecycle' = lifecycle
          /\ installTime' = installTime /\ graphGaps' = graphGaps /\ facts' = facts
      BY <1>3 DEF collection, graphVars
    <2>2. SeedsFit' /\ IsFiniteSet(graphGaps)' /\ IsFiniteSet(facts)' BY <2>1 DEF SeedsFit, EvidenceInv, RequiredBy
    <2>3. ASSUME Audited' PROVE graph' = "done" /\ IsEvidence(Ev)'
      <3>1. \A about : EvidenceOf(about)' = EvidenceOf(about) BY <1>3, EvidenceStays
      <3>2. CASE evidence' = evidence
        <4>1. Ev' = Ev /\ graph = "done" /\ IsEvidence(Ev) BY <2>3, <3>2 DEF EvidenceInv, Audited, Ev
        <4>2. PICK about \in Surroundings : Ev = EvidenceOf(about) BY <4>1 DEF IsEvidence
        <4>3. Ev' = EvidenceOf(about)' BY <3>1, <4>1, <4>2
        <4> QED BY <2>1, <4>1, <4>3 DEF IsEvidence
      <3>3. CASE evidence' # evidence
        <4>1. PICK about \in Surroundings : graph = "done" /\ evidence' = <<EvidenceOf(about)>> BY <1>3, <3>3
        <4>2. Ev' = EvidenceOf(about)' BY <3>1, <4>1 DEF Ev
        <4> QED BY <2>1, <4>1, <4>2 DEF IsEvidence
      <3> QED BY <3>2, <3>3
    <2> QED BY <2>2, <2>3 DEF EvidenceInv
  <1>4. CASE Audit BY <1>3, <1>4 DEF Audit
  <1>5. CASE UNCHANGED auditVars BY <1>3, <1>5 DEF auditVars
  <1> QED BY <1>1, <1>2, <1>4, <1>5 DEF AuditNext

\* The plan is part of what runs, whatever the graph makes of the files.
LEMMA PlannedIsRun == ASSUME CollectionInv, SeedsFit PROVE ReachedIsRun
  <1> SUFFICES ASSUME graph # "idle", Complete
               PROVE  /\ ReachableFrom(Roots) \subseteq runtime
                      /\ Manifest \in package.files =>
                            ReachableFrom(Targets(package.hooks)) \subseteq installTime \cap lifecycle
    BY DEF ReachedIsRun
  <1>1. ReachableFrom(Roots) \subseteq RequiredBy(plan) /\ InstallTimeIsClosed BY CompleteCoverage
  <1> QED BY <1>1 DEF SeedsFit, InstallTimeIsClosed

\* What a scan says it covered it did cover, for any package, any limits and any order of the
\* changes that happen to the files while they are read (collectSourceEvidence and
\* createSourcePlan); the graph of what runs is closed under what it resolves unless it says
\* otherwise (createExecutionGraph), and what it cannot resolve the plan adds to it (auditFiles).
THEOREM CoverageIsTrue == AuditSpec => []SourcesAreCovered
  <1>1. AuditInit => ScanInv
    BY CollectionStarts, GraphStarts, EvidenceStarts DEF AuditInit, ScanInv
  <1>2. ScanInv /\ [AuditNext]_auditVars => ScanInv'
    BY ScanKeeps, EvidenceKeeps DEF ScanInv
  <1>3. ScanInv => SourcesAreCovered
    BY CompleteCoverage, ClosedGraph, PlannedIsRun DEF SourcesAreCovered, ScanInv, EvidenceInv, CollectionInv
  <1> QED BY <1>1, <1>2, <1>3, PTL DEF AuditSpec

\* A safe verdict is one of complete coverage without anything for review.
LEMMA SafeVerdict ==
    ASSUME NEW ev, Verdict(ev) = "safe"
    PROVE  /\ ev.covered
           /\ \A g \in Findings(ev) : g.severity \notin {"high", "medium"}
  <1>1. \A g \in Findings(ev) : g.severity \notin {"high", "medium"} BY DEF Verdict, DecideVerdict
  <1>2. ASSUME ~ev.covered PROVE FALSE
    <2> DEFINE gap == [category |-> "incomplete-source-scan", severity |-> "medium", file |-> "SOURCE_FILES",
                       keep |-> FALSE, note |-> ""]
    <2>1. Flag("incomplete-source-scan", "medium") \in When(~ev.covered, Flag("incomplete-source-scan", "medium"))
      BY <1>2 DEF When
    <2>2. gap \in In("SOURCE_FILES", {Flag("incomplete-source-scan", "medium")}) BY DEF In, Flag, Noted
    <2>3. \A A, B : In("SOURCE_FILES", A \cup B) = In("SOURCE_FILES", A) \cup In("SOURCE_FILES", B) BY DEF In
    <2>4. When(~ev.covered, Flag("incomplete-source-scan", "medium")) = {Flag("incomplete-source-scan", "medium")}
      BY <1>2 DEF When
    <2> DEFINE missing == When(ev.files = << >>, Flag("missing-evidence", "info"))
               cover == When(~ev.covered, Flag("incomplete-source-scan", "medium"))
    <2>5. In("SOURCE_FILES", missing \cup cover) \subseteq Findings(ev) BY DEF Findings
    <2>6. gap \in In("SOURCE_FILES", cover) BY <2>2, <2>4
    <2>7. gap.severity = "medium" OBVIOUS
    <2> HIDE DEF missing, cover, gap
    <2>8. gap \in Findings(ev) BY <2>3, <2>5, <2>6
    <2> QED BY <1>1, <2>7, <2>8
  <1> QED BY <1>1, <1>2

LEMMA BlockVerdict ==
    ASSUME NEW ev PROVE Verdict(ev) = "block" <=> \E g \in Findings(ev) : g.severity = "high"
  BY DEF Verdict, DecideVerdict

\* What the auditor is given says what the scan did.
LEMMA EvidenceIs ==
    ASSUME ScanInv, Audited
    PROVE  /\ phase = "done" /\ graph = "done"
           /\ Ev.runtime = runtime /\ Ev.lifecycle = lifecycle /\ (Ev.covered <=> gaps = {})
  <1>1. PICK about \in Surroundings : Ev = EvidenceOf(about) BY DEF ScanInv, EvidenceInv, IsEvidence
  <1>2. Ev.runtime = runtime /\ Ev.lifecycle = lifecycle /\ (Ev.covered <=> gaps = {})
    BY <1>1 DEF EvidenceOf
  <1> QED BY <1>2 DEF ScanInv, EvidenceInv, GraphInv, GraphTypes

\* What the plan requires runs, for the auditor: no name or directory makes it less.
LEMMA RequiredRuns ==
    ASSUME ScanInv, Audited, NEW f \in RequiredBy(plan)
    PROVE  Behaves(Ev, f)
  <1>1. f \in Ev.runtime BY EvidenceIs DEF ScanInv, EvidenceInv, SeedsFit
  <1> QED BY <1>1 DEF Behaves, Runs, Skipped, ReadAsText

LEMMA SafeIsInspected == ASSUME ScanInv PROVE SafeMeansInspected
  <1> SUFFICES ASSUME Audited, Verdict(Ev) = "safe", NEW f \in ReachableFrom(Roots)
               PROVE  f \in read \ elided /\ Behaves(Ev, f)
    BY DEF SafeMeansInspected
  <1>1. Complete BY SafeVerdict, EvidenceIs DEF Complete
  <1>2. f \in RequiredBy(plan) /\ f \in read \ elided
    BY <1>1, CompleteCoverage DEF ScanInv, CompleteIsWhole
  <1> QED BY <1>2, RequiredRuns

\* With complete coverage no file that the hooks lead to is downgraded.
LEMMA HookedIsKept ==
    ASSUME ScanInv, Audited, Ev.covered, NEW f \in ReachableFrom(Targets(package.hooks))
    PROVE  f \in Ev.lifecycle /\ f \in Ev.runtime
  <1>1. Complete /\ package \in Packages BY EvidenceIs DEF Complete, ScanInv, CollectionInv, CollectionTypes
  <1>2. CASE Manifest \in package.files
    <2>1. f \in plan.install BY <1>1, <1>2, CompleteCoverage DEF ScanInv, InstallTimeIsClosed
    <2>2. f \in RequiredBy(plan) BY <2>1 DEF ScanInv, CollectionInv, PlanFits
    <2> QED BY <2>1, <2>2, EvidenceIs DEF ScanInv, EvidenceInv, SeedsFit
  <1>3. CASE Manifest \notin package.files
    <2>1. package.hooks = << >> BY <1>1, <1>3, PackageFits DEF WellFormed
    <2>2. Targets(package.hooks) = {} BY <2>1 DEF Targets
    <2>3. Closed({}) BY DEF Closed
    <2>4. ReachableFrom(Targets(package.hooks)) \subseteq {} BY <1>1, <2>2, <2>3, ReachedIsLeast
    <2> QED BY <2>4
  <1> QED BY <1>2, <1>3

LEMMA HookedBlocks == ASSUME ScanInv PROVE InstallCodeBlocks
  <1> SUFFICES ASSUME Audited, Ev.covered, ~IsVerifiedSelfScan(Ev), NEW g \in RawFindings(Ev),
                      g.severity = "high", g.file \in ReachableFrom(Targets(package.hooks))
               PROVE  Verdict(Ev) = "block"
    BY DEF InstallCodeBlocks
  <1>1. g.file \in Ev.lifecycle /\ g.file \in Ev.runtime BY HookedIsKept
  <1>2. ~Downgraded(Ev, g) BY <1>1 DEF Downgraded
  <1>3. \E h \in Findings(Ev) : h.severity = "high" BY <1>2, HighIsKept
  <1> QED BY <1>3, BlockVerdict

LEMMA NothingIsCleared == DowngradesNeverClear
  <1> SUFFICES ASSUME NEW g \in RawFindings(Ev), g.severity = "high", Verdict(Ev) = "safe" PROVE FALSE
    BY DEF DowngradesNeverClear
  <1>1. \E h \in Findings(Ev) : h.severity \in {"high", "medium"} BY HighIsKept
  <1> QED BY <1>1, SafeVerdict

-----------------------------------------------------------------------------
(* Without its provenance statement a package has the same findings but for  *)
(* those the statement itself leads to.                                      *)

Agree(ev, w) ==
    /\ w.files = ev.files /\ w.content = ev.content /\ w.runtime = ev.runtime
    /\ w.lifecycle = ev.lifecycle /\ w.installTime = ev.installTime /\ w.spawns = ev.spawns
    /\ w.unresolved = ev.unresolved /\ w.covered = ev.covered /\ w.npm = ev.npm
    /\ w.diff = ev.diff /\ w.self = ev.self
    /\ w.github = ev.github /\ w.traits = ev.traits /\ w.metadata = ev.metadata
    /\ w.vulns = ev.vulns /\ w.vulnError = ev.vulnError /\ w.deps = ev.deps
    /\ w.attestation = "none"

LEMMA EmptyIn == \A file : In(file, {}) = {}
  BY DEF In

LEMMA SameMetadata ==
    ASSUME NEW ev, NEW w, Agree(ev, w) PROVE AuditMetadata(w) \subseteq AuditMetadata(ev)
  <1>1. InspectManifests(w) = InspectManifests(ev)
    <2>1. \A surface : ManifestsOf(w, surface) = ManifestsOf(ev, surface) BY DEF ManifestsOf, Agree
    <2>2. \A fs : FirstFile(w, fs) = FirstFile(ev, fs) BY DEF FirstFile, Agree
    <2>3. w.content = ev.content BY DEF Agree
    <2> QED BY <2>1, <2>2, <2>3 DEF InspectManifests
  <1>2. InspectMetadataObject(w) = InspectMetadataObject(ev) BY DEF InspectMetadataObject, Agree
  <1>3. InspectGithubMetadata(w) = InspectGithubMetadata(ev) BY DEF InspectGithubMetadata, InspectMaintainerSurface, Agree
  <1>4. InspectProvenance(w) = {} BY EmptyIn DEF InspectProvenance, Agree
  <1>5. InspectVulnerabilities(w) = InspectVulnerabilities(ev) BY DEF InspectVulnerabilities, Agree
  <1>6. InspectNpmVsGithubDiff(w) = InspectNpmVsGithubDiff(ev) BY DEF InspectNpmVsGithubDiff, Divergent, Agree
  <1> QED BY <1>1, <1>2, <1>3, <1>4, <1>5, <1>6 DEF AuditMetadata

LEMMA SameFiles ==
    ASSUME NEW ev, NEW w, Agree(ev, w)
    PROVE  /\ InspectGraph(w) = InspectGraph(ev) /\ InspectLanguage(w) = InspectLanguage(ev)
           /\ InspectFiles(w) = InspectFiles(ev) /\ InspectCrossFileExfil(w) = InspectCrossFileExfil(ev)
  <1>1. /\ w.files = ev.files /\ w.content = ev.content /\ w.installTime = ev.installTime
        /\ w.unresolved = ev.unresolved
    BY DEF Agree
  <1>2. \A f : Runs(w, f) = Runs(ev, f) /\ Behaves(w, f) = Behaves(ev, f)
               /\ Skipped(w, f) = Skipped(ev, f) /\ ReadAsText(w, f) = ReadAsText(ev, f)
    BY DEF Runs, Behaves, Skipped, ReadAsText, Agree
  <1>3. \A f : InspectFile(w, f) = InspectFile(ev, f) BY <1>1, <1>2 DEF InspectFile
  <1>4. \A fs : FirstFile(w, fs) = FirstFile(ev, fs) BY <1>1 DEF FirstFile
  <1>5. InspectGraph(w) = InspectGraph(ev) BY <1>1, <1>2 DEF InspectGraph
  <1>6. InspectLanguage(w) = InspectLanguage(ev)
    <2>1. PythonFiles(w) = PythonFiles(ev) BY <1>1 DEF PythonFiles
    <2> QED BY <1>4, <2>1 DEF InspectLanguage
  <1>7. InspectFiles(w) = InspectFiles(ev) BY <1>1, <1>3 DEF InspectFiles
  <1>8. InspectCrossFileExfil(w) = InspectCrossFileExfil(ev)
    <2>1. HarvestFiles(w) = HarvestFiles(ev) BY <1>1, <1>2 DEF HarvestFiles
    <2>2. DomainFiles(w) = DomainFiles(ev) BY <1>1, <1>2 DEF DomainFiles
    <2> QED BY <1>4, <2>1, <2>2 DEF InspectCrossFileExfil
  <1> QED BY <1>5, <1>6, <1>7, <1>8

LEMMA FewerRawFindings ==
    ASSUME NEW ev, NEW w, Agree(ev, w) PROVE RawFindings(w) \subseteq RawFindings(ev)
  <1>1. BaseFindings(w) \subseteq BaseFindings(ev) BY SameMetadata, SameFiles DEF BaseFindings
  <1>2. ASSUME NEW A, NEW B, A \subseteq B
        PROVE  InspectArtifactOnlyMalware(w, A) \subseteq InspectArtifactOnlyMalware(ev, B)
    <2>1. w.diff = ev.diff /\ Divergent(w) = Divergent(ev) BY DEF Agree, Divergent
    <2> QED BY <1>2, <2>1 DEF InspectArtifactOnlyMalware
  <1> QED BY <1>1, <1>2 DEF RawFindings

LEMMA FewerFindings ==
    ASSUME NEW ev, NEW w, Agree(ev, w) PROVE Findings(w) \subseteq Findings(ev)
  <1>1. \A g : Downgraded(w, g) = Downgraded(ev, g) BY DEF Downgraded, Kind, Agree
  <1>2. Downgrade(w, RawFindings(w)) \subseteq Downgrade(ev, RawFindings(ev))
    BY <1>1, FewerRawFindings DEF Downgrade
  <1>3. ASSUME NEW A, NEW B, A \subseteq B PROVE HiddenLoaders(w, A) \subseteq HiddenLoaders(ev, B)
    <2>1. w.spawns = ev.spawns BY DEF Agree
    <2> QED BY <1>3, <2>1 DEF HiddenLoaders
  <1>4. FileFindings(w) \subseteq FileFindings(ev) BY <1>2, <1>3 DEF FileFindings
  <1>5. IsVerifiedSelfScan(w) = IsVerifiedSelfScan(ev) BY DEF IsVerifiedSelfScan, Divergent, Agree
  <1>6. ASSUME NEW A, NEW B, A \subseteq B PROVE ApplySelfScanDowngrade(A) \subseteq ApplySelfScanDowngrade(B)
    BY <1>6 DEF ApplySelfScanDowngrade
  <1>7. w.files = ev.files /\ w.covered = ev.covered /\ w.deps = ev.deps BY DEF Agree
  <1> QED BY <1>4, <1>5, <1>6, <1>7 DEF Findings

-----------------------------------------------------------------------------
(* A package has finitely many findings, so they can be counted.             *)

LEMMA UnionIsFinite == \A A, B : IsFiniteSet(A) /\ IsFiniteSet(B) => IsFiniteSet(A \cup B)
  BY FS_Union

LEMMA FewAreFinite == IsFiniteSet({}) /\ \A x : IsFiniteSet({x})
  BY FS_EmptySet, FS_Singleton

LEMMA ImageIsFinite ==
    ASSUME NEW S, IsFiniteSet(S), NEW f PROVE IsFiniteSet({f[x] : x \in S})
  <1> DEFINE image == {f[x] : x \in S}
             g == [x \in S |-> f[x]]
  <1>1. g \in Surjection(S, image) BY DEF Surjection
  <1> HIDE DEF g
  <1> QED BY <1>1, FS_Surjection

LEMMA FamilyIsFinite ==
    ASSUME NEW S, IsFiniteSet(S), NEW f, \A x \in S : IsFiniteSet(f[x])
    PROVE  IsFiniteSet(UNION {f[x] : x \in S})
  <1> DEFINE image == {f[x] : x \in S}
  <1>1. IsFiniteSet(image) BY ImageIsFinite
  <1>2. \A T \in image : IsFiniteSet(T) OBVIOUS
  <1> HIDE DEF image
  <1>3. IsFiniteSet(UNION image) BY <1>1, <1>2, FS_UNION
  <1> QED BY <1>3 DEF image

LEMMA InIsFinite == \A file, noted : IsFiniteSet(noted) => IsFiniteSet(In(file, noted))
  <1> TAKE file, noted
  <1> HAVE IsFiniteSet(noted)
  <1> DEFINE f == [g \in noted |-> [category |-> g.category, severity |-> g.severity, file |-> file,
                                    keep |-> g.keep, note |-> g.note]]
  <1>1. In(file, noted) = {f[g] : g \in noted} BY DEF In
  <1> HIDE DEF f
  <1> QED BY <1>1, ImageIsFinite

LEMMA FirstIsFinite == \A rows : IsFiniteSet(FirstOf(rows))
  BY FewAreFinite DEF FirstOf

LEMMA WhenIsFinite == \A condition, finding : IsFiniteSet(When(condition, finding))
  BY FewAreFinite DEF When

\* Detector by detector.
LEMMA TextIsFinite ==
    \A f : /\ IsFiniteSet(InspectInjectionAttempt(f)) /\ IsFiniteSet(InspectConcealedInjection(f))
           /\ IsFiniteSet(InspectHiddenUnicode(f))
  <1> TAKE f
  <1>1. IsFiniteSet(InspectInjectionAttempt(f)) BY WhenIsFinite DEF InspectInjectionAttempt
  <1>2. IsFiniteSet(InspectConcealedInjection(f)) BY FirstIsFinite, UnionIsFinite DEF InspectConcealedInjection
  <1>3. IsFiniteSet(InspectHiddenUnicode(f)) BY WhenIsFinite DEF InspectHiddenUnicode
  <1> QED BY <1>1, <1>2, <1>3

LEMMA HintsAreFinite == \A f : IsFiniteSet(SensitiveFlowHints(f))
  <1> TAKE f
  <1> DEFINE noted == {n \in DOMAIN HintKinds : HintKinds[n] \in Raw(f)}
             told == {k \in noted : Cardinality({m \in noted : m < k}) < MaxHints}
             hint == [n \in told |-> Flag(HintKinds[n], "medium")]
  <1>1. DOMAIN HintKinds = 1 .. 5 BY DEF HintKinds
  <1>2. IsFiniteSet(1 .. 5)
    <2>1. \A n \in Nat : IsFiniteSet(1 .. n) BY FS_Interval
    <2> QED BY <2>1
  <1>3. told \in SUBSET (1 .. 5) BY <1>1
  <1> HIDE DEF noted
  <1>4. SensitiveFlowHints(f) = {hint[n] : n \in told} BY DEF SensitiveFlowHints, noted
  <1> HIDE DEF told, hint
  <1>5. IsFiniteSet(told) BY <1>2, <1>3, FS_Subset
  <1> QED BY <1>4, <1>5, ImageIsFinite

LEMMA BehaviourIsFinite == \A f, runs, early : IsFiniteSet(Behaviour(f, runs, early))
  <1> TAKE f, runs, early
  <1> USE FirstIsFinite, WhenIsFinite, UnionIsFinite, FewAreFinite
  <1>1. IsFiniteSet(InspectObfuscation(f)) BY DEF InspectObfuscation
  <1>2. IsFiniteSet(InspectCredentialAccess(f)) BY DEF InspectCredentialAccess
  <1>3. IsFiniteSet(InspectAgentConfigAccess(f)) BY DEF InspectAgentConfigAccess
  <1>4. IsFiniteSet(InspectPersistence(f)) BY DEF InspectPersistence
  <1>5. IsFiniteSet(InspectExecNetworkCombinations(f)) BY DEF InspectExecNetworkCombinations
  <1>6. IsFiniteSet(InspectDynamicRequire(f)) BY DEF InspectDynamicRequire
  <1>7. \A earlier : IsFiniteSet(InspectObfuscatedAssembly(f, earlier)) BY DEF InspectObfuscatedAssembly
  <1>8. IsFiniteSet(InspectLogicBomb(f)) BY DEF InspectLogicBomb
  <1>9. IsFiniteSet(InspectRemoteCodeLoad(f)) BY DEF InspectRemoteCodeLoad
  <1>10. IsFiniteSet(InspectStagedDropper(f)) BY DEF InspectStagedDropper
  <1>11. IsFiniteSet(InspectAlternateRuntime(f)) BY DEF InspectAlternateRuntime
  <1>12. IsFiniteSet(InspectCloudMetadataAccess(f, early)) BY DEF InspectCloudMetadataAccess
  <1>13. IsFiniteSet(InspectCiWorkflowInjection(f, early)) BY DEF InspectCiWorkflowInjection
  <1>14. IsFiniteSet(InspectSelfDeletingDropper(f, early)) BY DEF InspectSelfDeletingDropper
  <1>15. IsFiniteSet(InspectRegistrySelfPublish(f, early)) BY DEF InspectRegistrySelfPublish
  <1>16. IsFiniteSet(InspectHiddenNodeExec(f)) BY DEF InspectHiddenNodeExec
  <1>17. IsFiniteSet(InspectOnChainLoader(f)) BY DEF InspectOnChainLoader
  <1>18. IsFiniteSet(InspectCapabilities(f)) BY DEF InspectCapabilities
  <1> QED BY <1>1, <1>2, <1>3, <1>4, <1>5, <1>6, <1>7, <1>8, <1>9, <1>10, <1>11, <1>12, <1>13, <1>14,
             <1>15, <1>16, <1>17, <1>18, HintsAreFinite DEF Behaviour

LEMMA SurfacesAreFinite == \A f : IsFiniteSet(InspectAutoExecSurface(f))
  <1> TAKE f
  <1> USE FirstIsFinite, WhenIsFinite, UnionIsFinite, FewAreFinite
  <1>1. IsFiniteSet(InspectBindingGyp(f)) BY DEF InspectBindingGyp
  <1>2. IsFiniteSet(InspectExtconf(f)) BY DEF InspectExtconf
  <1>3. IsFiniteSet(InspectAgentHookConfig(f)) BY DEF InspectAgentHookConfig
  <1>4. IsFiniteSet(InspectAutoMcpConfig(f)) BY DEF InspectAutoMcpConfig
  <1>5. IsFiniteSet(InspectVscodeTasks(f)) BY DEF InspectVscodeTasks
  <1> QED BY <1>1, <1>2, <1>3, <1>4, <1>5 DEF InspectAutoExecSurface

LEMMA ManifestsAreFinite ==
    \A f : /\ IsFiniteSet(InspectPackageJson(f)) /\ IsFiniteSet(InspectSetupPy(f))
           /\ IsFiniteSet(InspectPyprojectBuild(f))
  <1> TAKE f
  <1> USE FirstIsFinite, WhenIsFinite, UnionIsFinite, FewAreFinite
  <1>1. IsFiniteSet(InspectPackageJson(f)) BY DEF InspectPackageJson
  <1>2. IsFiniteSet(InspectSetupPy(f)) BY DEF InspectSetupPy
  <1>3. IsFiniteSet(InspectPyprojectBuild(f)) BY DEF InspectPyprojectBuild
  <1> QED BY <1>1, <1>2, <1>3

\* What makes the findings of some evidence countable.
Countable(ev) ==
    /\ IsFiniteSet(ToSet(ev.files)) /\ IsFiniteSet(ev.unresolved) /\ IsFiniteSet(ev.spawns)
    /\ ev.vulns \in Nat /\ ev.attestation \in {"none", "match", "mismatch"}
    /\ ev.github \in {"none", "missing", "unreachable", "elsewhere", "found"}

LEMMA MetadataIsFinite ==
    ASSUME NEW ev, Countable(ev) PROVE IsFiniteSet(AuditMetadata(ev))
  <1> USE InIsFinite, WhenIsFinite, UnionIsFinite, FewAreFinite
  <1>1. IsFiniteSet(InspectManifests(ev))
    <2> DEFINE setup == ManifestsOf(ev, "setup.py")
               pyproject == ManifestsOf(ev, "pyproject.toml")
               one == [f \in setup |-> In(f, InspectSetupPy(ev.content[f]))]
               other == [f \in pyproject |-> In(f, InspectPyprojectBuild(ev.content[f]))]
    <2>1. setup \in SUBSET ToSet(ev.files) /\ pyproject \in SUBSET ToSet(ev.files) BY DEF ManifestsOf
    <2> HIDE DEF setup, pyproject
    <2>2. IsFiniteSet(setup) /\ IsFiniteSet(pyproject) BY <2>1, FS_Subset DEF Countable
    <2>3. \A f \in setup : IsFiniteSet(one[f]) BY ManifestsAreFinite
    <2>4. \A f \in pyproject : IsFiniteSet(other[f]) BY ManifestsAreFinite
    <2>5. /\ UNION {one[f] : f \in setup} = UNION {In(f, InspectSetupPy(ev.content[f])) : f \in setup}
          /\ UNION {other[f] : f \in pyproject}
               = UNION {In(f, InspectPyprojectBuild(ev.content[f])) : f \in pyproject}
      OBVIOUS
    <2> HIDE DEF one, other
    <2>6. IsFiniteSet(UNION {one[f] : f \in setup}) BY <2>2, <2>3, FamilyIsFinite
    <2>7. IsFiniteSet(UNION {other[f] : f \in pyproject}) BY <2>2, <2>4, FamilyIsFinite
    <2>8. /\ IsFiniteSet(UNION {In(f, InspectSetupPy(ev.content[f])) : f \in setup})
          /\ IsFiniteSet(UNION {In(f, InspectPyprojectBuild(ev.content[f])) : f \in pyproject})
      BY <2>5, <2>6, <2>7
    <2> QED BY <2>8, ManifestsAreFinite DEF InspectManifests, setup, pyproject
  <1>2. IsFiniteSet(InspectMetadataObject(ev)) BY DEF InspectMetadataObject
  <1>3. IsFiniteSet(InspectGithubMetadata(ev)) BY DEF InspectGithubMetadata, InspectMaintainerSurface, Countable
  <1>4. IsFiniteSet(InspectProvenance(ev)) BY DEF InspectProvenance, Countable
  <1>5. IsFiniteSet(InspectVulnerabilities(ev))
    <2> DEFINE N == Min({ev.vulns, 20})
               known == [n \in 1 .. N |-> Noted("known-vulnerability", "high", n)]
    <2>1. N \in Nat BY AtMost DEF Countable
    <2>2. {known[n] : n \in 1 .. N} = {Noted("known-vulnerability", "high", n) : n \in 1 .. N} OBVIOUS
    <2> HIDE DEF N, known
    <2>3. IsFiniteSet(1 .. N) BY <2>1, FS_Interval
    <2>4. IsFiniteSet({known[n] : n \in 1 .. N}) BY <2>3, ImageIsFinite
    <2> QED BY <2>2, <2>4 DEF InspectVulnerabilities, N
  <1>6. IsFiniteSet(InspectNpmVsGithubDiff(ev)) BY DEF InspectNpmVsGithubDiff
  <1> QED BY <1>1, <1>2, <1>3, <1>4, <1>5, <1>6 DEF AuditMetadata

LEMMA FilesAreFinite ==
    ASSUME NEW ev, Countable(ev)
    PROVE  /\ IsFiniteSet(InspectGraph(ev)) /\ IsFiniteSet(InspectLanguage(ev))
           /\ IsFiniteSet(InspectFiles(ev)) /\ IsFiniteSet(InspectCrossFileExfil(ev))
  <1> USE InIsFinite, WhenIsFinite, UnionIsFinite, FewAreFinite
  <1>1. IsFiniteSet(InspectGraph(ev))
    <2> DEFINE tables == {g \in ToSet(ev.files) : Runs(ev, g) /\ "string-table" \in Raw(ev.content[g])}
               one == [f \in ev.unresolved |-> In(f, {Flag("unresolved-runtime-execution", "medium")})]
               other == [f \in tables |-> In(f, {Flag("structural-obfuscation", "medium")})]
    <2>1. tables \in SUBSET ToSet(ev.files) OBVIOUS
    <2> HIDE DEF tables
    <2>2. IsFiniteSet(ev.unresolved) /\ IsFiniteSet(tables) BY <2>1, FS_Subset DEF Countable
    <2>3. \A f \in ev.unresolved : IsFiniteSet(one[f]) OBVIOUS
    <2>4. \A f \in tables : IsFiniteSet(other[f]) OBVIOUS
    <2>5. InspectGraph(ev) = (UNION {one[f] : f \in ev.unresolved}) \cup (UNION {other[f] : f \in tables})
      BY DEF InspectGraph, tables
    <2> HIDE DEF one, other
    <2>6. IsFiniteSet(UNION {one[f] : f \in ev.unresolved}) BY <2>2, <2>3, FamilyIsFinite
    <2>7. IsFiniteSet(UNION {other[f] : f \in tables}) BY <2>2, <2>4, FamilyIsFinite
    <2> QED BY <2>5, <2>6, <2>7
  <1>2. IsFiniteSet(InspectLanguage(ev)) BY DEF InspectLanguage
  <1>3. IsFiniteSet(InspectFiles(ev))
    <2> DEFINE all == [f \in ToSet(ev.files) |-> In(f, InspectAutoExecSurface(ev.content[f]) \cup InspectFile(ev, f))]
    <2>1. \A f : IsFiniteSet(InspectFile(ev, f)) BY TextIsFinite, BehaviourIsFinite DEF InspectFile
    <2>2. \A f \in ToSet(ev.files) : IsFiniteSet(all[f]) BY <2>1, SurfacesAreFinite
    <2>3. InspectFiles(ev) = UNION {all[f] : f \in ToSet(ev.files)} BY DEF InspectFiles
    <2>4. IsFiniteSet(ToSet(ev.files)) BY DEF Countable
    <2> HIDE DEF all
    <2> QED BY <2>2, <2>3, <2>4, FamilyIsFinite
  <1>4. IsFiniteSet(InspectCrossFileExfil(ev)) BY DEF InspectCrossFileExfil
  <1> QED BY <1>1, <1>2, <1>3, <1>4

LEMMA FindingsAreFinite ==
    ASSUME NEW ev, Countable(ev) PROVE IsFiniteSet(Findings(ev))
  <1> USE InIsFinite, WhenIsFinite, UnionIsFinite, FewAreFinite
  <1>1. IsFiniteSet(BaseFindings(ev)) BY MetadataIsFinite, FilesAreFinite DEF BaseFindings
  <1>2. IsFiniteSet(InspectArtifactOnlyMalware(ev, BaseFindings(ev)))
    <2> DEFINE odd == {h \in BaseFindings(ev) : /\ Serious(h)
                                                /\ h.category \in ArtifactCorrelationCategories
                                                /\ h.file \in Divergent(ev)}
               all == [g \in odd |-> In(g.file, {Keep("artifact-only-malware", "high")})]
    <2>1. odd \in SUBSET BaseFindings(ev) OBVIOUS
    <2>2. IsFiniteSet(odd) BY <1>1, <2>1, FS_Subset
    <2>3. InspectArtifactOnlyMalware(ev, BaseFindings(ev)) \in {{}, UNION {all[g] : g \in odd}}
      BY DEF InspectArtifactOnlyMalware
    <2>4. \A g \in odd : IsFiniteSet(all[g]) OBVIOUS
    <2> HIDE DEF odd, all
    <2> QED BY <2>2, <2>3, <2>4, FamilyIsFinite
  <1>3. IsFiniteSet(RawFindings(ev)) BY <1>1, <1>2 DEF RawFindings
  <1>4. IsFiniteSet(Downgrade(ev, RawFindings(ev)))
    <2> DEFINE f == [g \in RawFindings(ev) |->
                       IF g.severity = "high" /\ Downgraded(ev, g) THEN [g EXCEPT !.severity = "medium"] ELSE g]
    <2>1. Downgrade(ev, RawFindings(ev)) = {f[g] : g \in RawFindings(ev)} BY DEF Downgrade
    <2> HIDE DEF f
    <2> QED BY <1>3, <2>1, ImageIsFinite
  <1>5. \A noted : IsFiniteSet(HiddenLoaders(ev, noted))
    <2> TAKE noted
    <2> DEFINE hidden == {s \in ev.spawns : \E g \in noted : /\ g.file = s[2] /\ Serious(g)
                                                             /\ g.category \in TargetSignals}
               all == [e \in hidden |-> In(e[1], {Flag("hidden-local-loader", "high")})]
    <2>1. hidden \in SUBSET ev.spawns OBVIOUS
    <2>2. HiddenLoaders(ev, noted) = UNION {all[e] : e \in hidden} BY DEF HiddenLoaders
    <2>3. \A e \in hidden : IsFiniteSet(all[e]) OBVIOUS
    <2> HIDE DEF hidden, all
    <2>4. IsFiniteSet(hidden) BY <2>1, FS_Subset DEF Countable
    <2> QED BY <2>2, <2>3, <2>4, FamilyIsFinite
  <1>6. IsFiniteSet(FileFindings(ev)) BY <1>4, <1>5 DEF FileFindings
  <1>7. IsFiniteSet(ApplySelfScanDowngrade(FileFindings(ev)))
    <2> DEFINE noted == FileFindings(ev)
               f == [g \in noted |-> IF g.severity = "high" /\ g.category \notin SelfScanKeepSeverity
                                     THEN [g EXCEPT !.severity = "medium"] ELSE g]
    <2>1. ApplySelfScanDowngrade(noted)
            = {f[g] : g \in noted} \cup In("SELF_SCAN", {Flag("self-scan-verified", "info")})
      BY DEF ApplySelfScanDowngrade
    <2> HIDE DEF f
    <2>2. IsFiniteSet({f[g] : g \in noted}) BY <1>6, ImageIsFinite
    <2> QED BY <2>1, <2>2
  <1> QED BY <1>6, <1>7 DEF Findings

-----------------------------------------------------------------------------
(* More findings never make a better grade.                                  *)

LEMMA OfTwo ==
    \A a, b \in Int : /\ Max({a, b}) = (IF a >= b THEN a ELSE b)
                      /\ Min({a, b}) = (IF a <= b THEN a ELSE b)
  <1> TAKE a, b \in Int
  <1>1. \E x \in {a, b} : \A y \in {a, b} : x >= y OBVIOUS
  <1>2. Max({a, b}) \in {a, b} /\ \A y \in {a, b} : Max({a, b}) >= y BY <1>1 DEF Max
  <1>3. \E x \in {a, b} : \A y \in {a, b} : x <= y OBVIOUS
  <1>4. Min({a, b}) \in {a, b} /\ \A y \in {a, b} : Min({a, b}) <= y BY <1>3 DEF Min
  <1> QED BY <1>2, <1>4

LEMMA MoreCount ==
    ASSUME NEW A, NEW B, A \subseteq B, IsFiniteSet(B)
    PROVE  Cardinality(A) \in Nat /\ Cardinality(B) \in Nat /\ Cardinality(A) <= Cardinality(B)
  BY FS_Subset, FS_CardinalityType

LEMMA ParameterIsMonotone ==
    ASSUME NEW A, NEW B, A \subseteq B, IsFiniteSet(B), NEW categories
    PROVE  /\ ScoreParameter(A, categories) \in Int /\ ScoreParameter(B, categories) \in Int
           /\ ScoreParameter(B, categories) <= ScoreParameter(A, categories)
  <1> DEFINE of(S, severity) == {g \in S : g.category \in categories /\ g.severity = severity}
             n(S, severity) == Cardinality(of(S, severity))
             points(S) == 100 - 70 * n(S, "high") - 35 * n(S, "medium") - 15 * n(S, "low") - 5 * n(S, "info")
  <1>1. \A severity : n(A, severity) \in Nat /\ n(B, severity) \in Nat /\ n(A, severity) <= n(B, severity)
    <2> TAKE severity
    <2>1. of(A, severity) \subseteq of(B, severity) /\ of(B, severity) \in SUBSET B OBVIOUS
    <2> HIDE DEF of
    <2>2. IsFiniteSet(of(B, severity)) BY <2>1, FS_Subset
    <2> QED BY <2>1, <2>2, MoreCount
  <1>2. ScoreParameter(A, categories) = Max({0, points(A)}) /\ ScoreParameter(B, categories) = Max({0, points(B)})
    BY DEF ScoreParameter
  <1> HIDE DEF n
  <1>3. points(A) \in Int /\ points(B) \in Int /\ points(B) <= points(A) BY <1>1
  <1> HIDE DEF points
  <1> QED BY <1>2, <1>3, OfTwo

LEMMA CompletenessIsMonotone ==
    ASSUME NEW A, NEW B, A \subseteq B, NEW srcs \in BOOLEAN
    PROVE  /\ EvidenceCompletenessScore(A, srcs) \in Int /\ EvidenceCompletenessScore(B, srcs) \in Int
           /\ EvidenceCompletenessScore(B, srcs) <= EvidenceCompletenessScore(A, srcs)
  <1> DEFINE has(S, category) == \E g \in S : g.category = category
             about(S, file) == \E g \in S : g.file = file
             points(S) == 100 - Lost(~srcs, 70) - Lost(has(S, "missing-package-json"), 20)
                          - Lost(about(S, "NPM_METADATA"), 5) - Lost(about(S, "GITHUB_METADATA"), 5)
                          - Lost(has(S, "vulnerability-data-unavailable"), 15)
  <1>1. /\ EvidenceCompletenessScore(A, srcs) = Max({0, points(A)})
        /\ EvidenceCompletenessScore(B, srcs) = Max({0, points(B)})
    BY DEF EvidenceCompletenessScore
  <1>2. \A x : (has(A, x) => has(B, x)) /\ (about(A, x) => about(B, x)) OBVIOUS
  <1> HIDE DEF has, about
  <1>3. points(A) \in Int /\ points(B) \in Int /\ points(B) <= points(A) BY <1>2 DEF Lost
  <1> HIDE DEF points
  <1> QED BY <1>1, <1>3, OfTwo

LEMMA CapIsMonotone ==
    ASSUME NEW A, NEW B, A \subseteq B, NEW a \in Int, NEW b \in Int, b <= a
    PROVE  CapScoreBySeverity(b, B) <= CapScoreBySeverity(a, A)
  <1> DEFINE high(S) == \E g \in S : g.severity = "high"
             medium(S) == \E g \in S : g.severity = "medium"
             least(x, y) == IF x <= y THEN x ELSE y
             capped(x, S) == IF high(S) THEN least(x, 59) ELSE IF medium(S) THEN least(x, 79) ELSE x
  <1>1. \A x, y \in Int : Min({x, y}) = least(x, y) BY OfTwo
  <1>2. (high(A) => high(B)) /\ (medium(A) => medium(B)) OBVIOUS
  <1>3. CapScoreBySeverity(b, B) = capped(b, B) /\ CapScoreBySeverity(a, A) = capped(a, A)
    <2> PICK m \in Int, n \in Int : m = 59 /\ n = 79 OBVIOUS
    <2> HIDE DEF least
    <2>1. \A x \in Int : Min({x, m}) = least(x, m) /\ Min({x, n}) = least(x, n) BY <1>1
    <2>2. \A x \in Int : Min({x, 59}) = least(x, 59) /\ Min({x, 79}) = least(x, 79) BY <2>1
    <2> QED BY <2>2 DEF CapScoreBySeverity
  <1> HIDE DEF high, medium
  <1>4. capped(b, B) <= capped(a, A) BY <1>2
  <1> QED BY <1>3, <1>4

LEMMA GradeIsMonotone ==
    ASSUME NEW A, NEW B, A \subseteq B, IsFiniteSet(B), NEW srcs \in BOOLEAN
    PROVE  GradeEvidence(B, srcs) <= GradeEvidence(A, srcs)
  <1> DEFINE p(S, name) == ScoreParameter(S, Parameters[name])
             complete(S) == EvidenceCompletenessScore(S, srcs)
             total(S) == complete(S)
                         + 2 * (p(S, "installHooks") + p(S, "persistence") + p(S, "obfuscation")
                                + p(S, "provenance") + p(S, "injectionResistance"))
                         + 3 * (p(S, "codeExecution") + p(S, "dataAccess") + p(S, "networkExposure")
                                + p(S, "knownVulnerabilities"))
             mean(S) == (2 * total(S) + 23) \div 46
  <1>1. \A name : p(A, name) \in Int /\ p(B, name) \in Int /\ p(B, name) <= p(A, name)
    BY ParameterIsMonotone
  <1>2. complete(A) \in Int /\ complete(B) \in Int /\ complete(B) <= complete(A)
    BY CompletenessIsMonotone
  <1>3. /\ GradeEvidence(A, srcs) = CapScoreBySeverity(mean(A), A)
        /\ GradeEvidence(B, srcs) = CapScoreBySeverity(mean(B), B)
    BY DEF GradeEvidence
  <1> HIDE DEF p, complete
  <1>4. total(A) \in Int /\ total(B) \in Int /\ total(B) <= total(A) BY <1>1, <1>2
  <1> HIDE DEF total
  <1>5. mean(A) \in Int /\ mean(B) \in Int /\ mean(B) <= mean(A)
    <2>1. \A x, y \in Int : x <= y => /\ (2 * x + 23) \div 46 \in Int /\ (2 * y + 23) \div 46 \in Int
                                      /\ (2 * x + 23) \div 46 <= (2 * y + 23) \div 46
      OBVIOUS
    <2> QED BY <1>4, <2>1
  <1> HIDE DEF mean
  <1> QED BY <1>3, <1>5, CapIsMonotone

-----------------------------------------------------------------------------
(* The verdict.                                                              *)

LEMMA VerdictIsMonotone ==
    ASSUME NEW ev, NEW w, w.files = ev.files, Findings(w) \subseteq Findings(ev)
    PROVE  Severity[Verdict(ev)] >= Severity[Verdict(w)]
  <1> DEFINE high(x) == \E g \in Findings(x) : g.severity = "high"
             some(x) == x.files = << >>
                        \/ \E g \in Findings(x) : g.severity = "medium" \/ g.category \in Evidential
  <1>1. \A x : Verdict(x) = IF high(x) THEN "block" ELSE IF some(x) THEN "review" ELSE "safe"
    BY DEF Verdict, DecideVerdict
  <1>2. (high(w) => high(ev)) /\ (some(w) => some(ev)) OBVIOUS
  <1> HIDE DEF high, some
  <1>3. Severity["safe"] = 0 /\ Severity["review"] = 1 /\ Severity["block"] = 2 BY DEF Severity
  <1>4. CASE high(ev) BY <1>1, <1>3, <1>4
  <1>5. CASE ~high(ev) /\ some(ev) BY <1>1, <1>2, <1>3, <1>5
  <1>6. CASE ~high(ev) /\ ~some(ev) BY <1>1, <1>2, <1>3, <1>6
  <1> QED BY <1>4, <1>5, <1>6

LEMMA EvidenceIsCountable ==
    ASSUME ScanInv, NEW about \in Surroundings PROVE Countable(EvidenceOf(about))
  <1> DEFINE ev == EvidenceOf(about)
  <1>1. read \subseteq Names /\ IsFiniteSet(Names)
    BY RequiredAt, NamesAreFinite, PackageFits DEF ScanInv, CollectionInv, CollectionTypes
  <1>2. IsFiniteSet(read) BY <1>1, FS_Subset
  <1>3. ev.files = readOrder /\ ev.spawns = ConcealedIn(facts \ over) /\ ev.unresolved = {g[1] : g \in graphGaps}
        /\ ev.vulns = about.vulns /\ ev.attestation = about.attestation /\ ev.github = about.github
    BY DEF EvidenceOf
  <1>4. about.vulns \in Nat /\ about.attestation \in {"none", "match", "mismatch"}
        /\ about.github \in {"none", "missing", "unreachable", "elsewhere", "found"}
    BY SurroundingsAssumption
  <1>5. IsFiniteSet(ToSet(ev.files)) BY <1>2, <1>3 DEF read
  <1>6. IsFiniteSet(ev.spawns)
    <2>1. IsFiniteSet(facts \X read) BY <1>2, FS_Product DEF ScanInv, EvidenceInv
    <2>2. ConcealedIn(facts \ over) \in SUBSET (facts \X read) BY DEF ConcealedIn
    <2> QED BY <1>3, <2>1, <2>2, FS_Subset
  <1>7. IsFiniteSet(ev.unresolved)
    <2> DEFINE f == [g \in graphGaps |-> g[1]]
    <2>1. IsFiniteSet(graphGaps) BY DEF ScanInv, EvidenceInv
    <2>2. ev.unresolved = {f[g] : g \in graphGaps} BY <1>3
    <2> HIDE DEF f, ev
    <2> QED BY <2>1, <2>2, ImageIsFinite
  <1> HIDE DEF ev
  <1>8. Countable(ev) BY <1>3, <1>4, <1>5, <1>6, <1>7 DEF Countable
  <1> QED BY <1>8 DEF ev

LEMMA NothingIsOffset == ASSUME ScanInv PROVE ProvenanceNeverOffsets
  <1> DEFINE w == [Ev EXCEPT !.attestation = "none"]
             srcs == Ev.files # << >>
  <1> SUFFICES ASSUME Audited
               PROVE  /\ Severity[Verdict(Ev)] >= Severity[Verdict(w)]
                      /\ GradeEvidence(Findings(Ev), srcs) <= GradeEvidence(Findings(w), srcs)
    BY DEF ProvenanceNeverOffsets
  <1>1. PICK about \in Surroundings : Ev = EvidenceOf(about) BY DEF ScanInv, EvidenceInv, IsEvidence
  <1>2. Agree(Ev, w) BY <1>1 DEF EvidenceOf, Agree
  <1>3. Countable(Ev) BY <1>1, EvidenceIsCountable
  <1>4. w.files = Ev.files BY <1>2 DEF Agree
  <1> HIDE DEF w
  <1>5. Findings(w) \subseteq Findings(Ev) BY <1>2, FewerFindings
  <1>6. IsFiniteSet(Findings(Ev)) BY <1>3, FindingsAreFinite
  <1>7. srcs \in BOOLEAN OBVIOUS
  <1> HIDE DEF srcs
  <1>8. GradeEvidence(Findings(Ev), srcs) <= GradeEvidence(Findings(w), srcs)
    BY <1>5, <1>6, <1>7, GradeIsMonotone
  <1> QED BY <1>4, <1>5, <1>8, VerdictIsMonotone

-----------------------------------------------------------------------------
(* The comparison with the repository.                                       *)

\* The walk of a tree knows only files it was given.
TreeType(K) == [known : SUBSET K, hashed : SUBSET K, count : Nat, bytes : Nat]
LEMMA HashTreeFits ==
    ASSUME NEW K, NEW paths \in Seq(K), NEW size, \A f \in K : size[f] \in Nat,
           NEW wanted, NEW countsAll
    PROVE  HashTree(paths, size, wanted, countsAll) \in TreeType(K)
  <1> DEFINE N == Len(paths)
             V == TreeType(K)
             fits(t, f) == f \in wanted /\ size[f] <= MaxTreeFile /\ t.bytes + size[f] <= MaxTreeBytes
             After(t, i) ==
                 IF t.count >= MaxTreeFiles \/ t.bytes >= MaxTreeBytes THEN t
                 ELSE [known |-> t.known \cup {paths[i]},
                       hashed |-> IF fits(t, paths[i]) THEN t.hashed \cup {paths[i]} ELSE t.hashed,
                       count |-> IF fits(t, paths[i]) \/ countsAll THEN t.count + 1 ELSE t.count,
                       bytes |-> IF fits(t, paths[i]) THEN t.bytes + size[paths[i]] ELSE t.bytes]
             none == [known |-> {}, hashed |-> {}, count |-> 0, bytes |-> 0]
             G == [i \in 1 .. N |-> [t \in V |-> After(t, i)]]
             E(w) == w = [i \in 0 .. N |-> IF i = 0 THEN none ELSE After(w[i - 1], i)]
  <1>1. N \in Nat /\ \A i \in 1 .. N : paths[i] \in K OBVIOUS
  <1>2. ASSUME NEW i \in 1 .. N, NEW t \in V PROVE After(t, i) \in V
    <2>1. /\ t.known \in SUBSET K /\ t.hashed \in SUBSET K /\ t.count \in Nat /\ t.bytes \in Nat
          /\ paths[i] \in K /\ size[paths[i]] \in Nat
      BY <1>1 DEF TreeType
    <2> HIDE DEF fits, N
    <2> QED BY <2>1 DEF TreeType
  <1>3. none \in V BY DEF TreeType
  <1>4. PICK w \in [0 .. N -> V] : Computes(w, none, G, N)
    <2>1. G \in StepFunctions(N, V)
      <3> HIDE DEF After, N, V
      <3> QED BY <1>2 DEF StepFunctions
    <2> HIDE DEF G, N, V, none
    <2> QED BY <1>1, <1>3, <2>1, Recursion
  <1>5. ASSUME NEW i \in 1 .. N PROVE w[i] = After(w[i - 1], i)
    <2>1. w[i - 1] \in V BY <1>1
    <2>2. w[i] = G[i][w[i - 1]] BY <1>4 DEF Computes
    <2>3. G[i] = [t \in V |-> After(t, i)] OBVIOUS
    <2> HIDE DEF G, V, After, N, none
    <2> QED BY <2>1, <2>2, <2>3
  <1>6. E(w)
    <2>1. w[0] = none BY <1>4 DEF Computes
    <2>2. ASSUME NEW i \in 0 .. N PROVE w[i] = IF i = 0 THEN none ELSE After(w[i - 1], i)
      <3>1. CASE i = 0 BY <2>1, <3>1
      <3>2. CASE i # 0
        <4>1. i \in 1 .. N BY <3>2, <1>1
        <4> HIDE DEF After, N, V, G, none
        <4> QED BY <4>1, <1>5, <3>2
      <3> QED BY <3>1, <3>2
    <2>3. w = [i \in 0 .. N |-> w[i]] OBVIOUS
    <2> HIDE DEF G, V, N, After, none
    <2> QED BY <2>2, <2>3
  <1>7. E(CHOOSE v : E(v))
    <2> HIDE DEF E
    <2> QED BY <1>6, Zenon
  <1> DEFINE v == CHOOSE h : E(h)
  <1>8. HashTree(paths, size, wanted, countsAll) = v[N] BY DEF HashTree
  <1>9. v[0] = none /\ \A i \in 1 .. N : v[i] = After(v[i - 1], i)
    <2>1. E(v) BY <1>7
    <2>2. v = [i \in 0 .. N |-> IF i = 0 THEN none ELSE After(v[i - 1], i)] BY <2>1
    <2>3. 0 \in 0 .. N BY <1>1
    <2> HIDE DEF v, G, V, N, After, E, none
    <2>4. v[0] = none BY <2>2, <2>3
    <2>5. ASSUME NEW i \in 1 .. N PROVE v[i] = After(v[i - 1], i)
      <3>1. i \in 0 .. N /\ i # 0 BY <1>1
      <3> QED BY <2>2, <3>1
    <2> QED BY <2>4, <2>5
  <1> HIDE DEF v, E, G, After, none
  <1> DEFINE T == {k \in Nat : k <= N => v[k] \in V}
  <1>10. 0 \in T BY <1>3, <1>9
  <1>11. ASSUME NEW k \in Nat, k \in T PROVE k + 1 \in T
    <2> SUFFICES ASSUME k + 1 <= N PROVE v[k + 1] \in V OBVIOUS
    <2>1. k + 1 \in 1 .. N /\ v[k] \in V /\ v[k + 1] = After(v[k], k + 1) BY <1>9, <1>11
    <2> HIDE DEF N, V
    <2> QED BY <1>2, <2>1
  <1>12. Nat \subseteq T
    <2> HIDE DEF T
    <2> QED BY <1>10, <1>11, Counting
  <1>13. N \in T BY <1>1, <1>12
  <1> QED BY <1>1, <1>8, <1>13

LEMMA KnownIsPackaged ==
    ASSUME package \in Packages, NEW repo PROVE Trees(repo).npm.known \subseteq package.files
  <1> DEFINE wanted == IF Selective(repo) THEN PairedPaths(repo) ELSE NpmFiles
             npm == HashTree(InOrder(Walked), package.size, wanted, Selective(repo))
  <1>1. /\ Order \in Seq(STRING) /\ package.files \subseteq Names
        /\ \A f \in package.files : package.size[f] \in Nat
    BY PackageFits DEF WellFormed
  <1>2. Walked \subseteq package.files BY DEF Walked
  <1>3. InOrder(Walked) \in Seq(Names) /\ ToSet(InOrder(Walked)) \subseteq package.files
    BY <1>1, <1>2, InOrderIs
  <1>4. InOrder(Walked) \in Seq(package.files)
    <2> DEFINE s == InOrder(Walked)
    <2>1. DOMAIN s = 1 .. Len(s) /\ Len(s) \in Nat /\ s = [n \in 1 .. Len(s) |-> s[n]] BY <1>3
    <2>2. \A n \in 1 .. Len(s) : s[n] \in package.files BY <1>3, <2>1 DEF ToSet
    <2> HIDE DEF s
    <2>3. s \in Seq(package.files) BY <2>1, <2>2
    <2> QED BY <2>3 DEF s
  <1>5. npm \in TreeType(package.files) BY <1>1, <1>4, HashTreeFits
  <1>6. npm.known \subseteq package.files BY <1>5 DEF TreeType
  <1>7. Trees(repo).npm = npm BY DEF Trees
  <1> HIDE DEF npm
  <1> QED BY <1>6, <1>7

\* A report names at least one file of a list that has any.
LEMMA SomeAreListed ==
    ASSUME NEW fs, fs \cap Names # {}, Order \in Seq(STRING) PROVE FirstListed(fs) # {}
  <1> DEFINE s == InOrder(fs)
  <1>1. s \in Seq(Names) /\ ToSet(s) # {} BY InOrderIs
  <1>2. 1 \in DOMAIN s
    <2> HIDE DEF s
    <2> QED BY <1>1 DEF ToSet
  <1>3. s[1] \in FirstListed(fs) BY <1>2, DiffAssumption DEF FirstListed
  <1> QED BY <1>3

\* A divergence in a concealed start is reported, whatever else the comparison found.
LEMMA ConcealedDivergenceIsNamed ==
    ASSUME package \in Packages, NEW repo, ~TreeMissing(repo),
           NEW f \in ExecutionFiles, f \in Considered(Trees(repo)),
           f \in Extra(Trees(repo)) \/
             f \in (Common(Trees(repo)) \cap Hashed(Trees(repo))) \ Trees(repo).repo.same
    PROVE  /\ DiffNpmVsGithub(repo).compared
           /\ DiffNpmVsGithub(repo).extra # {} \/ DiffNpmVsGithub(repo).altered # {}
  <1> DEFINE t == Trees(repo)
  <1>1. f \in t.execution BY DEF Trees
  <1>2. f \in Names BY KnownIsPackaged, PackageFits DEF Considered
  <1> HIDE DEF t
  <1>3. f \in ExtraSource(t) \/ f \in MismatchedSource(t)
    BY <1>1 DEF ExtraSource, MismatchedSource, Mismatched, t
  <1>4. ExecutionDivergence(t) BY <1>1, <1>3 DEF ExecutionDivergence
  <1>5. DiffNpmVsGithub(repo) =
          [compared |-> TRUE, walked |-> t.npm.known # {}, matched |-> Matched(t) # {},
           extra |-> FirstListed(ExtraSource(t)), altered |-> FirstListed(MismatchedSource(t))]
    BY <1>4 DEF DiffNpmVsGithub, DiffTrees, t
  <1>6. FirstListed(ExtraSource(t)) # {} \/ FirstListed(MismatchedSource(t)) # {}
    BY <1>2, <1>3, SomeAreListed, PackageFits
  <1> QED BY <1>5, <1>6

\* A finding for review stays one, unless the package is the scanner itself.
LEMMA MediumIsKept ==
    ASSUME NEW ev, NEW g \in RawFindings(ev), g.severity = "medium", ~IsVerifiedSelfScan(ev)
    PROVE  Verdict(ev) # "safe"
  <1>1. g \in Downgrade(ev, RawFindings(ev)) BY DEF Downgrade
  <1>2. g \in Findings(ev) BY <1>1 DEF Findings, FileFindings
  <1> QED BY <1>2, SafeVerdict

LEMMA DivergenceIsReported ==
    ASSUME NEW ev, ev.diff.compared, Divergent(ev) # {} PROVE Verdict(ev) # "safe"
  <1> DEFINE d(note) == [category |-> "npm-vs-github-divergence", severity |-> "medium",
                         file |-> "NPM_VS_GITHUB", keep |-> FALSE, note |-> note]
             noted == When(ev.diff.extra # {}, Flag("npm-vs-github-divergence", "medium"))
                      \cup When(ev.diff.altered # {}, Noted("npm-vs-github-divergence", "medium", "altered"))
                      \cup When(Divergent(ev) = {} /\ ev.diff.walked, Flag("npm-vs-github-clean", "info"))
  <1>1. \E note : d(note) \in InspectNpmVsGithubDiff(ev)
    <2>1. InspectNpmVsGithubDiff(ev) = In("NPM_VS_GITHUB", noted) BY DEF InspectNpmVsGithubDiff
    <2>2. Noted("npm-vs-github-divergence", "medium", "") \in noted
          \/ Noted("npm-vs-github-divergence", "medium", "altered") \in noted
      BY DEF When, Flag, Divergent
    <2> HIDE DEF noted
    <2>3. ASSUME NEW note, Noted("npm-vs-github-divergence", "medium", note) \in noted
          PROVE  d(note) \in In("NPM_VS_GITHUB", noted)
      <3> DEFINE g == Noted("npm-vs-github-divergence", "medium", note)
      <3>1. /\ g.category = "npm-vs-github-divergence" /\ g.severity = "medium" /\ g.keep = FALSE
            /\ g.note = note
        BY DEF Noted
      <3>2. g \in noted BY <2>3
      <3> HIDE DEF g
      <3> QED BY <3>1, <3>2 DEF In
    <2> QED BY <2>1, <2>2, <2>3
  <1>2. PICK note : d(note) \in InspectNpmVsGithubDiff(ev) BY <1>1
  <1>3. d(note).severity = "medium" OBVIOUS
  <1> HIDE DEF d
  <1>4. d(note) \in RawFindings(ev) BY <1>2 DEF RawFindings, BaseFindings, AuditMetadata
  <1>5. ~IsVerifiedSelfScan(ev) BY DEF IsVerifiedSelfScan
  <1> QED BY <1>3, <1>4, <1>5, MediumIsKept

LEMMA ArtifactsBlock ==
    ASSUME NEW ev, ev.diff.compared, NEW g \in BaseFindings(ev), g.file \in Divergent(ev),
           Serious(g), g.category \in ArtifactCorrelationCategories
    PROVE  Verdict(ev) = "block"
  <1> DEFINE a == [category |-> "artifact-only-malware", severity |-> "high", file |-> g.file,
                   keep |-> TRUE, note |-> ""]
  <1>1. a \in In(g.file, {Keep("artifact-only-malware", "high")})
    <2> DEFINE g1 == Keep("artifact-only-malware", "high")
    <2>1. /\ g1.category = "artifact-only-malware" /\ g1.severity = "high" /\ g1.keep = TRUE /\ g1.note = ""
      BY DEF Keep, Flag, Noted
    <2> HIDE DEF g1
    <2>2. a \in In(g.file, {g1}) BY <2>1 DEF In
    <2> QED BY <2>2 DEF g1
  <1>2. a \in InspectArtifactOnlyMalware(ev, BaseFindings(ev)) BY <1>1 DEF InspectArtifactOnlyMalware
  <1>3. a \in RawFindings(ev) BY <1>2 DEF RawFindings
  <1>4. a.severity = "high" /\ ~Downgraded(ev, a)
    BY DEF Downgraded, DowngradeInTest, DowngradeInBuildOutput
  <1>5. ~IsVerifiedSelfScan(ev) BY DEF IsVerifiedSelfScan
  <1> HIDE DEF a
  <1>6. \E h \in Findings(ev) : h.severity = "high" BY <1>3, <1>4, <1>5, HighIsKept
  <1> QED BY <1>6, BlockVerdict

LEMMA DivergenceCounts == ASSUME ScanInv PROVE DivergenceIsNoNoise
  <1> DEFINE repo == Ev.repo[1]
  <1> SUFFICES ASSUME Audited, DiffRuns(Ev), ~TreeMissing(repo),
                      NEW f \in ExecutionFiles, f \in Considered(Trees(repo)),
                      f \in Extra(Trees(repo)) \/
                        f \in (Common(Trees(repo)) \cap Hashed(Trees(repo))) \ Trees(repo).repo.same
               PROVE  /\ Verdict(Ev) # "safe"
                      /\ f \in Divergent(Ev) /\ (\E g \in BaseFindings(Ev) :
                             g.file = f /\ Serious(g) /\ g.category \in ArtifactCorrelationCategories)
                         => Verdict(Ev) = "block"
    BY DEF DivergenceIsNoNoise
  <1>1. PICK about \in Surroundings : Ev = EvidenceOf(about) BY DEF ScanInv, EvidenceInv, IsEvidence
  <1>2. /\ Ev.npm = about.npm /\ Ev.github = about.github /\ Ev.vulns = about.vulns /\ Ev.repo = about.repo
        /\ Ev.diff = IF DiffRuns(about) THEN DiffNpmVsGithub(about.repo[1]) ELSE NoDiff
    BY <1>1 DEF EvidenceOf
  <1>3. DiffRuns(about) BY <1>2 DEF DiffRuns
  <1>4. Ev.diff = DiffNpmVsGithub(repo) BY <1>2, <1>3
  <1>5. package \in Packages BY DEF ScanInv, CollectionInv, CollectionTypes
  <1> HIDE DEF repo
  <1>6. Ev.diff.compared /\ (Ev.diff.extra # {} \/ Ev.diff.altered # {})
    BY <1>4, <1>5, ConcealedDivergenceIsNamed
  <1>7. Divergent(Ev) # {} BY <1>6 DEF Divergent
  <1> QED BY <1>6, <1>7, DivergenceIsReported, ArtifactsBlock

\* For any package, limits and surroundings of a scan (auditEvidence): a safe verdict is one of files
\* that were read whole and went through the behavioural detectors, nothing high is cleared by a
\* downgrade, what the install hooks lead to blocks, a provenance statement offsets nothing, and no
\* noise of the comparison with the repository hides a difference in what is started concealed.
THEOREM VerdictsHold == AuditSpec => []VerdictsAreEarned
  <1>1. AuditInit => ScanInv
    BY CollectionStarts, GraphStarts, EvidenceStarts DEF AuditInit, ScanInv
  <1>2. ScanInv /\ [AuditNext]_auditVars => ScanInv'
    BY ScanKeeps, EvidenceKeeps DEF ScanInv
  <1>3. ScanInv => VerdictsAreEarned
    BY SafeIsInspected, HookedBlocks, NothingIsCleared, NothingIsOffset, DivergenceCounts DEF VerdictsAreEarned
  <1> QED BY <1>1, <1>2, <1>3, PTL DEF AuditSpec
-----------------------------------------------------------------------------
(* The guard pipeline. *)

Places == {"begin", "stage", "precheck", "acquire", "refetch", "verify", "reverify", "populate", "populating",
           "extract", "collect", "dependencies", "decide", "promote", "copy", "cleanup", "done", "dead"}

GuardTypes ==
    /\ pc \in [Guards -> Places]
    /\ archive \in [Guards -> Contents]
    /\ tree \in [Guards -> Contents]
    /\ workspace \in [Guards -> BOOLEAN]
    /\ DOMAIN faults = Guards

\* What is kept in the private workspace between the verification and the unpacking.
HeldIsVerified == \A g \in Guards : pc[g] \in {"populate", "populating", "extract"} => archive[g] = "good"

CacheIsContent == cache \in Contents

GuardInv == GuardTypes /\ CacheIsContent /\ HeldIsVerified /\ UnpackedIsVerified /\ WorkspacesAreReclaimed

-----------------------------------------------------------------------------

LEMMA GuardStarts == Init => GuardInv
  <1> SUFFICES ASSUME Init PROVE GuardInv
    OBVIOUS
  <1>1. /\ pc = [g \in Guards |-> "begin"] /\ archive = [g \in Guards |-> "none"]
        /\ tree = [g \in Guards |-> "none"] /\ workspace = [g \in Guards |-> FALSE]
        /\ faults = [g \in Guards |-> {}]
    BY DEF Init
  <1>2. GuardTypes
    BY <1>1 DEF GuardTypes, Contents, Places
  <1>3. CacheIsContent
    BY DEF Init, CacheIsContent, Contents
  <1>4. HeldIsVerified
    BY <1>1 DEF HeldIsVerified
  <1>5. UnpackedIsVerified
    BY <1>1 DEF UnpackedIsVerified
  <1>6. WorkspacesAreReclaimed
    BY <1>1 DEF WorkspacesAreReclaimed
  <1> QED
    BY <1>2, <1>3, <1>4, <1>5, <1>6 DEF GuardInv

\* A step of one guard that moves on from its place without touching what it holds.
Moves(g) ==
    /\ UNCHANGED <<request, workspace, archive, tree>>
    /\ cache' \in Contents
    /\ \E step \in Places :
         /\ pc' = [pc EXCEPT ![g] = step]
         /\ step \notin {"done", "populate"}
         /\ step \in {"populating", "extract"} => pc[g] \in {"populate", "populating"}
    /\ DOMAIN faults' = Guards /\ \A h \in Guards \ {g} : faults'[h] = faults[h]

LEMMA MovesKeep == ASSUME GuardInv, NEW g \in Guards, Moves(g) PROVE GuardInv'
  BY DEF Places, CacheIsContent, Moves, GuardInv, GuardTypes, Contents, HeldIsVerified, UnpackedIsVerified, WorkspacesAreReclaimed

LEMMA GuardSteps == GuardInv /\ [Next]_vars => GuardInv'
  <1> SUFFICES ASSUME GuardInv, [Next]_vars PROVE GuardInv'
    OBVIOUS
  <1> USE DEF Places, CacheIsContent, At, Goto, Throw, files, results, shared
  <1>0. GuardTypes /\ cache \in Contents
    BY DEF GuardInv
  <1>1. ASSUME NEW g \in Guards, Begin(g) PROVE GuardInv'
    BY <1>1 DEF Begin, GuardInv, GuardTypes, Contents, HeldIsVerified, UnpackedIsVerified,
                WorkspacesAreReclaimed
  <1>2. ASSUME NEW g \in Guards, Stage(g) PROVE GuardInv'
    BY <1>2 DEF Stage, GuardInv, GuardTypes, Contents, HeldIsVerified, UnpackedIsVerified,
                WorkspacesAreReclaimed
  <1>3. ASSUME NEW g \in Guards,
               \/ StageFails(g) \/ Precheck(g) \/ SkipDownload(g) \/ DownloadFails(g)
        PROVE  GuardInv'
    <2>1. Moves(g)
      BY <1>0, <1>3 DEF StageFails, Precheck, SkipDownload, DownloadFails, Moves, GuardTypes
    <2> QED
      BY <2>1, MovesKeep
  <1>4. ASSUME NEW g \in Guards,
               \/ PopulateBegins(g) \/ PopulateEnds(g) \/ ExtractFails(g) \/ Collect(g) \/ CollectFails(g)
               \/ ScanDependencies(g) \/ PromoteBegins(g) \/ PromoteCopies(g) \/ Crash(g)
        PROVE  GuardInv'
    <2>1. Moves(g)
      BY <1>0, <1>4 DEF PopulateBegins, PopulateEnds, ExtractFails, Collect, CollectFails, ScanDependencies,
                        PromoteBegins, PromoteCopies, Crash, Moves, GuardTypes, Contents
    <2> QED
      BY <2>1, MovesKeep
  <1>5. ASSUME NEW g \in Guards, Decide(g) PROVE GuardInv'
    <2>1. UNCHANGED <<request, workspace, archive, tree, faults, cache>>
      BY <1>5 DEF Decide
    <2>2. pc' = [pc EXCEPT ![g] = "promote"] \/ pc' = [pc EXCEPT ![g] = "cleanup"]
      BY <1>5 DEF Decide
    <2>3. Moves(g)
      BY <1>0, <2>1, <2>2 DEF Moves, GuardTypes
    <2> QED
      BY <2>3, MovesKeep
  <1>6. ASSUME NEW g \in Guards, TakeArchive(g) \/ Download(g) PROVE GuardInv'
    BY <1>6 DEF TakeArchive, Download, GuardInv, GuardTypes, Contents, HeldIsVerified, UnpackedIsVerified,
                WorkspacesAreReclaimed
  <1>7. ASSUME NEW g \in Guards, TakeCached(g) PROVE GuardInv'
    BY <1>7 DEF TakeCached, GuardInv, GuardTypes, Contents, HeldIsVerified, UnpackedIsVerified,
                WorkspacesAreReclaimed
  <1>8. ASSUME NEW g \in Guards, Verify(g) PROVE GuardInv'
    BY <1>8 DEF Verify, Verified, GuardInv, GuardTypes, Contents, HeldIsVerified, UnpackedIsVerified,
                WorkspacesAreReclaimed
  <1>9. ASSUME NEW g \in Guards, VerifyFails(g) PROVE GuardInv'
    BY <1>9 DEF VerifyFails, GuardInv, GuardTypes, Contents, HeldIsVerified, UnpackedIsVerified,
                WorkspacesAreReclaimed
  <1>10. ASSUME NEW g \in Guards, Extract(g) PROVE GuardInv'
    BY <1>10 DEF Extract, GuardInv, GuardTypes, Contents, HeldIsVerified, UnpackedIsVerified,
                 WorkspacesAreReclaimed
  <1>11. ASSUME NEW g \in Guards, Cleanup(g) PROVE GuardInv'
    <2>1. /\ UNCHANGED request /\ pc' = [pc EXCEPT ![g] = "done"]
          /\ \/ request[g].keep /\ UNCHANGED <<workspace, archive, tree, faults>>
             \/ /\ workspace' = [workspace EXCEPT ![g] = FALSE]
                /\ archive' = [archive EXCEPT ![g] = "none"]
                /\ tree' = [tree EXCEPT ![g] = "none"]
                /\ UNCHANGED faults
             \/ /\ faults' = [faults EXCEPT ![g] = @ \cup {"rm"}]
                /\ UNCHANGED <<workspace, archive, tree>>
      BY <1>11 DEF Cleanup
    <2>2. GuardTypes' /\ CacheIsContent'
      BY <1>0, <1>11, <2>1 DEF GuardTypes, Contents, Cleanup
    <2>3. HeldIsVerified'
      BY <1>0, <2>1 DEF GuardInv, GuardTypes, HeldIsVerified
    <2>4. UnpackedIsVerified'
      BY <1>0, <2>1 DEF GuardInv, GuardTypes, UnpackedIsVerified
    <2>5. WorkspacesAreReclaimed'
      BY <1>0, <2>1 DEF GuardInv, GuardTypes, WorkspacesAreReclaimed
    <2> QED
      BY <2>2, <2>3, <2>4, <2>5 DEF GuardInv
  <1>12. CASE UNCHANGED vars
    BY <1>12 DEF vars, GuardInv, GuardTypes, Contents, HeldIsVerified, UnpackedIsVerified,
                 WorkspacesAreReclaimed
  <1> QED
    BY <1>0, <1>1, <1>2, <1>3, <1>4, <1>5, <1>6, <1>7, <1>8, <1>9, <1>10, <1>11, <1>12 DEF Next, Step

-----------------------------------------------------------------------------
(* Whatever another guard or a crash leaves in the shared cache, a tree is   *)
(* unpacked from the bytes its integrity value names (downloadResolvedPack- *)
(* age, src/quarantine.js).                                                  *)
THEOREM GuardsUnpackVerified == Spec => []UnpackedIsVerified
  <1>1. GuardInv => UnpackedIsVerified
    BY DEF GuardInv
  <1> QED
    BY GuardStarts, GuardSteps, <1>1, PTL DEF Spec

(* A guard that is over has removed its workspace, whichever step failed     *)
(* (the finally block of guardExtension, src/quarantine.js).                 *)
THEOREM GuardsReclaimWorkspaces == Spec => []WorkspacesAreReclaimed
  <1>1. GuardInv => WorkspacesAreReclaimed
    BY DEF GuardInv
  <1> QED
    BY GuardStarts, GuardSteps, <1>1, PTL DEF Spec

-----------------------------------------------------------------------------
(* The fold to a decision (VerdictPolicy), for every configuration.          *)

Judgement(findings, config, name, version, sha256, hasSources, osvFailed, complete, gap) ==
    LET report == ApplyConfig(findings, config, name, version, sha256, hasSources)
    IN  GuardDecision(report, config, osvFailed, AuthorizationFor(report, complete, gap))

\* Nothing in a configuration clears a finding that is immutable.
LEMMA ImmutableBlocks ==
  ASSUME NEW findings, NEW config, NEW name, NEW version, NEW sha256, NEW hasSources,
         NEW osvFailed, NEW complete, NEW gap,
         NEW f \in findings, f.category \in Immutable, f.severity = "high"
  PROVE  Judgement(findings, config, name, version, sha256, hasSources, osvFailed, complete, gap) = "block"
  <1> DEFINE left == Surviving(findings, config.mute, name)
             report == ApplyConfig(findings, config, name, version, sha256, hasSources)
  <1>1. f \in left
    BY DEF Surviving
  <1>2. f.category \in {g.category : g \in left}
    BY <1>1
  <1>3. DecideVerdict(left, hasSources) = "block"
    BY <1>1 DEF DecideVerdict
  <1> HIDE DEF left
  <1>4. report.verdict = "block" /\ report.allowlisted = FALSE
    BY <1>2, <1>3 DEF ApplyConfig, left
  <1> HIDE DEF report
  <1> QED
    BY <1>4 DEF Judgement, GuardDecision, AuthorizationFor, PolicyDecision, FloorVerdictForScanGap, report

\* Without a pinned approval an allow rests on complete coverage.
LEMMA AllowIsCovered ==
  ASSUME NEW report, NEW config, NEW osvFailed \in BOOLEAN, NEW complete \in BOOLEAN, NEW gap \in BOOLEAN,
         ~report.allowlisted,
         GuardDecision(report, config, osvFailed, AuthorizationFor(report, complete, gap)) = "allow"
  PROVE  /\ complete /\ ~gap
         /\ osvFailed => config.scanErrorPolicy = "fail-open"
  <1> DEFINE holds == MandatoryHoldReasons(report, complete, gap)
  <1>1. (complete /\ ~gap) \/ holds # {}
    BY DEF MandatoryHoldReasons
  <1> HIDE DEF holds
  <1> QED
    BY <1>1 DEF GuardDecision, AuthorizationFor, PolicyDecision, FloorVerdictForScanGap, VerdictForScanError, holds

\* A finding that blocks and is not muted is overruled only by an approval of these bytes.
LEMMA OverruledByPin ==
  ASSUME NEW findings, NEW config, NEW name, NEW version, NEW sha256, NEW hasSources,
         NEW osvFailed, NEW complete, NEW gap,
         NEW f \in findings, f.severity = "high",
         f.category \notin {config.mute[n].check : n \in DOMAIN config.mute},
         Judgement(findings, config, name, version, sha256, hasSources, osvFailed, complete, gap) = "allow"
  PROVE  Allowed(config.allow, name, version, sha256)
  <1> DEFINE left == Surviving(findings, config.mute, name)
             report == ApplyConfig(findings, config, name, version, sha256, hasSources)
  <1> SUFFICES ASSUME ~Allowed(config.allow, name, version, sha256) PROVE FALSE
    OBVIOUS
  <1>1. f \in left
    BY DEF Surviving, Muted
  <1>2. DecideVerdict(left, hasSources) = "block"
    BY <1>1 DEF DecideVerdict
  <1> HIDE DEF left
  <1>3. report.verdict = "block" /\ report.allowlisted = FALSE
    BY <1>2 DEF ApplyConfig, left
  <1> HIDE DEF report
  <1> QED
    BY <1>3 DEF Judgement, GuardDecision, AuthorizationFor, PolicyDecision, FloorVerdictForScanGap, report

LEMMA PinNamesBytes ==
  ASSUME NEW allows, NEW name, NEW version, NEW sha256, Allowed(allows, name, version, sha256)
  PROVE  /\ sha256 # Unhashed
         /\ \E n \in DOMAIN allows : allows[n].sha256 = sha256 /\ ~allows[n].expired
  <1>1. PICK n \in AllowHits(allows, name, version, sha256) : ~allows[n].expired
    BY Zenon DEF Allowed
  <1>2. n \in DOMAIN allows /\ sha256 # "" /\ allows[n].sha256 = sha256
    BY Zenon, <1>1 DEF AllowHits
  <1> QED
    BY Zenon, <1>1, <1>2 DEF Unhashed

-----------------------------------------------------------------------------
(* The decision of a guard and what it was made from.                        *)

Early == {"begin", "stage", "precheck", "acquire", "verify"}
Fetched == {"populate", "populating", "extract"}
Over == {"promote", "copy", "cleanup", "done", "dead"}

\* A decision is made at the end and is the policy's of what the guard knows.
Judged(g) ==
    decision[g] # "none" =>
        /\ pc[g] \in Over
        /\ decision[g] = GuardDecision(Report(g), Config(g), vulns[g] = "failed", Authorization(g))

\* What was hashed by the time of the decision was verified, after an answer that found nothing.
BytesHashed(g) ==
    /\ pc[g] \in Early => sha[g] = Unhashed
    /\ pc[g] \in Fetched \cup {"verify", "refetch", "reverify"} => vulns[g] # "found"
    /\ pc[g] \in Fetched => sha[g] = "good"
    /\ pc[g] \in {"collect", "dependencies", "decide"} \/ decision[g] # "none" =>
         (sha[g] # Unhashed => sha[g] = "good" /\ vulns[g] # "found")

Asked(g) ==
    pc[g] \notin {"begin", "stage", "precheck"} \cup Over \/ decision[g] # "none" =>
        (request[g].vulnCheck => vulns[g] # "unasked")

KnownDomains ==
    /\ \A f \in {vulns, coverage, found, sources, deps, decision, sha, archive} : DOMAIN f = Guards
    /\ pc \in [Guards -> Places]
    /\ vulns \in [Guards -> {"unasked", "clean", "found", "failed"}]

Known(g) == Judged(g) /\ BytesHashed(g) /\ Asked(g)
KnownInv == KnownDomains /\ \A g \in Guards : Known(g)

LEMMA KnownStarts == Init => KnownInv
  <1> SUFFICES ASSUME Init PROVE KnownInv
    OBVIOUS
  <1>1. KnownDomains
    BY DEF Init, KnownDomains, Places
  <1>2. ASSUME NEW g \in Guards PROVE Known(g)
    BY DEF Init, Known, Judged, BytesHashed, Asked, Early, Fetched, Over
  <1> QED
    BY <1>1, <1>2 DEF KnownInv

LEMMA SameBasis ==
  ASSUME NEW g \in Guards, request'[g] = request[g], vulns'[g] = vulns[g], coverage'[g] = coverage[g],
         found'[g] = found[g], sources'[g] = sources[g], deps'[g] = deps[g], sha'[g] = sha[g]
  PROVE  /\ Report(g)' = Report(g) /\ Config(g)' = Config(g) /\ Authorization(g)' = Authorization(g)
  <1>1. ScanFindings(g)' = ScanFindings(g)
    BY DEF ScanFindings
  <1>2. Config(g)' = Config(g)
    BY DEF Config
  <1>3. Report(g)' = Report(g)
    BY <1>1, <1>2 DEF Report
  <1>4. Authorization(g)' = Authorization(g)
    BY <1>3 DEF Authorization
  <1> QED
    BY <1>2, <1>3, <1>4

\* A step that leaves a guard where it is, or moves it on after its decision.
Rests(g) ==
    /\ request'[g] = request[g] /\ vulns'[g] = vulns[g] /\ coverage'[g] = coverage[g]
    /\ found'[g] = found[g] /\ sources'[g] = sources[g] /\ deps'[g] = deps[g] /\ sha'[g] = sha[g]
    /\ decision'[g] = decision[g]
    /\ pc'[g] = pc[g] \/ pc'[g] \in Over

LEMMA RestsKnown == ASSUME NEW g \in Guards, Known(g), Rests(g) PROVE Known(g)'
  <1>1. Judged(g)'
    BY SameBasis DEF Known, Judged, Rests
  <1>2. BytesHashed(g)' /\ Asked(g)'
    BY DEF Known, Judged, BytesHashed, Asked, Rests, Early, Fetched, Over
  <1> QED
    BY <1>1, <1>2 DEF Known

\* A step before the decision.
LEMMA UndecidedKnown ==
  ASSUME NEW g \in Guards, Known(g), pc[g] \notin Over, decision'[g] = decision[g], BytesHashed(g)', Asked(g)'
  PROVE  Known(g)'
  BY DEF Known, Judged

\* One guard moves, and it comes out known.
LEMMA OneMoves ==
  ASSUME KnownInv, NEW g \in Guards, KnownDomains', Known(g)',
         \A h \in Guards \ {g} : Rests(h)
  PROVE  KnownInv'
  BY RestsKnown DEF KnownInv

LEMMA KnownSteps == KnownInv /\ [Next]_vars => KnownInv'
  <1> SUFFICES ASSUME KnownInv, [Next]_vars PROVE KnownInv'
    OBVIOUS
  <1> USE DEF At, Goto, Throw, files, results, shared
  <1>0. KnownDomains /\ \A g \in Guards : Known(g)
    BY DEF KnownInv
  <1>1. ASSUME NEW g \in Guards,
               \/ StageFails(g) \/ DownloadFails(g) \/ ExtractFails(g) \/ CollectFails(g)
               \/ PromoteBegins(g) \/ PromoteCopies(g) \/ Cleanup(g) \/ Crash(g)
        PROVE  KnownInv'
    <2>1. \A h \in Guards : Rests(h)
      BY <1>0, <1>1 DEF StageFails, DownloadFails, ExtractFails, CollectFails, PromoteBegins, PromoteCopies,
                        Cleanup, Crash, KnownDomains, Rests, Over
    <2>2. KnownDomains'
      BY <1>0, <1>1 DEF StageFails, DownloadFails, ExtractFails, CollectFails, PromoteBegins, PromoteCopies,
                        Cleanup, Crash, KnownDomains, Places
    <2> QED
      BY <1>0, <2>1, <2>2, RestsKnown DEF KnownInv
  <1>2. ASSUME NEW g \in Guards,
               \/ Begin(g) \/ Stage(g) \/ SkipDownload(g) \/ TakeArchive(g) \/ TakeCached(g)
               \/ Download(g) \/ PopulateBegins(g) \/ PopulateEnds(g) \/ Extract(g)
        PROVE  KnownInv'
    <2> USE DEF Begin, Stage, SkipDownload, TakeArchive, TakeCached, Download, PopulateBegins, PopulateEnds,
                Extract
    <2>1. UNCHANGED <<request, vulns, coverage, found, sources, deps, sha, decision>>
      BY <1>2
    <2>2. pc[g] \notin Over /\ \A h \in Guards \ {g} : pc'[h] = pc[h]
      BY <1>0, <1>2 DEF KnownDomains, Over
    <2>3. KnownDomains'
      BY <1>0, <1>2, <2>1 DEF KnownDomains, Places
    <2>4. BytesHashed(g)' /\ Asked(g)'
      BY <1>0, <1>2, <2>1 DEF KnownDomains, Known, Judged, BytesHashed, Asked, Early, Fetched, Over
    <2>5. Known(g)'
      BY <1>0, <2>1, <2>2, <2>4, UndecidedKnown
    <2> QED
      BY <2>1, <2>2, <2>3, <2>5, OneMoves DEF Rests
  <1>3. ASSUME NEW g \in Guards, Precheck(g) PROVE KnownInv'
    <2> USE DEF Precheck
    <2>1. UNCHANGED <<request, coverage, found, sources, deps, sha, decision>>
      BY <1>3
    <2>2. pc[g] = "precheck" /\ pc' = [pc EXCEPT ![g] = "acquire"]
      BY <1>3
    <2>3. /\ vulns' \in [Guards -> {"unasked", "clean", "found", "failed"}]
          /\ request[g].vulnCheck => vulns'[g] # "unasked"
          /\ \A h \in Guards \ {g} : vulns'[h] = vulns[h]
      BY <1>0, <1>3 DEF KnownDomains
    <2>4. KnownDomains'
      BY <1>0, <1>3, <2>1, <2>2, <2>3 DEF KnownDomains, Places
    <2>5. BytesHashed(g)' /\ Asked(g)'
      BY <1>0, <2>1, <2>2, <2>3 DEF KnownDomains, Known, Judged, BytesHashed, Asked, Early, Fetched, Over
    <2>6. Known(g)'
      BY <1>0, <2>1, <2>2, <2>5, UndecidedKnown DEF Over
    <2> QED
      BY <1>0, <2>1, <2>2, <2>3, <2>4, <2>6, OneMoves DEF Rests, KnownDomains
  <1>4. ASSUME NEW g \in Guards, Verify(g) \/ VerifyFails(g) PROVE KnownInv'
    <2> USE DEF Verify, VerifyFails, Verified
    <2>1. UNCHANGED <<request, coverage, vulns, found, sources, deps, decision>>
      BY <1>4
    <2>2. pc[g] \notin Over /\ \A h \in Guards \ {g} : pc'[h] = pc[h] /\ sha'[h] = sha[h]
      BY <1>0, <1>4 DEF KnownDomains, Over
    <2>3. KnownDomains'
      BY <1>0, <1>4, <2>1 DEF KnownDomains, Places
    <2>4. BytesHashed(g)' /\ Asked(g)'
      BY <1>0, <1>4, <2>1 DEF KnownDomains, Known, Judged, BytesHashed, Asked, Early, Fetched, Over
    <2>5. Known(g)'
      BY <1>0, <2>1, <2>2, <2>4, UndecidedKnown
    <2> QED
      BY <2>1, <2>2, <2>3, <2>5, OneMoves DEF Rests
  <1>5. ASSUME NEW g \in Guards, Collect(g) \/ ScanDependencies(g) PROVE KnownInv'
    <2> USE DEF Collect, ScanDependencies
    <2>1. UNCHANGED <<request, vulns, sha, decision>>
      BY <1>5
    <2>2. /\ pc[g] \notin Over
          /\ \A h \in Guards \ {g} : /\ pc'[h] = pc[h] /\ coverage'[h] = coverage[h] /\ found'[h] = found[h]
                                      /\ sources'[h] = sources[h] /\ deps'[h] = deps[h]
      BY <1>0, <1>5 DEF KnownDomains, Over
    <2>3. KnownDomains'
      BY <1>0, <1>5, <2>1 DEF KnownDomains, Places
    <2>4. BytesHashed(g)' /\ Asked(g)'
      BY <1>0, <1>5, <2>1 DEF KnownDomains, Known, Judged, BytesHashed, Asked, Early, Fetched, Over
    <2>5. Known(g)'
      BY <1>0, <2>1, <2>2, <2>4, UndecidedKnown
    <2> QED
      BY <2>1, <2>2, <2>3, <2>5, OneMoves DEF Rests
  <1>6. ASSUME NEW g \in Guards, Decide(g) PROVE KnownInv'
    <2>1. UNCHANGED <<request, vulns, coverage, found, sources, deps, sha, archive>>
      BY <1>6 DEF Decide
    <2>2. /\ pc[g] = "decide"
          /\ pc' = [pc EXCEPT ![g] = "promote"] \/ pc' = [pc EXCEPT ![g] = "cleanup"]
      BY <1>6 DEF Decide
    <2>3. decision' = [decision EXCEPT ![g] =
                         GuardDecision(Report(g), Config(g), vulns[g] = "failed", Authorization(g))]
      BY <1>6 DEF Decide
    <2>4. /\ \A h \in Guards \ {g} : pc'[h] = pc[h] /\ decision'[h] = decision[h]
          /\ pc'[g] \in {"promote", "cleanup"}
          /\ decision'[g] = GuardDecision(Report(g), Config(g), vulns[g] = "failed", Authorization(g))
      BY <1>0, <2>2, <2>3 DEF KnownDomains
    <2>5. KnownDomains'
      BY <1>0, <2>1, <2>2, <2>3 DEF KnownDomains, Places
    <2>6. Judged(g)'
      BY <2>1, <2>4, SameBasis DEF Judged, Over
    <2>7. BytesHashed(g)' /\ Asked(g)'
      BY <1>0, <2>1, <2>2, <2>4 DEF KnownDomains, Known, BytesHashed, Asked, Early, Fetched, Over
    <2> QED
      BY <2>1, <2>4, <2>5, <2>6, <2>7, OneMoves DEF Rests, Known
  <1>7. CASE UNCHANGED vars
    <2>1. \A h \in Guards : Rests(h)
      BY <1>7 DEF vars, Rests
    <2>2. KnownDomains'
      BY <1>0, <1>7 DEF vars, KnownDomains
    <2> QED
      BY <1>0, <2>1, <2>2, RestsKnown DEF KnownInv
  <1> QED
    BY <1>1, <1>2, <1>3, <1>4, <1>5, <1>6, <1>7 DEF Next, Step

-----------------------------------------------------------------------------
(* The four parts of AllowsAreEarned, each of one guard.                     *)

LEMMA FindingFields ==
  ASSUME NEW category, NEW severity
  PROVE  Finding(category, severity).category = category /\ Finding(category, severity).severity = severity
  BY DEF Finding

LEMMA DecidedSo ==
  ASSUME NEW g \in Guards, Known(g), decision[g] # "none"
  PROVE  decision[g] = Judgement(ScanFindings(g), Config(g), "pkg", "1", sha[g], sources[g],
                                 vulns[g] = "failed", coverage[g] = "complete", "gap" \in deps[g])
  BY DEF Known, Judged, Judgement, Report, Authorization

LEMMA VulnerableIsBlocked ==
  ASSUME NEW g \in Guards, Known(g), decision[g] # "none", vulns[g] = "found" \/ "flagged" \in deps[g]
  PROVE  decision[g] = "block"
  <1> DEFINE f == Finding("known-vulnerability", "high")
  <1>1. f \in ScanFindings(g)
    BY DEF ScanFindings
  <1>2. f.category \in Immutable /\ f.severity = "high"
    BY FindingFields DEF Immutable
  <1> HIDE DEF f
  <1> QED
    BY <1>1, <1>2, DecidedSo, ImmutableBlocks

LEMMA AllowedIsCovered ==
  ASSUME NEW g \in Guards, Known(g), decision[g] = "allow", ~Report(g).allowlisted
  PROVE  /\ coverage[g] = "complete" /\ "gap" \notin deps[g]
         /\ vulns[g] # "failed" \/ Config(g).scanErrorPolicy = "fail-open"
  <1>1. GuardDecision(Report(g), Config(g), vulns[g] = "failed",
                      AuthorizationFor(Report(g), coverage[g] = "complete", "gap" \in deps[g])) = "allow"
    BY DEF Known, Judged, Authorization
  <1>2. /\ (vulns[g] = "failed") \in BOOLEAN /\ (coverage[g] = "complete") \in BOOLEAN
        /\ ("gap" \in deps[g]) \in BOOLEAN
    OBVIOUS
  <1> QED
    BY <1>1, <1>2, AllowIsCovered

LEMMA OverruledIsPinned ==
  ASSUME NEW g \in Guards, Known(g), decision[g] = "allow",
         NEW f \in ScanFindings(g), f.severity = "high",
         f.category \notin {Config(g).mute[n].check : n \in DOMAIN Config(g).mute}
  PROVE  /\ sha[g] = "good"
         /\ \E n \in DOMAIN Config(g).allow : Config(g).allow[n].sha256 = sha[g] /\ ~Config(g).allow[n].expired
  <1>1. Allowed(Config(g).allow, "pkg", "1", sha[g])
    BY DecidedSo, OverruledByPin
  <1>2. /\ sha[g] # Unhashed
        /\ \E n \in DOMAIN Config(g).allow : Config(g).allow[n].sha256 = sha[g] /\ ~Config(g).allow[n].expired
    BY <1>1, PinNamesBytes
  <1> QED
    BY <1>2 DEF Known, BytesHashed

LEMMA ReceiptIsEarned ==
  ASSUME NEW g \in Guards, Known(g), vulns[g] \in {"unasked", "clean", "found", "failed"},
         sha[g] # Unhashed, decision[g] # "none", ReceiptAuthorizes(Receipt(g), FALSE)
  PROVE  sha[g] = "good" /\ vulns[g] = "clean" /\ coverage[g] = "complete"
  <1>1. sha[g] = "good" /\ vulns[g] # "found"
    BY DEF Known, BytesHashed
  <1>2. coverage[g] = "complete" /\ Checks(g).vulnerabilities = "completed"
    BY DEF ReceiptAuthorizes, Receipt
  <1>3. request[g].vulnCheck /\ vulns[g] # "failed"
    BY <1>2 DEF Checks
  <1>4. vulns[g] # "unasked"
    BY <1>3 DEF Known, Asked
  <1> QED
    BY <1>1, <1>2, <1>3, <1>4

(* For any configuration, any answers of the services and any findings: a    *)
(* published vulnerability blocks, an allow without a pin rests on complete  *)
(* coverage, a pin counts only for verified bytes it names, and an           *)
(* authorizing receipt is of verified and checked bytes (guardExtension,     *)
(* src/quarantine.js; applyConfig, src/config.js).                   *)
THEOREM GuardsEarnTheirAllows == Spec => []AllowsAreEarned
  <1>1. KnownInv => AllowsAreEarned
    <2> SUFFICES ASSUME KnownInv PROVE AllowsAreEarned
      OBVIOUS
    <2>0. \A g \in Guards : Known(g) /\ vulns[g] \in {"unasked", "clean", "found", "failed"}
      BY DEF KnownInv, KnownDomains
    <2>1. VulnerabilitiesBlock
      BY <2>0, VulnerableIsBlocked DEF VulnerabilitiesBlock
    <2>2. GapsAreHeld
      BY <2>0, AllowedIsCovered DEF GapsAreHeld
    <2>3. OverridesArePinned
      BY <2>0, OverruledIsPinned DEF OverridesArePinned
    <2>4. ReceiptsAreEarned
      BY <2>0, ReceiptIsEarned DEF ReceiptsAreEarned
    <2> QED
      BY <2>1, <2>2, <2>3, <2>4 DEF AllowsAreEarned
  <1> QED
    BY KnownStarts, KnownSteps, <1>1, PTL DEF Spec
=============================================================================
