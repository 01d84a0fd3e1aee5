-------------------------- MODULE EndpointBuilderProofs --------------------------
(***************************************************************************)
(* The Matter endpoint of any device, for any content of the lists' ends:  *)
(* the six properties of EndpointBuilder for every value of Devices and    *)
(* Beyond.                                                                 *)
(*                                                                         *)
(* The invariant says that the endpoint is the translation of the device,  *)
(* and that the type chosen is the best of those the endpoint conforms to. *)
(* The first needs the generated tables to agree with one another, cluster *)
(* by cluster, and what the loop over a cluster's commands leaves; the     *)
(* second what the sort and the loop over the scores leave.                *)
(***************************************************************************)
EXTENDS EndpointBuilder, FiniteSetTheorems, TLAPS

-----------------------------------------------------------------------------
(* Induction and recursion.  A property of the numbers is a set of them here,  *)
(* and a number outside the set leads to a least one.                          *)

(* Every set of numbers, the positions the loops of the bridge go through, has *)
(* a least element.                                                            *)
LEMMA LeastElement ==
  ASSUME NEW T \in SUBSET Nat, T # {}
  PROVE  \E m \in T : \A n \in T : m <= n
<1> DEFINE Less == {p \in Nat \X Nat : p[1] < p[2]}
<1>1. IsWellFoundedOn(Less, Nat)
  BY NatLessThanWellFounded DEF OpToRel
<1>2. \E m \in T : \A n \in T : ~ (<<n, m>> \in Less)
  <2> HIDE DEF Less
  <2>1. T \subseteq Nat
    OBVIOUS
  <2>2. QED
    BY <1>1, <2>1, WFMin
<1>3. PICK m \in T : \A n \in T : ~ (<<n, m>> \in Less)
  BY <1>2
<1>4. ASSUME NEW n \in T
      PROVE  m <= n
  <2>1. m \in Nat /\ n \in Nat
    OBVIOUS
  <2>2. ~ (n < m)
    BY <1>3, <2>1
  <2>3. QED
    BY <2>1, <2>2
<1>5. QED
  BY <1>4

(* What the first round of a loop from m to n does and each round keeps, the   *)
(* loops of cluster_interactor and select_on_score, all of them do.            *)
LEMMA Induction ==
  ASSUME NEW m \in Int, NEW n \in Int, NEW P,
         m \in P,
         \A i \in m + 1 .. n : i - 1 \in P => i \in P
  PROVE  m .. n \subseteq P
<1> DEFINE Missing == {j \in Nat : m + j <= n /\ m + j \notin P}
<1>1. SUFFICES ASSUME Missing # {}
               PROVE  FALSE
  <2>1. ASSUME Missing = {}, NEW i \in m .. n
        PROVE  i \in P
    <3>1. i - m \in Nat /\ m + (i - m) = i
      OBVIOUS
    <3>2. QED
      BY <2>1, <3>1
  <2>2. QED
    BY <2>1
<1>2. PICK j \in Missing : \A k \in Missing : j <= k
  BY <1>1, LeastElement
<1>3. j # 0
  BY <1>2
<1>4. j - 1 \in Nat /\ j - 1 \notin Missing
  BY <1>2, <1>3
<1>5. m + j - 1 \in P
  BY <1>2, <1>4
<1>6. QED
  BY <1>2, <1>3, <1>5

(* f holds what a loop from m to n has in each round, that begins with x and    *)
(* makes g of the round and what the round before it left.                     *)
IsIteration(f, m, n, S, x, g) ==
  /\ f \in [m .. n -> S]
  /\ f[m] = x
  /\ \A i \in m .. n : i # m => f[i] = g[<<i, f[i - 1]>>]

(* The results of such a loop are those of one function, which is why the      *)
(* recursive definitions of the loops of the bridge mean anything.             *)
LEMMA Recursion ==
  ASSUME NEW m \in Int, NEW n \in Int, m <= n,
         NEW S, NEW x \in S, NEW g \in [(m .. n) \X S -> S]
  PROVE  \E f : IsIteration(f, m, n, S, x, g)
<1> DEFINE Defines(f, k) == f[m] = x /\ \A i \in m .. k : i # m => f[i] = g[<<i, f[i - 1]>>]
           P == {k \in m .. n : \E f \in [m .. k -> S] : Defines(f, k)}
<1>1. m \in P
  <2> DEFINE h == [i \in m .. m |-> x]
  <2>1. h \in [m .. m -> S] /\ h[m] = x /\ \A i \in m .. m : i = m
    OBVIOUS
  <2>2. Defines(h, m)
    <3> HIDE DEF h
    <3>1. QED
      BY <2>1
  <2>3. QED
    <3> HIDE DEF h, Defines
    <3>1. QED
      BY <2>1, <2>2
<1>2. ASSUME NEW k \in m + 1 .. n, k - 1 \in P
      PROVE  k \in P
  <2>1. PICK f \in [m .. k - 1 -> S] : Defines(f, k - 1)
    BY <1>2
  <2> DEFINE h == [i \in m .. k |-> IF i = k THEN g[<<k, f[k - 1]>>] ELSE f[i]]
  <2>2. f[k - 1] \in S
    OBVIOUS
  <2>3. h \in [m .. k -> S]
    BY <2>2
  <2>4. h[m] = x /\ h[k] = g[<<k, h[k - 1]>>]
    <3>1. m \in m .. k /\ m # k /\ k \in m .. k /\ k - 1 \in m .. k /\ k - 1 # k
      OBVIOUS
    <3>2. h[m] = f[m] /\ h[k] = g[<<k, f[k - 1]>>] /\ h[k - 1] = f[k - 1]
      BY <3>1
    <3>3. QED
      BY <2>1, <3>2
  <2>5. ASSUME NEW i \in m .. k - 1, i # m
        PROVE  h[i] = g[<<i, h[i - 1]>>]
    BY <2>1, <2>5
  <2>6. Defines(h, k)
    <3> HIDE DEF h
    <3>1. ASSUME NEW i \in m .. k, i # m
          PROVE  h[i] = g[<<i, h[i - 1]>>]
      <4>1. CASE i = k
        BY <2>4, <4>1
      <4>2. CASE i # k
        <5>1. i \in m .. k - 1
          BY <4>2
        <5>2. QED
          BY <3>1, <5>1, <2>5
      <4>3. QED
        BY <4>1, <4>2
    <3>2. QED
      BY <2>4, <3>1
  <2>7. QED
    <3> HIDE DEF h, Defines
    <3>1. QED
      BY <2>3, <2>6
<1>3. n \in P
  <2> HIDE DEF P
  <2>1. m .. n \subseteq P
    BY <1>1, <1>2, Induction
  <2>2. QED
    BY <2>1
<1>4. QED
  BY <1>3 DEF IsIteration

-----------------------------------------------------------------------------
(* The sort.                                                                  *)

(* The place of each element of S in the order R.                              *)
Place(S, R) == [t \in S |-> Cardinality({s \in S : <<s, t>> \in R}) + 1]

(* In a total order each place is that of one element: what std::sort does to  *)
(* the scores loses none and repeats none.                                     *)
LEMMA PlaceIsBijection ==
  ASSUME NEW S, IsFiniteSet(S), NEW R,
         \A s, t \in S : s # t => <<s, t>> \in R \/ <<t, s>> \in R,
         \A s \in S : <<s, s>> \notin R,
         \A s, t, u \in S : <<s, t>> \in R /\ <<t, u>> \in R => <<s, u>> \in R
  PROVE  /\ Place(S, R) \in [S -> 1 .. Cardinality(S)]
         /\ \A s, t \in S : Place(S, R)[s] = Place(S, R)[t] => s = t
         /\ \A i \in 1 .. Cardinality(S) : \E t \in S : Place(S, R)[t] = i
<1> DEFINE Before(t) == {s \in S : <<s, t>> \in R}
           place == [t \in S |-> Cardinality(Before(t)) + 1]
           n == Cardinality(S)
<1>1. n \in Nat
  BY FS_CardinalityType
<1>2. ASSUME NEW t \in S
      PROVE  /\ IsFiniteSet(Before(t))
             /\ Cardinality(Before(t)) \in Nat
             /\ Cardinality(Before(t)) + 1 <= n
  <2>1. IsFiniteSet(S \ {t}) /\ Cardinality(S \ {t}) = n - 1
    BY FS_RemoveElement
  <2>2. Before(t) \subseteq S \ {t}
    OBVIOUS
  <2>3. IsFiniteSet(Before(t)) /\ Cardinality(Before(t)) <= n - 1
    <3> HIDE DEF Before, n
    <3>1. Before(t) \in SUBSET (S \ {t})
      BY <2>2
    <3>2. QED
      BY <2>1, <3>1, FS_Subset
  <2>4. QED
    BY <2>3, <1>1, FS_CardinalityType
<1>3. place \in [S -> 1 .. n]
  <2>1. ASSUME NEW t \in S
        PROVE  Cardinality(Before(t)) + 1 \in 1 .. n
    <3> HIDE DEF Before, n
    <3>1. QED
      BY <1>1, <1>2
  <2> HIDE DEF Before, n
  <2>2. QED
    BY <2>1
<1>4. ASSUME NEW s \in S, NEW t \in S, <<s, t>> \in R
      PROVE  place[s] < place[t]
  <2>1. /\ IsFiniteSet(Before(s) \cup {s})
        /\ Cardinality(Before(s) \cup {s}) = Cardinality(Before(s)) + 1
    BY <1>2, FS_AddElement
  <2>2. Before(s) \cup {s} \subseteq Before(t)
    BY <1>4
  <2>3. Cardinality(Before(s) \cup {s}) <= Cardinality(Before(t))
    BY <1>2, <2>2, FS_Subset
  <2>4. place[s] = Cardinality(Before(s)) + 1 /\ place[t] = Cardinality(Before(t)) + 1
    OBVIOUS
  <2> HIDE DEF Before, place
  <2>5. QED
    BY <1>2, <2>1, <2>3, <2>4
<1>5. \A s, t \in S : place[s] = place[t] => s = t
  <2>1. SUFFICES ASSUME NEW s \in S, NEW t \in S, place[s] = place[t], s # t
                 PROVE  FALSE
    OBVIOUS
  <2>2. place[s] \in Int /\ place[t] \in Int
    BY <1>1, <1>3
  <2>3. place[s] < place[t] \/ place[t] < place[s]
    <3> HIDE DEF place
    <3>1. QED
      BY <2>1, <1>4
  <2> HIDE DEF place
  <2>4. QED
    BY <2>1, <2>2, <2>3
<1>6. \A i \in 1 .. n : \E t \in S : place[t] = i
  <2>1. place \in Injection(S, 1 .. n)
    <3> HIDE DEF place
    <3>1. QED
      BY <1>3, <1>5 DEF Injection, IsInjective
  <2>2. IsFiniteSet(1 .. n) /\ Cardinality(1 .. n) = n
    BY <1>1, FS_Interval
  <2>3. place \in Surjection(S, 1 .. n)
    <3> HIDE DEF place
    <3>1. QED
      BY <2>1, <2>2, FS_Injection
  <2>4. QED
    <3> HIDE DEF place
    <3>1. QED
      BY <2>3 DEF Surjection
<1>7. Place(S, R) = place
  BY DEF Place
<1>8. QED
  BY <1>3, <1>5, <1>6, <1>7

-----------------------------------------------------------------------------
(* The list of accepted commands.                                             *)

(* The list is made of the commands of the device one after the other.         *)
LEMMA AcceptedRecursion ==
  ASSUME NEW c, NEW commands \in Seq(STRING)
  PROVE  \E upTo :
           /\ Accepted(c, commands) = upTo[Len(commands)]
           /\ upTo[0] = <<>>
           /\ \A i \in 1 .. Len(commands) :
                upTo[i] = IF IsKnown(c, commands[i])
                          THEN Append(upTo[i - 1], MatterCommand(c, commands[i]))
                          ELSE upTo[i - 1]
<1> DEFINE n == Len(commands)
           S == Seq({MatterCommand(c, u) : u \in STRING})
           Longer(i, s) == IF IsKnown(c, commands[i])
                           THEN Append(s, MatterCommand(c, commands[i])) ELSE s
           g == [p \in (0 .. n) \X S |-> IF p[1] = 0 THEN <<>> ELSE Longer(p[1], p[2])]
           Body(f) == [i \in 0 .. n |-> IF i = 0 THEN <<>>
                                        ELSE IF IsKnown(c, commands[i])
                                        THEN Append(f[i - 1], MatterCommand(c, commands[i]))
                                        ELSE f[i - 1]]
<1>1. n \in Nat /\ <<>> \in S
  OBVIOUS
<1>2. ASSUME NEW i \in 1 .. n, NEW s \in S
      PROVE  Longer(i, s) \in S
  <2>1. commands[i] \in STRING
    OBVIOUS
  <2>2. MatterCommand(c, commands[i]) \in {MatterCommand(c, u) : u \in STRING}
    BY <2>1
  <2>3. QED
    BY <2>2
<1>3. g \in [(0 .. n) \X S -> S]
  <2> HIDE DEF n, S, Longer
  <2>1. ASSUME NEW i \in 0 .. n, NEW s \in S, i # 0
        PROVE  Longer(i, s) \in S
    <3>1. i \in 1 .. n
      BY <1>1, <2>1
    <3>2. QED
      BY <1>2, <3>1
  <2>2. QED
    BY <1>1, <2>1
<1>4. PICK f \in [0 .. n -> S] :
        f[0] = <<>> /\ \A i \in 0 .. n : i # 0 => f[i] = g[<<i, f[i - 1]>>]
  <2> HIDE DEF n, S, g
  <2>1. 0 \in Int /\ n \in Int /\ 0 <= n
    BY <1>1
  <2>2. \E f : IsIteration(f, 0, n, S, <<>>, g)
    BY <1>1, <1>3, <2>1, Recursion
  <2>3. QED
    BY <2>2 DEF IsIteration
<1>5. \A i \in 1 .. n : f[i] = Longer(i, f[i - 1])
  <2>1. ASSUME NEW i \in 1 .. n
        PROVE  f[i] = Longer(i, f[i - 1])
    <3> HIDE DEF n, S, Longer
    <3>1. i - 1 \in 0 .. n /\ i \in 0 .. n /\ i # 0
      BY <1>1
    <3>2. f[i - 1] \in S
      BY <3>1
    <3>3. QED
      BY <1>4, <3>1, <3>2
  <2>2. QED
    BY <2>1
<1>6. f = Body(f)
  <2> DEFINE Entry(i) == IF i = 0 THEN <<>>
                         ELSE IF IsKnown(c, commands[i])
                              THEN Append(f[i - 1], MatterCommand(c, commands[i]))
                              ELSE f[i - 1]
  <2>1. ASSUME NEW i \in 0 .. n
        PROVE  f[i] = Entry(i)
    <3>1. CASE i = 0
      BY <1>4, <3>1
    <3>2. CASE i # 0
      <4>1. i \in 1 .. n
        BY <1>1, <3>2
      <4>2. QED
        BY <1>5, <4>1, <3>2
    <3>3. QED
      BY <3>1, <3>2
  <2>2. f = [i \in 0 .. n |-> Entry(i)]
    <3> HIDE DEF Entry, n, S
    <3>1. QED
      BY <2>1
  <2>3. QED
    BY <2>2
<1> DEFINE built == CHOOSE h : h = Body(h)
<1>7. built = Body(built)
  <2> HIDE DEF Body
  <2>1. QED
    BY <1>6
<1>8. Accepted(c, commands) = built[n]
  BY DEF Accepted
<1>9. built[0] = <<>> /\ \A i \in 1 .. n : built[i] = Longer(i, built[i - 1])
  <2>1. built[0] = Body(built)[0] /\ \A i \in 1 .. n : built[i] = Body(built)[i]
    <3> HIDE DEF built, Body
    <3>1. QED
      BY <1>7
  <2>2. ASSUME NEW h
        PROVE  Body(h)[0] = <<>> /\ \A i \in 1 .. n : Body(h)[i] = Longer(i, h[i - 1])
    <3>1. \A i \in 1 .. n : i \in 0 .. n /\ i # 0
      BY <1>1
    <3>2. QED
      BY <1>1, <3>1
  <2> HIDE DEF built, Body, Longer, n
  <2>3. QED
    BY <2>1, <2>2
<1>10. QED
  <2> HIDE DEF built
  <2>1. QED
    BY <1>8, <1>9

(* Appending an id to a list of commands adds the id to its elements.          *)
LEMMA AppendElements ==
  ASSUME NEW X, NEW s \in Seq(X), NEW x \in X
  PROVE  /\ Append(s, x) \in Seq(X)
         /\ ToSet(Append(s, x)) = ToSet(s) \cup {x}
<1>1. /\ Append(s, x) \in Seq(X)
      /\ Len(Append(s, x)) = Len(s) + 1
      /\ \A i \in 1 .. Len(s) : Append(s, x)[i] = s[i]
      /\ Append(s, x)[Len(s) + 1] = x
  OBVIOUS
<1>2. Len(s) \in Nat /\ DOMAIN s = 1 .. Len(s)
  OBVIOUS
<1>3. DOMAIN Append(s, x) = 1 .. Len(s) + 1
  OBVIOUS
<1>4. 1 .. Len(s) + 1 = (1 .. Len(s)) \cup {Len(s) + 1}
  BY <1>2
<1> DEFINE t == Append(s, x)
           n == Len(s)
<1> HIDE DEF t, n
<1>5. {t[i] : i \in (1 .. n) \cup {n + 1}} = {s[i] : i \in 1 .. n} \cup {x}
  BY <1>1 DEF t, n
<1>6. QED
  BY <1>1, <1>2, <1>3, <1>4, <1>5 DEF ToSet, t, n

(* The list cluster_interactor makes of a cluster's commands has the ids of    *)
(* those that have one, and nothing else, whatever order they come in.         *)
LEMMA AcceptedElements ==
  ASSUME NEW c, NEW commands \in Seq(STRING)
  PROVE  /\ Accepted(c, commands) \in Seq({MatterCommand(c, u) : u \in STRING})
         /\ ToSet(Accepted(c, commands)) =
              {MatterCommand(c, u) : u \in {v \in ToSet(commands) : IsKnown(c, v)}}
<1> DEFINE n == Len(commands)
           S == Seq({MatterCommand(c, u) : u \in STRING})
           Ids(i) == {MatterCommand(c, commands[j]) :
                        j \in {h \in 1 .. i : IsKnown(c, commands[h])}}
<1>1. PICK upTo :
        /\ Accepted(c, commands) = upTo[n]
        /\ upTo[0] = <<>>
        /\ \A i \in 1 .. n :
             upTo[i] = IF IsKnown(c, commands[i])
                       THEN Append(upTo[i - 1], MatterCommand(c, commands[i]))
                       ELSE upTo[i - 1]
  BY AcceptedRecursion
<1>2. n \in Nat
  OBVIOUS
<1> DEFINE P == {i \in 0 .. n : upTo[i] \in S /\ ToSet(upTo[i]) = Ids(i)}
<1>3. 0 \in P
  <2>1. upTo[0] \in S
    BY <1>1
  <2>2. ToSet(upTo[0]) = {}
    BY <1>1 DEF ToSet
  <2>3. Ids(0) = {}
    OBVIOUS
  <2>4. QED
    BY <1>2, <2>1, <2>2, <2>3
<1>4. ASSUME NEW i \in 0 + 1 .. n, i - 1 \in P
      PROVE  i \in P
  <2> DEFINE id == MatterCommand(c, commands[i])
             X == {MatterCommand(c, u) : u \in STRING}
  <2>1. upTo[i - 1] \in Seq(X) /\ ToSet(upTo[i - 1]) = Ids(i - 1)
    BY <1>4
  <2>2. i \in 1 .. n /\ i \in 0 .. n
    BY <1>2
  <2>3. commands[i] \in STRING
    BY <2>2
  <2>4. id \in X
    BY <2>3
  <2>5. 1 .. i = (1 .. i - 1) \cup {i}
    BY <2>2
  <2>6. CASE IsKnown(c, commands[i])
    <3>1. upTo[i] = Append(upTo[i - 1], id)
      BY <1>1, <2>2, <2>6
    <3>2. upTo[i] \in Seq(X) /\ ToSet(upTo[i]) = ToSet(upTo[i - 1]) \cup {id}
      <4> HIDE DEF id, X
      <4>1. QED
        BY <2>1, <2>4, <3>1, AppendElements
    <3>3. Ids(i) = Ids(i - 1) \cup {id}
      BY <2>5, <2>6
    <3>4. QED
      <4> HIDE DEF id, Ids
      <4>1. QED
        BY <2>1, <2>2, <3>2, <3>3
  <2>7. CASE ~ IsKnown(c, commands[i])
    <3>1. upTo[i] = upTo[i - 1]
      BY <1>1, <2>2, <2>7
    <3>2. Ids(i) = Ids(i - 1)
      BY <2>5, <2>7
    <3>3. QED
      <4> HIDE DEF id, Ids
      <4>1. QED
        BY <2>1, <2>2, <3>1, <3>2
  <2>8. QED
    BY <2>6, <2>7
<1>5. n \in P
  <2> HIDE DEF P
  <2>1. 0 \in Int /\ n \in Int /\ n \in 0 .. n
    BY <1>2
  <2>2. \A i \in 0 + 1 .. n : i - 1 \in P => i \in P
    BY <1>4
  <2>3. 0 .. n \subseteq P
    <3> HIDE DEF n
    <3>1. QED
      BY <1>3, <2>1, <2>2, Induction
  <2>4. QED
    BY <2>1, <2>3
<1>6. Ids(n) = {MatterCommand(c, u) : u \in {v \in ToSet(commands) : IsKnown(c, v)}}
  BY DEF ToSet
<1>7. QED
  <2> HIDE DEF Ids
  <2>1. QED
    BY <1>1, <1>5, <1>6

-----------------------------------------------------------------------------
(* The choice of a device type.                                               *)

(* The clusters of the bridge and those only a device type names.              *)
Names ==
  <<"Identify", "Groups", "OnOff", "LevelControl", "DoorLock", "WindowCovering", "Thermostat",
    "ColorControl", "IlluminanceMeasurement", "TemperatureMeasurement", "PressureMeasurement",
    "FlowMeasurement", "RelativeHumidityMeasurement", "OccupancySensing", "Binding",
    "TimeSynchronization", "FanControl", "ThermostatUserInterfaceConfiguration",
    "BridgedDeviceBasicInformation", "Descriptor">>

(* The clusters the generated translators are written for.                     *)
LEMMA ClustersAre ==
  Clusters = {"Identify", "Groups", "OnOff", "LevelControl", "DoorLock", "WindowCovering",
              "Thermostat", "ColorControl", "IlluminanceMeasurement", "TemperatureMeasurement",
              "PressureMeasurement", "FlowMeasurement", "RelativeHumidityMeasurement",
              "OccupancySensing"}
BY DEF Clusters, ReadCases

(* There are finitely many names of clusters, so that those an endpoint and a  *)
(* device type share can be counted.                                           *)
LEMMA NamesAreFinite ==
  IsFiniteSet(ToSet(Names)) /\ Cardinality(ToSet(Names)) \in 0 .. 20
<1> DEFINE n == 20
<1>1. n \in Nat /\ DOMAIN Names = 1 .. n
  BY DEF Names
<1>2. Names = [i \in 1 .. n |-> Names[i]]
  BY <1>1 DEF Names
<1>3. QED
  <2> HIDE DEF n
  <2>1. IsFiniteSet(1 .. n) /\ Cardinality(1 .. n) = IF 1 > n THEN 0 ELSE n - 1 + 1
    BY <1>1, FS_Interval
  <2>2. Cardinality(1 .. n) <= n
    BY <1>1, <2>1
  <2>3. Names \in Surjection(1 .. n, ToSet(Names))
    BY <1>1, <1>2 DEF Surjection, ToSet
  <2>4. /\ IsFiniteSet(ToSet(Names)) /\ Cardinality(ToSet(Names)) \in Nat
        /\ Cardinality(ToSet(Names)) <= Cardinality(1 .. n) /\ Cardinality(1 .. n) \in Nat
    BY <2>1, <2>3, FS_Surjection, FS_CardinalityType
  <2>5. Cardinality(ToSet(Names)) \in 0 .. n
    BY <1>1, <2>2, <2>4
  <2>6. QED
    BY <2>4, <2>5 DEF n

(* The names an endpoint and the table of device types take theirs from.       *)
LEMMA KnownNames ==
  /\ Clusters \subseteq ToSet(Names)
  /\ Basic \in ToSet(Names) /\ "Descriptor" \in ToSet(Names)
  /\ {"Binding", "TimeSynchronization", "FanControl",
      "ThermostatUserInterfaceConfiguration"} \subseteq ToSet(Names)
<1>1. \A i \in 1 .. 20 : Names[i] \in ToSet(Names)
  BY DEF Names, ToSet
<1>2. QED
  BY <1>1, ClustersAre DEF Names, Basic

(* The ids of the device types are numbers, and none is what stands for no     *)
(* type.                                                                       *)
LEMMA TypeIds ==
  /\ DOMAIN DeviceTypes \subseteq Nat \ {NoType}
  /\ IsFiniteSet(DOMAIN DeviceTypes)
<1>1. DOMAIN DeviceTypes \subseteq Nat \ {NoType} /\ \A t \in DOMAIN DeviceTypes : t <= 774
  BY DEF DeviceTypes, NoType
<1>2. 774 \in Nat
  OBVIOUS
<1>3. QED
  BY <1>1, <1>2, FS_BoundedSetOfNaturals

(* The table of device types names no other clusters.                          *)
LEMMA TypeNames ==
  ASSUME NEW t \in DOMAIN DeviceTypes
  PROVE  TypeClusters(t) \subseteq ToSet(Names)
<1> DEFINE Known == Clusters \cup {"Binding", "TimeSynchronization", "FanControl",
                                   "ThermostatUserInterfaceConfiguration"}
<1> USE ClustersAre DEF TypeClusters, DeviceTypes, Type
<1>1. TypeClusters(10) \subseteq Known
  BY DEF doorlock
<1>2. TypeClusters(256) \subseteq Known
  BY DEF onofflight
<1>3. TypeClusters(257) \subseteq Known
  BY DEF dimmablelight
<1>4. TypeClusters(259) \subseteq Known
  BY DEF onofflightswitch
<1>5. TypeClusters(262) \subseteq Known
  BY DEF lightsensor
<1>6. TypeClusters(263) \subseteq Known
  BY DEF occupancysensor
<1>7. TypeClusters(266) \subseteq Known
  BY DEF onoffpluginunit
<1>8. TypeClusters(267) \subseteq Known
  BY DEF dimmablepluginunit
<1>9. TypeClusters(269) \subseteq Known
  BY DEF extendedcolorlight
<1>10. TypeClusters(514) \subseteq Known
  BY DEF windowcovering
<1>11. TypeClusters(769) \subseteq Known
  BY DEF thermostat
<1>12. TypeClusters(773) \subseteq Known
  BY DEF pressuresensor
<1>13. TypeClusters(774) \subseteq Known
  BY DEF flowsensor
<1>14. t \in {10, 256, 257, 259, 262, 263, 266, 267, 269, 514, 769, 773, 774}
  BY DEF DeviceTypes
<1>15. Known \subseteq ToSet(Names)
  BY KnownNames
<1> HIDE DEF TypeClusters, Known
<1>16. QED
  BY <1>1, <1>2, <1>3, <1>4, <1>5, <1>6, <1>7, <1>8, <1>9, <1>10, <1>11, <1>12, <1>13,
     <1>14, <1>15

(* What compute_device_type_match_score counts for a type is not negative,     *)
(* and the score is within the uint8_t it is computed in: no wrap around       *)
(* decides what the type is.                                                   *)
LEMMA ScoreFits ==
  ASSUME DOMAIN endpoint \subseteq ToSet(Names), NEW t \in DOMAIN DeviceTypes
  PROVE  /\ Miss(t) \in 0 .. 20 /\ Extra(t) \in 0 .. 20 /\ Required(t) \in 0 .. 20
         /\ NumericalScore(t) \in Int /\ NumericalScore(t) \in 0 .. 60
<1> DEFINE D == DOMAIN endpoint
           C == TypeClusters(t)
           M == DOMAIN DeviceTypes[t].mandatory
<1>1. /\ IsFiniteSet(D) /\ Cardinality(D) \in 0 .. 20
      /\ IsFiniteSet(C) /\ Cardinality(C) \in 0 .. 20
  <2>1. D \in SUBSET ToSet(Names) /\ C \in SUBSET ToSet(Names)
    BY TypeNames
  <2>2. \A X \in SUBSET ToSet(Names) : IsFiniteSet(X) /\ Cardinality(X) \in 0 .. 20
    <3> SUFFICES ASSUME NEW X \in SUBSET ToSet(Names)
                 PROVE  IsFiniteSet(X) /\ Cardinality(X) \in 0 .. 20
      OBVIOUS
    <3>1. IsFiniteSet(X) /\ Cardinality(X) <= Cardinality(ToSet(Names))
      BY NamesAreFinite, FS_Subset
    <3>2. Cardinality(X) \in Nat
      BY <3>1, FS_CardinalityType
    <3>3. QED
      BY <3>1, <3>2, NamesAreFinite
  <2> HIDE DEF D, C
  <2>3. QED
    BY <2>1, <2>2
<1>2. D \cap C \in SUBSET D /\ D \cap C \in SUBSET C /\ D \cap M \in SUBSET D
  OBVIOUS
<1>3. /\ Matched(t) = Cardinality(D \cap C) /\ Required(t) = Cardinality(D \cap M)
      /\ Extra(t) = Cardinality(D) - Matched(t) /\ Miss(t) = Cardinality(C) - Matched(t)
  BY DEF Matched, Required, Extra, Miss
<1> HIDE DEF D, C, M
<1>4. /\ Cardinality(D \cap C) \in Nat /\ Cardinality(D \cap C) <= Cardinality(D)
      /\ Cardinality(D \cap C) <= Cardinality(C)
      /\ Cardinality(D \cap M) \in Nat /\ Cardinality(D \cap M) <= Cardinality(D)
  BY <1>1, <1>2, FS_Subset, FS_CardinalityType
<1>5. Matched(t) \in Nat /\ Matched(t) <= Cardinality(D) /\ Matched(t) <= Cardinality(C)
  BY <1>3, <1>4
<1>6. Miss(t) \in 0 .. 20 /\ Extra(t) \in 0 .. 20 /\ Required(t) \in 0 .. 20
  BY <1>1, <1>3, <1>4, <1>5
<1>7. NumericalScore(t) \in Int /\ NumericalScore(t) \in 0 .. 60
  BY <1>6 DEF NumericalScore
<1>8. QED
  BY <1>6, <1>7

(* The order of the sorted scores is total.  The code's comparison is true of  *)
(* equal scores both ways and leaves their order open; the model's puts the    *)
(* later id first.                                                             *)
LEMMA OrderIsTotal ==
  ASSUME DOMAIN endpoint \subseteq ToSet(Names),
         NEW s \in DOMAIN DeviceTypes, NEW t \in DOMAIN DeviceTypes, NEW u \in DOMAIN DeviceTypes
  PROVE  /\ s # t => ComesBefore(s, t) \/ ComesBefore(t, s)
         /\ ~ ComesBefore(s, s)
         /\ ComesBefore(s, t) /\ ComesBefore(t, u) => ComesBefore(s, u)
<1>1. s \in Int /\ t \in Int /\ u \in Int
  BY TypeIds
<1>2. \A v \in DOMAIN DeviceTypes : Miss(v) \in Int /\ Required(v) \in Int /\ Extra(v) \in Int
  BY ScoreFits
<1>3. QED
  BY <1>1, <1>2 DEF ComesBefore

(* The sorted scores are those of the types the endpoint conforms to, each     *)
(* once.                                                                       *)
LEMMA ScoresOfConforming ==
  ASSUME DOMAIN endpoint \subseteq ToSet(Names)
  PROVE  /\ IsFiniteSet(Conforming)
         /\ Scores \in [1 .. Cardinality(Conforming) -> Conforming]
         /\ \A t \in Conforming : \E i \in 1 .. Cardinality(Conforming) : Scores[i] = t
<1> DEFINE S == Conforming
           n == Cardinality(S)
           R == {p \in S \X S : ComesBefore(p[1], p[2])}
           place == [t \in S |-> Cardinality({s \in S : ComesBefore(s, t)}) + 1]
<1>1. S \subseteq DOMAIN DeviceTypes
  BY DEF Conforming
<1>2. IsFiniteSet(S)
  BY <1>1, TypeIds, FS_Subset
<1>3. /\ \A s, t \in S : s # t => <<s, t>> \in R \/ <<t, s>> \in R
      /\ \A s \in S : <<s, s>> \notin R
      /\ \A s, t, u \in S : <<s, t>> \in R /\ <<t, u>> \in R => <<s, u>> \in R
  <2>1. \A s, t \in S : <<s, t>> \in R <=> ComesBefore(s, t)
    OBVIOUS
  <2> HIDE DEF S, R
  <2>2. QED
    BY <1>1, <2>1, OrderIsTotal
<1>4. \A t \in S : {s \in S : <<s, t>> \in R} = {s \in S : ComesBefore(s, t)}
  OBVIOUS
<1>5. place = Place(S, R)
  BY <1>4 DEF Place
<1>6. /\ place \in [S -> 1 .. n]
      /\ \A s, t \in S : place[s] = place[t] => s = t
      /\ \A i \in 1 .. n : \E t \in S : place[t] = i
  <2> HIDE DEF S, R, place
  <2>1. QED
    BY <1>2, <1>3, <1>5, PlaceIsBijection
<1>7. Scores = [i \in 1 .. n |-> CHOOSE t \in S : place[t] = i]
  BY DEF Scores
<1> HIDE DEF S, R, place, n
<1>8. \A i \in 1 .. n : Scores[i] \in S /\ place[Scores[i]] = i
  BY <1>6, <1>7
<1>9. \A t \in S : place[t] \in 1 .. n /\ Scores[place[t]] = t
  BY <1>6, <1>8
<1>10. QED
  BY <1>2, <1>7, <1>8, <1>9 DEF S, n

(* best holds what is at the front of possible_device_list after each score.   *)
IsBestSoFar(best, scores, n) ==
  /\ BestOf(scores) = best[n]
  /\ best[1] = scores[1]
  /\ \A i \in 1 .. n : i # 1 => best[i] = PutInFront(best[i - 1], scores[i])

(* The loop over the scores is one, and leaves what BestOf names.              *)
LEMMA BestIteration ==
  ASSUME NEW C, NEW scores, NEW n \in Nat \ {0}, scores \in [1 .. n -> C], Len(scores) = n
  PROVE  \E best : IsBestSoFar(best, scores, n)
<1> DEFINE g == [p \in (1 .. n) \X C |-> PutInFront(p[2], scores[p[1]])]
           Body(f) == [i \in 1 .. Len(scores) |->
                         IF i = 1 THEN scores[1] ELSE PutInFront(f[i - 1], scores[i])]
<1>1. 1 \in Int /\ n \in Int /\ 1 <= n /\ scores[1] \in C
  OBVIOUS
<1>2. g \in [(1 .. n) \X C -> C]
  <2>1. \A i \in 1 .. n, s \in C : PutInFront(s, scores[i]) \in C
    BY DEF PutInFront
  <2>2. QED
    BY <2>1
<1>3. PICK f : IsIteration(f, 1, n, C, scores[1], g)
  <2> HIDE DEF g
  <2>1. QED
    BY <1>1, <1>2, Recursion
<1>4. ASSUME NEW i \in 1 .. n, i # 1
      PROVE  f[i] = PutInFront(f[i - 1], scores[i])
  <2>1. i - 1 \in 1 .. n
    BY <1>4
  <2>2. f[i - 1] \in C /\ f[i] = g[<<i, f[i - 1]>>]
    <3> HIDE DEF g
    <3>1. QED
      BY <1>3, <1>4, <2>1 DEF IsIteration
  <2>3. QED
    BY <2>2
<1>5. f = Body(f)
  <2> DEFINE Entry(i) == IF i = 1 THEN scores[1] ELSE PutInFront(f[i - 1], scores[i])
  <2>1. \A i \in 1 .. n : f[i] = Entry(i)
    BY <1>3, <1>4 DEF IsIteration
  <2>2. f = [i \in 1 .. n |-> Entry(i)]
    <3> HIDE DEF Entry
    <3>1. QED
      BY <1>3, <2>1 DEF IsIteration
  <2>3. QED
    BY <2>2
<1> DEFINE best == CHOOSE h : h = Body(h)
<1>6. best = Body(best)
  <2> HIDE DEF Body
  <2>1. QED
    BY <1>5
<1>7. BestOf(scores) = best[Len(scores)]
  BY DEF BestOf
<1>8. \A i \in 1 .. n : best[i] = Body(best)[i]
  <2> HIDE DEF best, Body
  <2>1. QED
    BY <1>6
<1>9. \A h : \A i \in 1 .. n : Body(h)[i] = IF i = 1 THEN scores[1]
                                           ELSE PutInFront(h[i - 1], scores[i])
  OBVIOUS
<1>10. QED
  <2> HIDE DEF best, Body
  <2>1. QED
    BY <1>1, <1>7, <1>8, <1>9 DEF IsBestSoFar

(* What select_on_score's loop leaves at the front of the list is one of the   *)
(* scores, and no score is better: a later type is put in front unless it is   *)
(* worse.                                                                      *)
LEMMA BestIsLeast ==
  ASSUME NEW C, NEW scores, NEW n \in Nat \ {0}, scores \in [1 .. n -> C], Len(scores) = n,
         \A t \in C : NumericalScore(t) \in Int
  PROVE  /\ BestOf(scores) \in C
         /\ \A j \in 1 .. n : NumericalScore(BestOf(scores)) <= NumericalScore(scores[j])
<1>1. PICK best : IsBestSoFar(best, scores, n)
  BY BestIteration
<1> DEFINE P == {i \in 1 .. n :
                   /\ best[i] \in C
                   /\ \A j \in 1 .. i : NumericalScore(best[i]) <= NumericalScore(scores[j])}
<1>2. 1 \in P
  <2>1. scores[1] \in C /\ 1 \in 1 .. n /\ \A j \in 1 .. 1 : j = 1
    OBVIOUS
  <2>2. QED
    BY <1>1, <2>1 DEF IsBestSoFar
<1>3. ASSUME NEW i \in 1 + 1 .. n, i - 1 \in P
      PROVE  i \in P
  <2>1. i \in 1 .. n /\ i # 1 /\ scores[i] \in C /\ \A j \in 1 .. i : j = i \/ j \in 1 .. i - 1
    OBVIOUS
  <2>2. /\ best[i - 1] \in C
        /\ \A j \in 1 .. i - 1 : NumericalScore(best[i - 1]) <= NumericalScore(scores[j])
    BY <1>3
  <2>3. \A j \in 1 .. i - 1 : scores[j] \in C
    BY <2>1
  <2>4. best[i] = IF NumericalScore(best[i - 1]) >= NumericalScore(scores[i])
                  THEN scores[i] ELSE best[i - 1]
    BY <1>1, <2>1 DEF PutInFront, IsBestSoFar
  <2>5. best[i] \in C
    BY <2>1, <2>2, <2>4
  <2>6. \A j \in 1 .. i : NumericalScore(best[i]) <= NumericalScore(scores[j])
    BY <2>1, <2>2, <2>3, <2>4
  <2>7. QED
    BY <2>1, <2>5, <2>6
<1>4. n \in P
  <2> HIDE DEF P
  <2>1. 1 \in Int /\ n \in Int /\ n \in 1 .. n
    OBVIOUS
  <2>2. \A i \in 1 + 1 .. n : i - 1 \in P => i \in P
    BY <1>3
  <2>3. 1 .. n \subseteq P
    BY <1>2, <2>1, <2>2, Induction
  <2>4. QED
    BY <2>1, <2>3
<1>5. QED
  BY <1>1, <1>4 DEF IsBestSoFar


(* The order std::sort leaves the scores in, equal ones above all, does not    *)
(* matter: select_on_score's loop leaves the same best score for each.         *)
THEOREM AnyOrderIsBest ==
  ASSUME DOMAIN endpoint \subseteq ToSet(Names),
         NEW n \in Nat \ {0}, NEW scores \in [1 .. n -> Conforming],
         \A t \in Conforming : \E i \in 1 .. n : scores[i] = t
  PROVE  /\ BestOf(scores) \in Conforming
         /\ \A t \in Conforming : NumericalScore(BestOf(scores)) <= NumericalScore(t)
<1>1. Len(scores) = n
  OBVIOUS
<1>2. \A t \in Conforming : NumericalScore(t) \in Int
  BY ScoreFits DEF Conforming
<1>3. /\ BestOf(scores) \in Conforming
      /\ \A j \in 1 .. n : NumericalScore(BestOf(scores)) <= NumericalScore(scores[j])
  BY <1>1, <1>2, BestIsLeast
<1>4. QED
  BY <1>3

(* get_matter_type's answer: none only where the endpoint conforms to no type, *)
(* else one it conforms to that no other one it conforms to is better than.    *)
LEMMA ChoiceIsBest ==
  ASSUME DOMAIN endpoint \subseteq ToSet(Names)
  PROVE  \/ SelectOnScore = NoType /\ Conforming = {}
         \/ /\ SelectOnScore \in Conforming
            /\ \A t \in Conforming : NumericalScore(SelectOnScore) <= NumericalScore(t)
<1> DEFINE n == Cardinality(Conforming)
<1>1. /\ IsFiniteSet(Conforming)
      /\ Scores \in [1 .. n -> Conforming]
      /\ \A t \in Conforming : \E i \in 1 .. n : Scores[i] = t
  BY ScoresOfConforming
<1>2. n \in Nat
  BY <1>1, FS_CardinalityType
<1>3. Scores \in Seq(Conforming) /\ Len(Scores) = n
  <2> HIDE DEF n
  <2>1. QED
    BY <1>1, <1>2
<1>4. CASE n = 0
  <2>1. Scores = <<>> /\ Conforming = {}
    <3> HIDE DEF n
    <3>1. QED
      BY <1>1, <1>3, <1>4
  <2>2. QED
    BY <2>1 DEF SelectOnScore
<1>5. CASE n # 0
  <2>1. Scores # <<>>
    <3> HIDE DEF n
    <3>1. QED
      BY <1>3, <1>5
  <2>2. /\ BestOf(Scores) \in Conforming
        /\ \A t \in Conforming : NumericalScore(BestOf(Scores)) <= NumericalScore(t)
    <3> HIDE DEF n
    <3>1. n \in Nat \ {0}
      BY <1>2, <1>5
    <3>2. QED
      BY <1>1, <3>1, AnyOrderIsBest
  <2>3. SelectOnScore = BestOf(Scores)
    BY <2>1 DEF SelectOnScore
  <2>4. QED
    BY <2>2, <2>3
<1>6. QED
  BY <1>4, <1>5

-----------------------------------------------------------------------------
(* The generated tables.                                                      *)

(* What is read in some case of a cluster's Read handler is read.             *)
LEMMA ReadFrom ==
  ASSUME NEW c \in Clusters, NEW i \in DOMAIN ReadCases[c], NEW t \in DOMAIN ReadCases[c][i]
  PROVE  ReadCases[c][i][t] \subseteq Readable(c)
BY DEF Readable

(* The Read handler of a cluster has a case for every attribute that the       *)
(* mapping table of cluster_interactor gives the cluster.                      *)
LEMMA MappedIsReadable ==
  ASSUME NEW c \in Clusters
  PROVE  Mapped[c] \subseteq Readable(c)
<1>1. Mapped["Identify"] \subseteq Readable("Identify")
  <2> DEFINE R == Readable("Identify")
  <2>1. ReadCases["Identify"] = <<IdentifyRead>>
    BY DEF ReadCases
  <2>2. \A t \in DOMAIN IdentifyRead : IdentifyRead[t] \subseteq R
    BY <2>1, ReadFrom, ClustersAre
  <2> HIDE DEF R
  <2>3. /\ IdentifyRead.int16u \subseteq R
        /\ IdentifyRead.IdentifyTypeEnum \subseteq R
        /\ IdentifyRead.bitmap32 \subseteq R
    BY <2>2 DEF IdentifyRead
  <2>4. Mapped["Identify"] \subseteq R
    BY <2>3 DEF Mapped, IdentifyRead
  <2>5. QED
    BY <2>4 DEF R
<1>2. Mapped["Groups"] \subseteq Readable("Groups")
  <2> DEFINE R == Readable("Groups")
  <2>1. ReadCases["Groups"] = <<GroupsRead>>
    BY DEF ReadCases
  <2>2. \A t \in DOMAIN GroupsRead : GroupsRead[t] \subseteq R
    BY <2>1, ReadFrom, ClustersAre
  <2> HIDE DEF R
  <2>3. /\ GroupsRead.NameSupportBitmap \subseteq R
        /\ GroupsRead.bitmap32 \subseteq R
        /\ GroupsRead.int16u \subseteq R
    BY <2>2 DEF GroupsRead
  <2>4. Mapped["Groups"] \subseteq R
    BY <2>3 DEF Mapped, GroupsRead
  <2>5. QED
    BY <2>4 DEF R
<1>3. Mapped["OnOff"] \subseteq Readable("OnOff")
  <2> DEFINE R == Readable("OnOff")
  <2>1. ReadCases["OnOff"] = <<OnOffRead>>
    BY DEF ReadCases
  <2>2. \A t \in DOMAIN OnOffRead : OnOffRead[t] \subseteq R
    BY <2>1, ReadFrom, ClustersAre
  <2> HIDE DEF R
  <2>3. /\ OnOffRead.boolean \subseteq R
        /\ OnOffRead.int16u \subseteq R
        /\ OnOffRead.StartUpOnOffEnum \subseteq R
        /\ OnOffRead.bitmap32 \subseteq R
    BY <2>2 DEF OnOffRead
  <2>4. Mapped["OnOff"] \subseteq R
    BY <2>3 DEF Mapped, OnOffRead
  <2>5. QED
    BY <2>4 DEF R
<1>4. Mapped["LevelControl"] \subseteq Readable("LevelControl")
  <2> DEFINE R == Readable("LevelControl")
  <2>1. ReadCases["LevelControl"] = <<LevelControlRead>>
    BY DEF ReadCases
  <2>2. \A t \in DOMAIN LevelControlRead : LevelControlRead[t] \subseteq R
    BY <2>1, ReadFrom, ClustersAre
  <2> HIDE DEF R
  <2>3. /\ LevelControlRead.int8u \subseteq R
        /\ LevelControlRead.int16u \subseteq R
        /\ LevelControlRead.OptionsBitmap \subseteq R
        /\ LevelControlRead.bitmap32 \subseteq R
    BY <2>2 DEF LevelControlRead
  <2>4. Mapped["LevelControl"] \subseteq R
    BY <2>3 DEF Mapped, LevelControlRead
  <2>5. QED
    BY <2>4 DEF R
<1>5. Mapped["DoorLock"] \subseteq Readable("DoorLock")
  <2> DEFINE R == Readable("DoorLock")
  <2>1. ReadCases["DoorLock"] = <<LockCapacityRead, LockSettingsRead, LockAliroRead>>
    BY DEF ReadCases
  <2>2. \A t \in DOMAIN LockCapacityRead : LockCapacityRead[t] \subseteq R
    BY <2>1, ReadFrom, ClustersAre
  <2>3. \A t \in DOMAIN LockSettingsRead : LockSettingsRead[t] \subseteq R
    BY <2>1, ReadFrom, ClustersAre
  <2>4. \A t \in DOMAIN LockAliroRead : LockAliroRead[t] \subseteq R
    BY <2>1, ReadFrom, ClustersAre
  <2> HIDE DEF R
  <2>5. /\ LockCapacityRead.DlLockState \subseteq R
        /\ LockCapacityRead.DlLockType \subseteq R
        /\ LockCapacityRead.boolean \subseteq R
        /\ LockCapacityRead.DoorStateEnum \subseteq R
        /\ LockCapacityRead.int32u \subseteq R
        /\ LockCapacityRead.int16u \subseteq R
        /\ LockCapacityRead.int8u \subseteq R
        /\ LockCapacityRead.DlCredentialRuleMask \subseteq R
    BY <2>2 DEF LockCapacityRead
  <2>6. /\ LockSettingsRead.int8u \subseteq R
        /\ LockSettingsRead.char_string \subseteq R
        /\ LockSettingsRead.int32u \subseteq R
        /\ LockSettingsRead.OperatingModeEnum \subseteq R
        /\ LockSettingsRead.DlSupportedOperatingModes \subseteq R
        /\ LockSettingsRead.DlDefaultConfigurationRegister \subseteq R
        /\ LockSettingsRead.boolean \subseteq R
        /\ LockSettingsRead.DlLocalProgrammingFeatures \subseteq R
        /\ LockSettingsRead.int16u \subseteq R
        /\ LockSettingsRead.octet_string \subseteq R
    BY <2>3 DEF LockSettingsRead
  <2>7. /\ LockAliroRead.octet_string \subseteq R
        /\ LockAliroRead.int8u \subseteq R
        /\ LockAliroRead.int16u \subseteq R
        /\ LockAliroRead.bitmap32 \subseteq R
    BY <2>4 DEF LockAliroRead
  <2>8. Mapped["DoorLock"] \subseteq R
    BY <2>5, <2>6, <2>7 DEF Mapped, LockCapacityRead, LockSettingsRead, LockAliroRead
  <2>9. QED
    BY <2>8 DEF R
<1>6. Mapped["WindowCovering"] \subseteq Readable("WindowCovering")
  <2> DEFINE R == Readable("WindowCovering")
  <2>1. ReadCases["WindowCovering"] = <<CoverPositionRead, CoverLimitsRead>>
    BY DEF ReadCases
  <2>2. \A t \in DOMAIN CoverPositionRead : CoverPositionRead[t] \subseteq R
    BY <2>1, ReadFrom, ClustersAre
  <2>3. \A t \in DOMAIN CoverLimitsRead : CoverLimitsRead[t] \subseteq R
    BY <2>1, ReadFrom, ClustersAre
  <2> HIDE DEF R
  <2>4. /\ CoverPositionRead.Type \subseteq R
        /\ CoverPositionRead.int16u \subseteq R
        /\ CoverPositionRead.ConfigStatus \subseteq R
        /\ CoverPositionRead.percent \subseteq R
        /\ CoverPositionRead.OperationalStatus \subseteq R
        /\ CoverPositionRead.percent100ths \subseteq R
        /\ CoverPositionRead.EndProductType \subseteq R
    BY <2>2 DEF CoverPositionRead
  <2>5. /\ CoverLimitsRead.int16u \subseteq R
        /\ CoverLimitsRead.Mode \subseteq R
        /\ CoverLimitsRead.SafetyStatus \subseteq R
        /\ CoverLimitsRead.bitmap32 \subseteq R
    BY <2>3 DEF CoverLimitsRead
  <2>6. Mapped["WindowCovering"] \subseteq R
    BY <2>4, <2>5 DEF Mapped, CoverPositionRead, CoverLimitsRead
  <2>7. QED
    BY <2>6 DEF R
<1>7. Mapped["Thermostat"] \subseteq Readable("Thermostat")
  <2> DEFINE R == Readable("Thermostat")
  <2>1. ReadCases["Thermostat"] = <<SetpointRead, ScheduleRead, AirConditioningRead>>
    BY DEF ReadCases
  <2>2. \A t \in DOMAIN SetpointRead : SetpointRead[t] \subseteq R
    BY <2>1, ReadFrom, ClustersAre
  <2>3. \A t \in DOMAIN ScheduleRead : ScheduleRead[t] \subseteq R
    BY <2>1, ReadFrom, ClustersAre
  <2>4. \A t \in DOMAIN AirConditioningRead : AirConditioningRead[t] \subseteq R
    BY <2>1, ReadFrom, ClustersAre
  <2> HIDE DEF R
  <2>5. /\ SetpointRead.temperature \subseteq R
        /\ SetpointRead.OccupancyBitmap \subseteq R
        /\ SetpointRead.int8u \subseteq R
        /\ SetpointRead.HVACSystemTypeBitmap \subseteq R
        /\ SetpointRead.int8s \subseteq R
    BY <2>2 DEF SetpointRead
  <2>6. /\ ScheduleRead.temperature \subseteq R
        /\ ScheduleRead.int8s \subseteq R
        /\ ScheduleRead.RemoteSensingBitmap \subseteq R
        /\ ScheduleRead.ControlSequenceOfOperationEnum \subseteq R
        /\ ScheduleRead.SystemModeEnum \subseteq R
        /\ ScheduleRead.ThermostatRunningModeEnum \subseteq R
        /\ ScheduleRead.StartOfWeekEnum \subseteq R
        /\ ScheduleRead.int8u \subseteq R
        /\ ScheduleRead.TemperatureSetpointHoldEnum \subseteq R
        /\ ScheduleRead.int16u \subseteq R
        /\ ScheduleRead.ProgrammingOperationModeBitmap \subseteq R
        /\ ScheduleRead.RelayStateBitmap \subseteq R
        /\ ScheduleRead.SetpointChangeSourceEnum \subseteq R
        /\ ScheduleRead.int16s \subseteq R
        /\ ScheduleRead.epoch_s \subseteq R
    BY <2>3 DEF ScheduleRead
  <2>7. /\ AirConditioningRead.int8u \subseteq R
        /\ AirConditioningRead.ACTypeEnum \subseteq R
        /\ AirConditioningRead.int16u \subseteq R
        /\ AirConditioningRead.ACRefrigerantTypeEnum \subseteq R
        /\ AirConditioningRead.ACCompressorTypeEnum \subseteq R
        /\ AirConditioningRead.ACErrorCodeBitmap \subseteq R
        /\ AirConditioningRead.ACLouverPositionEnum \subseteq R
        /\ AirConditioningRead.temperature \subseteq R
        /\ AirConditioningRead.ACCapacityFormatEnum \subseteq R
        /\ AirConditioningRead.octet_string \subseteq R
        /\ AirConditioningRead.epoch_s \subseteq R
        /\ AirConditioningRead.bitmap32 \subseteq R
    BY <2>4 DEF AirConditioningRead
  <2>8. Mapped["Thermostat"] \subseteq R
    BY <2>5, <2>6, <2>7 DEF Mapped, SetpointRead, ScheduleRead, AirConditioningRead
  <2>9. QED
    BY <2>8 DEF R
<1>8. Mapped["ColorControl"] \subseteq Readable("ColorControl")
  <2> DEFINE R == Readable("ColorControl")
  <2>1. ReadCases["ColorControl"] = <<PrimaryColorRead, ColorPointRead, ColorLoopRead>>
    BY DEF ReadCases
  <2>2. \A t \in DOMAIN PrimaryColorRead : PrimaryColorRead[t] \subseteq R
    BY <2>1, ReadFrom, ClustersAre
  <2>3. \A t \in DOMAIN ColorPointRead : ColorPointRead[t] \subseteq R
    BY <2>1, ReadFrom, ClustersAre
  <2>4. \A t \in DOMAIN ColorLoopRead : ColorLoopRead[t] \subseteq R
    BY <2>1, ReadFrom, ClustersAre
  <2> HIDE DEF R
  <2>5. /\ PrimaryColorRead.int8u \subseteq R
        /\ PrimaryColorRead.int16u \subseteq R
        /\ PrimaryColorRead.DriftCompensationEnum \subseteq R
        /\ PrimaryColorRead.char_string \subseteq R
        /\ PrimaryColorRead.ColorModeEnum \subseteq R
        /\ PrimaryColorRead.OptionsBitmap \subseteq R
    BY <2>2 DEF PrimaryColorRead
  <2>6. /\ ColorPointRead.int16u \subseteq R
        /\ ColorPointRead.int8u \subseteq R
    BY <2>3 DEF ColorPointRead
  <2>7. /\ ColorLoopRead.int8u \subseteq R
        /\ ColorLoopRead.int16u \subseteq R
        /\ ColorLoopRead.EnhancedColorModeEnum \subseteq R
        /\ ColorLoopRead.ColorCapabilitiesBitmap \subseteq R
        /\ ColorLoopRead.bitmap32 \subseteq R
    BY <2>4 DEF ColorLoopRead
  <2>8. Mapped["ColorControl"] \subseteq R
    BY <2>5, <2>6, <2>7 DEF Mapped, PrimaryColorRead, ColorPointRead, ColorLoopRead
  <2>9. QED
    BY <2>8 DEF R
<1>9. Mapped["IlluminanceMeasurement"] \subseteq Readable("IlluminanceMeasurement")
  <2> DEFINE R == Readable("IlluminanceMeasurement")
  <2>1. ReadCases["IlluminanceMeasurement"] = <<IlluminanceMeasurementRead>>
    BY DEF ReadCases
  <2>2. \A t \in DOMAIN IlluminanceMeasurementRead : IlluminanceMeasurementRead[t] \subseteq R
    BY <2>1, ReadFrom, ClustersAre
  <2> HIDE DEF R
  <2>3. /\ IlluminanceMeasurementRead.int16u \subseteq R
        /\ IlluminanceMeasurementRead.LightSensorTypeEnum \subseteq R
        /\ IlluminanceMeasurementRead.bitmap32 \subseteq R
    BY <2>2 DEF IlluminanceMeasurementRead
  <2>4. Mapped["IlluminanceMeasurement"] \subseteq R
    BY <2>3 DEF Mapped, IlluminanceMeasurementRead
  <2>5. QED
    BY <2>4 DEF R
<1>10. Mapped["TemperatureMeasurement"] \subseteq Readable("TemperatureMeasurement")
  <2> DEFINE R == Readable("TemperatureMeasurement")
  <2>1. ReadCases["TemperatureMeasurement"] = <<TemperatureMeasurementRead>>
    BY DEF ReadCases
  <2>2. \A t \in DOMAIN TemperatureMeasurementRead : TemperatureMeasurementRead[t] \subseteq R
    BY <2>1, ReadFrom, ClustersAre
  <2> HIDE DEF R
  <2>3. /\ TemperatureMeasurementRead.temperature \subseteq R
        /\ TemperatureMeasurementRead.int16u \subseteq R
        /\ TemperatureMeasurementRead.bitmap32 \subseteq R
    BY <2>2 DEF TemperatureMeasurementRead
  <2>4. Mapped["TemperatureMeasurement"] \subseteq R
    BY <2>3 DEF Mapped, TemperatureMeasurementRead
  <2>5. QED
    BY <2>4 DEF R
<1>11. Mapped["PressureMeasurement"] \subseteq Readable("PressureMeasurement")
  <2> DEFINE R == Readable("PressureMeasurement")
  <2>1. ReadCases["PressureMeasurement"] = <<PressureMeasurementRead>>
    BY DEF ReadCases
  <2>2. \A t \in DOMAIN PressureMeasurementRead : PressureMeasurementRead[t] \subseteq R
    BY <2>1, ReadFrom, ClustersAre
  <2> HIDE DEF R
  <2>3. /\ PressureMeasurementRead.int16s \subseteq R
        /\ PressureMeasurementRead.int16u \subseteq R
        /\ PressureMeasurementRead.int8s \subseteq R
        /\ PressureMeasurementRead.bitmap32 \subseteq R
    BY <2>2 DEF PressureMeasurementRead
  <2>4. Mapped["PressureMeasurement"] \subseteq R
    BY <2>3 DEF Mapped, PressureMeasurementRead
  <2>5. QED
    BY <2>4 DEF R
<1>12. Mapped["FlowMeasurement"] \subseteq Readable("FlowMeasurement")
  <2> DEFINE R == Readable("FlowMeasurement")
  <2>1. ReadCases["FlowMeasurement"] = <<FlowMeasurementRead>>
    BY DEF ReadCases
  <2>2. \A t \in DOMAIN FlowMeasurementRead : FlowMeasurementRead[t] \subseteq R
    BY <2>1, ReadFrom, ClustersAre
  <2> HIDE DEF R
  <2>3. /\ FlowMeasurementRead.int16u \subseteq R
        /\ FlowMeasurementRead.bitmap32 \subseteq R
    BY <2>2 DEF FlowMeasurementRead
  <2>4. Mapped["FlowMeasurement"] \subseteq R
    BY <2>3 DEF Mapped, FlowMeasurementRead
  <2>5. QED
    BY <2>4 DEF R
<1>13. Mapped["RelativeHumidityMeasurement"] \subseteq Readable("RelativeHumidityMeasurement")
  <2> DEFINE R == Readable("RelativeHumidityMeasurement")
  <2>1. ReadCases["RelativeHumidityMeasurement"] = <<RelativeHumidityMeasurementRead>>
    BY DEF ReadCases
  <2>2. \A t \in DOMAIN RelativeHumidityMeasurementRead :
           RelativeHumidityMeasurementRead[t] \subseteq R
    BY <2>1, ReadFrom, ClustersAre
  <2> HIDE DEF R
  <2>3. /\ RelativeHumidityMeasurementRead.int16u \subseteq R
        /\ RelativeHumidityMeasurementRead.bitmap32 \subseteq R
    BY <2>2 DEF RelativeHumidityMeasurementRead
  <2>4. Mapped["RelativeHumidityMeasurement"] \subseteq R
    BY <2>3 DEF Mapped, RelativeHumidityMeasurementRead
  <2>5. QED
    BY <2>4 DEF R
<1>14. Mapped["OccupancySensing"] \subseteq Readable("OccupancySensing")
  <2> DEFINE R == Readable("OccupancySensing")
  <2>1. ReadCases["OccupancySensing"] = <<OccupancySensingRead>>
    BY DEF ReadCases
  <2>2. \A t \in DOMAIN OccupancySensingRead : OccupancySensingRead[t] \subseteq R
    BY <2>1, ReadFrom, ClustersAre
  <2> HIDE DEF R
  <2>3. /\ OccupancySensingRead.OccupancyBitmap \subseteq R
        /\ OccupancySensingRead.OccupancySensorTypeEnum \subseteq R
        /\ OccupancySensingRead.OccupancySensorTypeBitmap \subseteq R
        /\ OccupancySensingRead.int16u \subseteq R
        /\ OccupancySensingRead.int8u \subseteq R
        /\ OccupancySensingRead.bitmap32 \subseteq R
    BY <2>2 DEF OccupancySensingRead
  <2>4. Mapped["OccupancySensing"] \subseteq R
    BY <2>3 DEF Mapped, OccupancySensingRead
  <2>5. QED
    BY <2>4 DEF R
<1>15. QED
  BY <1>1, <1>2, <1>3, <1>4, <1>5, <1>6, <1>7, <1>8, <1>9, <1>10, <1>11, <1>12, <1>13,
     <1>14, ClustersAre

(* The reports of a cluster have a case for every attribute that the mapping   *)
(* table of cluster_interactor gives the cluster.                              *)
LEMMA MappedIsReported ==
  ASSUME NEW c \in Clusters
  PROVE  Mapped[c] \subseteq Reported[c]
<1>1. Mapped["Identify"] \subseteq Reported["Identify"]
  BY DEF Mapped, Reported, IdentifyReported
<1>2. Mapped["Groups"] \subseteq Reported["Groups"]
  BY DEF Mapped, Reported, GroupsReported
<1>3. Mapped["OnOff"] \subseteq Reported["OnOff"]
  BY DEF Mapped, Reported, OnOffReported
<1>4. Mapped["LevelControl"] \subseteq Reported["LevelControl"]
  BY DEF Mapped, Reported, LevelRangeReported, LevelOptionsReported
<1>5. Mapped["DoorLock"] \subseteq Reported["DoorLock"]
  BY DEF Mapped, Reported, LockStateReported, LockCapacityReported, LockSettingsReported,
         LockAccessReported
<1>6. Mapped["WindowCovering"] \subseteq Reported["WindowCovering"]
  BY DEF Mapped, Reported, CoverPositionReported, CoverLimitsReported
<1>7. Mapped["Thermostat"] \subseteq Reported["Thermostat"]
  BY DEF Mapped, Reported, TemperatureReported, SetpointReported, ScheduleReported,
         SetbackReported, AirConditioningReported
<1>8. Mapped["ColorControl"] \subseteq Reported["ColorControl"]
  BY DEF Mapped, Reported, CurrentColorReported, PrimaryColorReported, ColorPointReported,
         ColorLoopReported, ColorStartUpReported
<1>9. Mapped["IlluminanceMeasurement"] \subseteq Reported["IlluminanceMeasurement"]
  BY DEF Mapped, Reported, IlluminanceMeasurementReported
<1>10. Mapped["TemperatureMeasurement"] \subseteq Reported["TemperatureMeasurement"]
  BY DEF Mapped, Reported, TemperatureMeasurementReported
<1>11. Mapped["PressureMeasurement"] \subseteq Reported["PressureMeasurement"]
  BY DEF Mapped, Reported, PressureMeasurementReported
<1>12. Mapped["FlowMeasurement"] \subseteq Reported["FlowMeasurement"]
  BY DEF Mapped, Reported, FlowMeasurementReported
<1>13. Mapped["RelativeHumidityMeasurement"] \subseteq Reported["RelativeHumidityMeasurement"]
  BY DEF Mapped, Reported, RelativeHumidityMeasurementReported
<1>14. Mapped["OccupancySensing"] \subseteq Reported["OccupancySensing"]
  BY DEF Mapped, Reported, OccupancyReported, PhysicalContactReported
<1>15. QED
  BY <1>1, <1>2, <1>3, <1>4, <1>5, <1>6, <1>7, <1>8, <1>9, <1>10, <1>11, <1>12, <1>13,
     <1>14, ClustersAre

(* The name a Matter write is sent under is the name the attribute is reported *)
(* under, wherever an attribute that is mapped can be written.                 *)
LEMMA WriteKeyIsName ==
  ASSUME NEW c \in Clusters, NEW a \in Mapped[c] \cap Writable[c]
  PROVE  WriteKey(a) = UnifyAttribute(a)
<1>1. {"RequirePINforRemoteOperation", "ACCapacityformat"} \cap Mapped[c] = {}
  BY ClustersAre DEF Mapped
<1>2. {"Type", "ConfigStatus"} \cap Writable[c] = {}
  <2>1. {"Type", "ConfigStatus"} \cap Writable["Identify"] = {}
    BY DEF Writable, IdentifyWrite
  <2>2. {"Type", "ConfigStatus"} \cap Writable["OnOff"] = {}
    BY DEF Writable, OnOffWrite
  <2>3. {"Type", "ConfigStatus"} \cap Writable["LevelControl"] = {}
    BY DEF Writable, LevelControlWrite
  <2>4. {"Type", "ConfigStatus"} \cap Writable["DoorLock"] = {}
    BY DEF Writable, LockSettingsWrite, LockProgrammingWrite
  <2>5. {"Type", "ConfigStatus"} \cap Writable["WindowCovering"] = {}
    BY DEF Writable, WindowCoveringWrite
  <2>6. {"Type", "ConfigStatus"} \cap Writable["Thermostat"] = {}
    BY DEF Writable, SetpointWrite, AirConditioningWrite
  <2>7. {"Type", "ConfigStatus"} \cap Writable["ColorControl"] = {}
    BY DEF Writable, ColorPointWrite, ColorStartUpWrite
  <2>8. {"Type", "ConfigStatus"} \cap Writable["OccupancySensing"] = {}
    BY DEF Writable, OccupancySensingWrite
  <2>9. QED
    BY <2>1, <2>2, <2>3, <2>4, <2>5, <2>6, <2>7, <2>8, ClustersAre DEF Writable
<1>3. QED
  BY <1>1, <1>2 DEF WriteKey, UnifyAttribute

(* A command of a device that Matter has, but for the answers, is mapped to    *)
(* one InvokeCommand has a case for, which publishes it under its name.        *)
LEMMA CommandsAgree ==
  ASSUME NEW c \in Clusters \ {"Groups"}, NEW u \in CommandNames[c] \ Responses
  PROVE  MatterCommand(c, u) \in Invoked[c] /\ UnifyCommand(c, MatterCommand(c, u)) = u
<1>1. CASE c = "Identify"
  BY <1>1 DEF CommandNames, MatterCommand, UnifyCommand, Responses, Invoked, IdentifyInvoked
<1>2. CASE c = "OnOff"
  BY <1>2 DEF CommandNames, MatterCommand, UnifyCommand, Responses, Invoked, OnOffInvoked
<1>3. CASE c = "LevelControl"
  BY <1>3 DEF CommandNames, MatterCommand, UnifyCommand, Responses, Invoked,
           LevelControlInvoked1, LevelControlInvoked2
<1>4. CASE c = "DoorLock"
  BY <1>4 DEF CommandNames, MatterCommand, UnifyCommand, Responses, Invoked,
           DoorLockInvoked1, DoorLockInvoked2, DoorLockInvoked3, DoorLockInvoked4
<1>5. CASE c = "WindowCovering"
  BY <1>5 DEF CommandNames, MatterCommand, UnifyCommand, Responses, Invoked,
           WindowCoveringInvoked
<1>6. CASE c = "Thermostat"
  BY <1>6 DEF CommandNames, MatterCommand, UnifyCommand, Responses, Invoked,
           ThermostatInvoked
<1>7. CASE c = "ColorControl"
  BY <1>7 DEF CommandNames, MatterCommand, UnifyCommand, Responses, Invoked,
           ColorControlInvoked1, ColorControlInvoked2, ColorControlInvoked3,
           ColorControlInvoked4, ColorControlInvoked5
<1>8. QED
  BY <1>1, <1>2, <1>3, <1>4, <1>5, <1>6, <1>7, ClustersAre DEF CommandNames

(* What closes a list of commands is none of the commands Matter invokes.      *)
LEMMA EndIsNoCommand ==
  ASSUME NEW c \in Clusters
  PROVE  End \notin Invoked[c]
<1>1. End \notin Invoked["Identify"]
  BY DEF End, Invoked, IdentifyInvoked
<1>2. End \notin Invoked["Groups"]
  BY DEF End, Invoked, GroupsInvoked
<1>3. End \notin Invoked["OnOff"]
  BY DEF End, Invoked, OnOffInvoked
<1>4. End \notin Invoked["LevelControl"]
  BY DEF End, Invoked, LevelControlInvoked1, LevelControlInvoked2
<1>5. End \notin Invoked["DoorLock"]
  BY DEF End, Invoked, DoorLockInvoked1, DoorLockInvoked2, DoorLockInvoked3,
         DoorLockInvoked4
<1>6. End \notin Invoked["WindowCovering"]
  BY DEF End, Invoked, WindowCoveringInvoked
<1>7. End \notin Invoked["Thermostat"]
  BY DEF End, Invoked, ThermostatInvoked
<1>8. End \notin Invoked["ColorControl"]
  BY DEF End, Invoked, ColorControlInvoked1, ColorControlInvoked2, ColorControlInvoked3,
         ColorControlInvoked4, ColorControlInvoked5
<1>9. End \notin Invoked["IlluminanceMeasurement"]
  BY DEF End, Invoked, IlluminanceMeasurementInvoked
<1>10. End \notin Invoked["TemperatureMeasurement"]
  BY DEF End, Invoked, TemperatureMeasurementInvoked
<1>11. End \notin Invoked["PressureMeasurement"]
  BY DEF End, Invoked, PressureMeasurementInvoked
<1>12. End \notin Invoked["FlowMeasurement"]
  BY DEF End, Invoked, FlowMeasurementInvoked
<1>13. End \notin Invoked["RelativeHumidityMeasurement"]
  BY DEF End, Invoked, RelativeHumidityMeasurementInvoked
<1>14. End \notin Invoked["OccupancySensing"]
  BY DEF End, Invoked, OccupancySensingInvoked
<1>15. QED
  BY <1>1, <1>2, <1>3, <1>4, <1>5, <1>6, <1>7, <1>8, <1>9, <1>10, <1>11, <1>12, <1>13,
     <1>14, ClustersAre

-----------------------------------------------------------------------------
(* The endpoint of a device.                                                  *)

(* Two clusters of Matter's have two names in Unify, and the translators       *)
(* subscribe to the names the clusters are mapped by.                          *)
LEMMA ClusterNames ==
  ASSUME NEW c \in Clusters
  PROVE  /\ TopicName(c) = UnifyCluster(c)
         /\ \A e \in Clusters : UnifyCluster(c) = UnifyCluster(e) => c = e
         /\ UnifyCluster(c) = "Groups" => c = "Groups"
         /\ c \notin {Basic, "Descriptor"}
BY ClustersAre DEF TopicName, UnifyCluster, Basic

(* The clusters a device is translated to are the bridge's and Basic, and the  *)
(* endpoint adds the Descriptor.                                               *)
LEMMA EndpointClusters ==
  ASSUME NEW d
  PROVE  /\ DOMAIN Translated(d) \subseteq Clusters \cup {Basic}
         /\ DOMAIN MatterClusters(d) = DOMAIN Translated(d) \cup {Basic, "Descriptor"}
         /\ \A c \in DOMAIN Translated(d) : MatterClusters(d)[c] = Translated(d)[c]
         /\ Basic \notin DOMAIN Translated(d) => MatterClusters(d)[Basic] = BridgedCluster
<1>1. \A n : ClustersOf(n) \subseteq Clusters \cup {Basic}
  BY DEF ClustersOf
<1>2. DOMAIN Translated(d) \subseteq Clusters \cup {Basic}
  BY <1>1 DEF Translated
<1> DEFINE T == Translated(d)
<1>3. MatterClusters(d) = [c \in DOMAIN T \cup {Basic, "Descriptor"} |->
                             CASE c \in DOMAIN T -> T[c]
                               [] c = "Descriptor" -> DescriptorCluster
                               [] OTHER -> BridgedCluster]
  BY DEF MatterClusters
<1>4. Basic # "Descriptor" /\ "Descriptor" \notin DOMAIN T
  BY <1>2, ClusterNames DEF Basic
<1> HIDE DEF T
<1>5. /\ DOMAIN MatterClusters(d) = DOMAIN T \cup {Basic, "Descriptor"}
      /\ \A c \in DOMAIN T : MatterClusters(d)[c] = T[c]
  BY <1>3, <1>4
<1>6. Basic \notin DOMAIN T => MatterClusters(d)[Basic] = BridgedCluster
  BY <1>3, <1>4
<1>7. QED
  BY <1>2, <1>5, <1>6 DEF T

(* The endpoint shows only clusters the device types are scored by.            *)
LEMMA EndpointNames ==
  ASSUME NEW d
  PROVE  DOMAIN MatterClusters(d) \subseteq ToSet(Names)
BY EndpointClusters, KnownNames

(* What is listed of a cluster but Groups is what the table maps to it, what   *)
(* its emulator adds and the global attributes.                                *)
LEMMA ListedAttributes ==
  ASSUME NEW c, NEW k
  PROVE  /\ c \in Clusters \ {"Groups"} =>
              MatterCluster(c, k).attributes
                \subseteq Mapped[c] \cup Emulated(c) \cup GlobalAttributes
         /\ MatterCluster("Groups", k).attributes \subseteq Mapped["Groups"] \cup GlobalAttributes
         /\ MatterCluster(Basic, k).attributes
              \subseteq {"Reachable", "UniqueID"} \cup BridgedAttributes \cup GlobalAttributes
<1>1. ASSUME c \in Clusters \ {"Groups"}
      PROVE  MatterCluster(c, k).attributes
               \subseteq Mapped[c] \cup Emulated(c) \cup GlobalAttributes
  <2>1. c # Basic /\ c # "Groups"
    BY <1>1, ClusterNames
  <2>2. UNION {AttributesOf(c, u) : u \in k.attributes} \subseteq Mapped[c]
    BY <2>1 DEF AttributesOf
  <2>3. EmulatedAttributes(c) \subseteq Emulated(c)
    BY DEF EmulatedAttributes
  <2>4. MatterCluster(c, k).attributes =
          (UNION {AttributesOf(c, u) : u \in k.attributes}) \cup {} \cup GlobalAttributes
            \cup EmulatedAttributes(c)
    BY <2>1 DEF MatterCluster, Emulate
  <2>5. QED
    BY <2>2, <2>3, <2>4
<1>2. MatterCluster("Groups", k).attributes \subseteq Mapped["Groups"] \cup GlobalAttributes
  BY DEF MatterCluster, Emulate, Mapped, GlobalAttributes
<1>3. MatterCluster(Basic, k).attributes
        \subseteq {"Reachable", "UniqueID"} \cup BridgedAttributes \cup GlobalAttributes
  <2>1. \A u : AttributesOf(Basic, u) \subseteq {"Reachable", "UniqueID"}
    BY DEF AttributesOf, BasicAttribute
  <2>2. EmulatedAttributes(Basic) = {} /\ Basic # "Groups"
    BY DEF EmulatedAttributes, Basic
  <2>3. MatterCluster(Basic, k).attributes =
          (UNION {AttributesOf(Basic, u) : u \in k.attributes}) \cup BridgedAttributes
            \cup GlobalAttributes \cup EmulatedAttributes(Basic)
    BY <2>2 DEF MatterCluster, Emulate
  <2>4. QED
    BY <2>1, <2>2, <2>3
<1>4. QED
  BY <1>1, <1>2, <1>3

(* A cluster of the device that is on the endpoint is there as what is         *)
(* translated from it and from no other cluster of the device.                 *)
LEMMA ServedCluster ==
  ASSUME device \in Devices, endpoint = MatterClusters(device), NEW k \in Served
  PROVE  /\ ClusterOf(k) \in Clusters
         /\ UnifyCluster(ClusterOf(k)) = k.name
         /\ endpoint[ClusterOf(k)] = MatterCluster(ClusterOf(k), k)
<1>1. k \in device /\ k.name # "Basic"
  BY DEF Served
<1>2. PICK c \in ClustersOf(k.name) : c \in DOMAIN endpoint
  BY DEF Served
<1>3. c \in Clusters /\ UnifyCluster(c) = k.name
  BY <1>1, <1>2 DEF ClustersOf
<1>4. ClusterOf(k) = c
  <2>1. ClusterOf(k) \in ClustersOf(k.name)
    BY <1>2 DEF ClusterOf
  <2>2. ClusterOf(k) \in Clusters /\ UnifyCluster(ClusterOf(k)) = k.name
    BY <1>1, <2>1 DEF ClustersOf
  <2>3. QED
    BY <1>3, <2>2, ClusterNames
<1>5. c \in DOMAIN Translated(device) /\ endpoint[c] = Translated(device)[c]
  BY <1>2, <1>3, ClusterNames, EndpointClusters
<1>6. \A l \in device : c \in ClustersOf(l.name) => l = k
  <2>1. \A l \in device : c \in ClustersOf(l.name) => l.name = k.name
    BY <1>3, ClusterNames DEF ClustersOf
  <2>2. QED
    BY <1>1, <2>1, DevicesAssumption
<1>7. (CHOOSE l \in device : c \in ClustersOf(l.name)) = k
  BY <1>1, <1>2, <1>6
<1>8. Translated(device)[c] = MatterCluster(c, k)
  BY <1>5, <1>7 DEF Translated
<1>9. QED
  BY <1>3, <1>4, <1>5, <1>8

(* Of a list that is closed by End after commands that are not, whatever       *)
(* follows, Matter sees these commands.                                        *)
LEMMA SeenCommands ==
  ASSUME NEW c, NEW X, End \in X, NEW s \in Seq(X), NEW t \in Seq(X),
         End \notin ToSet(s), endpoint[c].accepted = Append(s, End) \o t
  PROVE  Visible(c) = ToSet(s)
<1> DEFINE full == endpoint[c].accepted
           n == Len(s)
<1>1. n \in Nat /\ DOMAIN s = 1 .. n
  OBVIOUS
<1>2. /\ Append(s, End) \in Seq(X)
      /\ Len(Append(s, End)) = n + 1
      /\ \A i \in 1 .. n : Append(s, End)[i] = s[i]
      /\ Append(s, End)[n + 1] = End
  OBVIOUS
<1>3. /\ DOMAIN full = 1 .. n + 1 + Len(t)
      /\ Len(t) \in Nat
      /\ \A i \in 1 .. n + 1 : full[i] = Append(s, End)[i]
  <2> DEFINE a == Append(s, End)
  <2>1. a \in Seq(X) /\ full = a \o t
    BY <1>2
  <2> HIDE DEF a, full
  <2>2. /\ DOMAIN full = 1 .. Len(a) + Len(t)
        /\ Len(t) \in Nat
        /\ \A i \in 1 .. Len(a) : full[i] = a[i]
    BY <2>1
  <2>3. QED
    BY <1>2, <2>2 DEF a
<1> HIDE DEF full, n
<1>4. \A i \in 1 .. n : full[i] = s[i] /\ full[i] # End
  BY <1>1, <1>2, <1>3 DEF ToSet
<1>5. full[n + 1] = End
  BY <1>1, <1>2, <1>3
<1>6. {j \in DOMAIN full : \A h \in 1 .. j : full[h] # End} = 1 .. n
  BY <1>1, <1>3, <1>4, <1>5
<1>7. Visible(c) = {full[i] : i \in 1 .. n}
  BY <1>6 DEF Visible, full
<1>8. QED
  BY <1>1, <1>4, <1>7 DEF ToSet

(* A sequence of elements of a set is one of elements of a larger set.         *)
LEMMA LargerSet ==
  ASSUME NEW X, NEW Y, X \subseteq Y, NEW s \in Seq(X)
  PROVE  s \in Seq(Y)
<1>1. Len(s) \in Nat /\ s \in [1 .. Len(s) -> X]
  OBVIOUS
<1>2. s \in [1 .. Len(s) -> Y]
  BY <1>1
<1>3. QED
  BY <1>1, <1>2

-----------------------------------------------------------------------------
(* The tables of an endpoint that is built.                                   *)

(* Whatever a device announces, every attribute listed for it is answered.     *)
LEMMA BuiltIsAnswered ==
  ASSUME endpoint = MatterClusters(device)
  PROVE  ListedIsAnswered
<1> SUFFICES ASSUME NEW c \in DOMAIN endpoint \ {"Descriptor"},
                    NEW a \in endpoint[c].attributes \ GlobalAttributes
             PROVE  \/ c = Basic /\ a \in BasicRead \cup {"UniqueID"}
                    \/ c # Basic /\ a \in Readable(c) \cup Emulated(c)
  BY DEF ListedIsAnswered
<1>1. \A e \in DOMAIN Translated(device) : \E k : Translated(device)[e] = MatterCluster(e, k)
  BY DEF Translated
<1>2. CASE c \in DOMAIN Translated(device)
  <2>1. PICK k : endpoint[c] = MatterCluster(c, k)
    BY <1>1, <1>2, EndpointClusters
  <2>2. CASE c = Basic
    BY <2>1, <2>2, ListedAttributes DEF BasicRead, BridgedAttributes
  <2>3. CASE c = "Groups"
    <3>1. a \in Mapped["Groups"]
      BY <2>1, <2>3, ListedAttributes
    <3>2. c \in Clusters /\ c # Basic
      BY <2>3, ClustersAre, ClusterNames
    <3>3. QED
      BY <2>3, <3>1, <3>2, MappedIsReadable
  <2>4. CASE c \notin {Basic, "Groups"}
    <3>1. c \in Clusters \ {"Groups"}
      BY <1>2, <2>4, EndpointClusters
    <3>2. a \in Mapped[c] \cup Emulated(c)
      BY <2>1, <3>1, ListedAttributes
    <3>3. QED
      BY <2>4, <3>1, <3>2, MappedIsReadable
  <2>5. QED
    BY <2>2, <2>3, <2>4
<1>3. CASE c \notin DOMAIN Translated(device)
  <2>1. c = Basic /\ endpoint[c] = BridgedCluster
    BY <1>3, EndpointClusters
  <2>2. QED
    BY <2>1 DEF BridgedCluster, BridgedAttributes, GlobalAttributes, BasicRead
<1>4. QED
  BY <1>2, <1>3

(* The reports of a device reach the attributes listed for it.                 *)
LEMMA BuiltIsReported ==
  ASSUME device \in Devices, endpoint = MatterClusters(device)
  PROVE  ReportsReachAttribute
<1> SUFFICES ASSUME NEW k \in Served
             PROVE  /\ TopicName(ClusterOf(k)) = k.name
                    /\ \A u \in k.attributes :
                         AttributesOf(ClusterOf(k), u) \cap endpoint[ClusterOf(k)].attributes
                           \subseteq Reported[ClusterOf(k)] \cup GlobalAttributes
  BY DEF ReportsReachAttribute
<1>1. ClusterOf(k) \in Clusters /\ UnifyCluster(ClusterOf(k)) = k.name
  BY ServedCluster
<1>2. ClusterOf(k) # Basic
  BY <1>1, ClusterNames
<1>3. \A u : AttributesOf(ClusterOf(k), u) \subseteq Mapped[ClusterOf(k)]
  BY <1>2 DEF AttributesOf
<1>4. QED
  BY <1>1, <1>3, ClusterNames, MappedIsReported

(* What Matter writes reaches the device under the name it announced.          *)
LEMMA BuiltIsWritten ==
  ASSUME device \in Devices, endpoint = MatterClusters(device)
  PROVE  WritesReachAttribute
<1> SUFFICES ASSUME NEW k \in Served, NEW u \in k.attributes,
                    NEW a \in AttributesOf(ClusterOf(k), u) \cap Writable[ClusterOf(k)]
             PROVE  WriteKey(a) = u
  BY DEF WritesReachAttribute
<1>1. ClusterOf(k) \in Clusters /\ ClusterOf(k) # Basic
  BY ServedCluster, ClusterNames
<1>2. a \in Mapped[ClusterOf(k)] \cap Writable[ClusterOf(k)] /\ UnifyAttribute(a) = u
  BY <1>1 DEF AttributesOf
<1>3. QED
  BY <1>1, <1>2, WriteKeyIsName

(* The commands Matter sees are the device's, and it sees all it has.          *)
LEMMA BuiltIsInvoked ==
  ASSUME device \in Devices, endpoint = MatterClusters(device)
  PROVE  CommandsReachDevice
<1> SUFFICES ASSUME NEW k \in Served, ClusterOf(k) # "Groups"
             PROVE  /\ \A m \in Visible(ClusterOf(k)) :
                         /\ m \in Invoked[ClusterOf(k)]
                         /\ UnifyCommand(ClusterOf(k), m) \in ToSet(k.commands)
                    /\ \A u \in ToSet(k.commands) \cap CommandNames[ClusterOf(k)] :
                         \E m \in Visible(ClusterOf(k)) : UnifyCommand(ClusterOf(k), m) = u
  BY DEF CommandsReachDevice
<1> DEFINE c == ClusterOf(k)
           own == ToSet(k.commands)
           listed == Accepted(c, k.commands)
<1>1. c \in Clusters \ {"Groups"} /\ c # Basic /\ k.name # "Groups"
  BY ServedCluster, ClusterNames
<1>2. k \in device /\ k.commands \in Seq(STRING) /\ own \cap Responses = {}
  BY <1>1, DevicesAssumption DEF Served
<1>3. endpoint[c].accepted = Append(listed, End) \o EmulatedCommands(c)
  <2>1. endpoint[c] = MatterCluster(c, k)
    BY ServedCluster
  <2> HIDE DEF c
  <2>2. QED
    BY <1>1, <2>1 DEF MatterCluster, Emulate
<1> DEFINE X == {MatterCommand(c, u) : u \in STRING}
           Y == X \cup {End, "LockDoor", "UnlockDoor"}
<1>4. EmulatedCommands(c) \in Seq(Y)
  <2>1. "LockDoor" \in Y /\ "UnlockDoor" \in Y
    OBVIOUS
  <2> HIDE DEF Y
  <2>2. <<>> \in Seq(Y) /\ <<"LockDoor", "UnlockDoor">> \in Seq(Y)
    BY <2>1
  <2>3. QED
    BY <2>2 DEF EmulatedCommands
<1>5. ToSet(listed) = {MatterCommand(c, u) : u \in own \cap CommandNames[c]}
  <2>1. ToSet(listed) = {MatterCommand(c, u) : u \in {v \in own : IsKnown(c, v)}}
    BY <1>2, AcceptedElements
  <2>2. {v \in own : IsKnown(c, v)} = own \cap CommandNames[c]
    BY <1>1 DEF IsKnown
  <2>3. QED
    BY <2>1, <2>2
<1>6. listed \in Seq(Y) /\ End \in Y
  <2>1. listed \in Seq(X)
    BY <1>2, AcceptedElements
  <2>2. X \subseteq Y /\ End \in Y
    OBVIOUS
  <2> HIDE DEF X, Y, listed
  <2>3. QED
    BY <2>1, <2>2, LargerSet
<1> HIDE DEF c, own, listed, X, Y
<1>7. \A u \in own \cap CommandNames[c] : /\ MatterCommand(c, u) \in Invoked[c]
                                          /\ UnifyCommand(c, MatterCommand(c, u)) = u
  BY <1>1, <1>2, CommandsAgree
<1>8. End \notin ToSet(listed)
  BY <1>1, <1>5, <1>7, EndIsNoCommand
<1>9. Visible(c) = ToSet(listed)
  BY <1>3, <1>4, <1>8, <1>6, SeenCommands
<1>10. QED
  BY <1>5, <1>7, <1>9 DEF c, own

-----------------------------------------------------------------------------
(* The invariant.                                                             *)

IsBest(t) ==
  \/ t = NoType /\ Conforming = {}
  \/ t \in Conforming /\ \A s \in Conforming : NumericalScore(t) <= NumericalScore(s)

(* The endpoint is the translation of the device once it is built, a type is   *)
(* chosen only then, and it stays the best one for the endpoint.               *)
BuilderInv ==
  /\ device \in Devices
  /\ endpoint \in {Empty, MatterClusters(device)}
  /\ endpoint = Empty => matter_type = Unset
  /\ matter_type # Unset => IsBest(matter_type)

(* A step that leaves the endpoint as it is leaves the best type the best.     *)
LEMMA BestStays ==
  ASSUME UNCHANGED <<strict, garbage, endpoint>>, NEW t, IsBest(t)
  PROVE  IsBest(t)'
<1>1. \A s : Conforms(s)' <=> Conforms(s)
  BY DEF Conforms, HasWhatItNeeds, HasCommand
<1>2. \A s : NumericalScore(s)' = NumericalScore(s)
  BY DEF NumericalScore, Miss, Extra, Required, Matched
<1>3. Conforming' = Conforming
  BY <1>1 DEF Conforming
<1>4. QED
  BY <1>2, <1>3 DEF IsBest

(* BuilderInv holds at the start and is kept by building the endpoint and by   *)
(* choosing its type.                                                          *)
THEOREM BuilderInvariant == Spec => []BuilderInv
<1>1. Init => BuilderInv
  BY DEF Init, BuilderInv
<1>2. BuilderInv /\ [Next]_vars => BuilderInv'
  <2> SUFFICES ASSUME BuilderInv, [Next]_vars
               PROVE  BuilderInv'
    OBVIOUS
  <2>1. CASE BuildMatterCluster
    <3>1. Basic \in DOMAIN MatterClusters(device)
      BY EndpointClusters
    <3>2. MatterClusters(device) # Empty
      BY <3>1 DEF Empty
    <3>3. MatterClusters(device)' = MatterClusters(device')
      OBVIOUS
    <3>4. endpoint' = MatterClusters(device) /\ device' = device /\ matter_type' = Unset
      BY <2>1 DEF BuildMatterCluster, BuilderInv
    <3>5. QED
      BY <3>2, <3>4 DEF BuilderInv
  <2>2. CASE GetMatterType
    <3>1. endpoint = MatterClusters(device)
      BY <2>2 DEF GetMatterType, BuilderInv
    <3>2. IsBest(SelectOnScore)
      BY <3>1, EndpointNames, ChoiceIsBest DEF IsBest
    <3>3. PICK t : t = SelectOnScore
      OBVIOUS
    <3>4. IsBest(t)'
      BY <2>2, <3>2, <3>3, BestStays DEF GetMatterType
    <3>5. matter_type' = t /\ UNCHANGED <<device, endpoint>> /\ endpoint # Empty
      BY <2>2, <3>3 DEF GetMatterType
    <3>6. IsBest(matter_type)'
      BY <3>4, <3>5 DEF IsBest
    <3>7. QED
      BY <3>1, <3>5, <3>6 DEF BuilderInv
  <2>3. CASE UNCHANGED vars
    <3>1. ASSUME matter_type' # Unset
          PROVE  IsBest(matter_type)'
      BY <2>3, <3>1, BestStays DEF vars, BuilderInv
    <3>2. QED
      BY <2>3, <3>1 DEF vars, BuilderInv
  <2>4. QED
    BY <2>1, <2>2, <2>3 DEF Next
<1>3. QED
  BY <1>1, <1>2, PTL DEF Spec

(* The clusters, attributes and commands of the endpoint, whenever there is    *)
(* one: before that the four properties speak of nothing.                      *)
LEMMA BuiltOrEmpty ==
  ASSUME BuilderInv
  PROVE  /\ ListedIsAnswered
         /\ ReportsReachAttribute
         /\ WritesReachAttribute
         /\ CommandsReachDevice
<1>1. CASE endpoint = MatterClusters(device)
  BY <1>1, BuiltIsAnswered, BuiltIsReported, BuiltIsWritten, BuiltIsInvoked DEF BuilderInv
<1>2. CASE endpoint = Empty
  <2>1. DOMAIN endpoint = {} /\ Served = {}
    BY <1>2 DEF Empty, Served
  <2>2. QED
    BY <2>1 DEF ListedIsAnswered, ReportsReachAttribute, WritesReachAttribute,
                CommandsReachDevice
<1>3. QED
  BY <1>1, <1>2 DEF BuilderInv

(* For whatever device: a read of every attribute that cluster_interactor,     *)
(* the emulators and bridged_device_basic_info list on the endpoint is         *)
(* answered, the bridged device's UniqueID aside.                              *)
THEOREM AttributesAnswered == Spec => []ListedIsAnswered
BY BuilderInvariant, BuiltOrEmpty, PTL

(* For whatever device: what it reports of an attribute that is listed for it  *)
(* arrives on the topic its cluster's translator subscribes to, and            *)
(* reported_updated has a case for it.                                         *)
THEOREM AttributesReported == Spec => []ReportsReachAttribute
BY BuilderInvariant, BuiltOrEmpty, PTL

(* For whatever device: a Matter write of an attribute, the window covering's  *)
(* Mode aside, is sent to it under the name the device announced the attribute *)
(* by.                                                                         *)
THEOREM AttributesWritten == Spec => []WritesReachAttribute
BY BuilderInvariant, BuiltOrEmpty, PTL

(* For whatever device and order of its commands: Matter sees, before the end  *)
(* of the list, the device's commands and no other, and InvokeCommand          *)
(* publishes each under the name the device announced.                         *)
THEOREM CommandsInvoked == Spec => []CommandsReachDevice
BY BuilderInvariant, BuiltOrEmpty, PTL

(* The type at the front of select_on_score's list is one the endpoint         *)
(* conforms to and of the best score, whatever clusters it has (and by         *)
(* AnyOrderIsBest in whatever order the sort leaves equal scores).             *)
THEOREM TypeIsBest == Spec => []ChosenIsBest
<1>1. BuilderInv => ChosenIsBest
  <2> SUFFICES ASSUME BuilderInv
               PROVE  ChosenIsBest
    OBVIOUS
  <2>1. \A t : t \in Conforming <=> t \in DOMAIN DeviceTypes /\ Conforms(t)
    BY DEF Conforming
  <2>2. NoType \notin Conforming /\ NoType # Unset
    BY <2>1, TypeIds DEF NoType, Unset
  <2>3. CASE Chosen
    BY <2>1, <2>3 DEF BuilderInv, IsBest, ChosenIsBest, Chosen
  <2>4. CASE matter_type = NoType
    BY <2>1, <2>2, <2>4 DEF BuilderInv, IsBest, ChosenIsBest, Chosen
  <2>5. QED
    BY <2>3, <2>4 DEF ChosenIsBest
<1>2. QED
  BY <1>1, BuilderInvariant, PTL

ScoresAreBytes ==
  \A t \in DOMAIN DeviceTypes : Extra(t) >= 0 /\ Miss(t) >= 0 /\ NumericalScore(t) \in 0 .. 255

(* Whatever the device, no type's score leaves the uint8_t that                *)
(* select_on_score computes it in, so the scores compare as numbers.           *)
THEOREM ScoresFitTheirType == Spec => []ScoresAreBytes
<1>1. BuilderInv => ScoresAreBytes
  <2> SUFFICES ASSUME BuilderInv, NEW t \in DOMAIN DeviceTypes
               PROVE  Extra(t) >= 0 /\ Miss(t) >= 0 /\ NumericalScore(t) \in 0 .. 255
    BY DEF ScoresAreBytes
  <2>1. DOMAIN Empty \subseteq ToSet(Names)
    BY DEF Empty
  <2>2. DOMAIN endpoint \subseteq ToSet(Names)
    BY <2>1, EndpointNames DEF BuilderInv
  <2>3. QED
    BY <2>2, ScoreFits
<1>2. QED
  BY <1>1, BuilderInvariant, PTL

(* A strict bridge gives a type only to an endpoint that has what the type     *)
(* demands, up to commands read from past the end of a short list.             *)
THEOREM StrictTypeIsSound == Spec => []StrictIsSound
<1>1. BuilderInv => StrictIsSound
  <2> SUFFICES ASSUME BuilderInv, strict, Chosen,
                      NEW c \in DOMAIN DeviceTypes[matter_type].mandatory
               PROVE  LET needs == DeviceTypes[matter_type].mandatory[c]
                      IN /\ c \in DOMAIN endpoint
                         /\ needs.attributes \subseteq endpoint[c].attributes
                         /\ \/ needs.commands \subseteq ToSet(endpoint[c].accepted)
                            \/ garbage # {} /\ Len(endpoint[c].accepted) < ScanLength
    BY DEF StrictIsSound
  <2> DEFINE needs == DeviceTypes[matter_type].mandatory[c]
  <2>1. Conforms(matter_type)
    BY DEF BuilderInv, IsBest, Chosen, Conforming
  <2>2. HasWhatItNeeds(c, needs)
    BY <2>1 DEF Conforms
  <2> HIDE DEF needs
  <2>3. /\ c \in DOMAIN endpoint
        /\ needs.attributes \subseteq endpoint[c].attributes
        /\ \A m \in needs.commands : HasCommand(endpoint[c].accepted, m)
    BY <2>2 DEF HasWhatItNeeds
  <2>4. CASE \A m \in needs.commands : m \in ToSet(endpoint[c].accepted)
    BY <2>3, <2>4 DEF needs
  <2>5. CASE \E m \in needs.commands : m \notin ToSet(endpoint[c].accepted)
    <3>1. PICK m \in needs.commands : m \notin ToSet(endpoint[c].accepted)
      BY <2>5
    <3>2. HasCommand(endpoint[c].accepted, m)
      BY <2>3, <3>1
    <3>3. Len(endpoint[c].accepted) < ScanLength /\ m \in garbage
      BY <3>1, <3>2 DEF HasCommand, ToSet
    <3>4. QED
      BY <2>3, <3>3 DEF needs
  <2>6. QED
    BY <2>4, <2>5
<1>2. QED
  BY <1>1, BuilderInvariant, PTL
=============================================================================
