------------------------- MODULE ServerConfigProofs -------------------------
(***************************************************************************)
(* Theorems about ServerConfig, for any ports, paths and variables and any *)
(* length of a request's lists.  All rest on two facts: a range over a map *)
(* lists each of its pairs once, and assigning such a list gives the map.  *)
(***************************************************************************)
EXTENDS ServerConfig, FiniteSetTheorems, NaturalsInduction, TLAPS

-----------------------------------------------------------------------------
(* The conversions.                                                        *)

\* A range over a finite set lists each of its elements, and each once.
LEMMA Listing ==
  ASSUME NEW S, IsFiniteSet(S), NEW q \in SetToSeqs(S)
  PROVE  /\ Cardinality(S) \in Nat
         /\ q \in [1..Cardinality(S) -> S]
         /\ \A x \in S : \E i \in DOMAIN q : q[i] = x
         /\ \A i, j \in DOMAIN q : q[i] = q[j] => i = j
  <1> DEFINE D == 1..Cardinality(S)
  <1>1. Cardinality(S) \in Nat
    BY FS_CardinalityType
  <1>2. q \in [D -> S] /\ \A i, j \in D : q[i] = q[j] => i = j
    BY DEF SetToSeqs
  <1>3. q \in Injection(D, S)
    BY <1>2 DEF Injection, IsInjective
  <1>4. Cardinality(D) = Cardinality(S)
    BY <1>1, FS_Interval
  <1>5. q \in Surjection(D, S)
    BY <1>3, <1>4, FS_Injection
  <1> QED
    BY <1>1, <1>2, <1>5 DEF Surjection

\* Among the entries with one key there is a last one.
LEMMA LastEntry ==
  ASSUME NEW n \in Nat, NEW entries, DOMAIN entries = 1..n,
         NEW i0 \in DOMAIN entries
  PROVE  \E i \in DOMAIN entries :
           /\ entries[i][1] = entries[i0][1]
           /\ \A j \in DOMAIN entries : entries[j][1] = entries[i0][1] => j <= i
  <1> DEFINE T == {m \in Nat : m < n /\ entries[n - m][1] = entries[i0][1]}
  <1>1. n - i0 \in T
    <2>1. n - i0 \in Nat /\ n - i0 < n /\ n - (n - i0) = i0
      OBVIOUS
    <2> QED
      BY <2>1
  <1>2. PICK m \in T : \A k \in T : ~ (<<k, m>> \in OpToRel(<, Nat))
    <2> HIDE DEF T
    <2>1. T \subseteq Nat
      BY DEF T
    <2> QED
      BY <1>1, <2>1, NatLessThanWellFounded, WFMin
  <1>3. \A k \in T : m <= k
    <2>1. \A k \in Nat : k < m => <<k, m>> \in OpToRel(<, Nat)
      BY DEF OpToRel
    <2>2. T \subseteq Nat
      OBVIOUS
    <2> HIDE DEF T
    <2>3. \A k \in T : ~ (k < m)
      BY <1>2, <2>1, <2>2
    <2>4. \A k \in T : k \in Nat /\ m \in Nat
      BY <2>2
    <2> QED
      BY ONLY <2>3, <2>4
  <1>4. n - m \in DOMAIN entries
    OBVIOUS
  <1>5. ASSUME NEW j \in DOMAIN entries, entries[j][1] = entries[i0][1]
        PROVE  j <= n - m
    <2>1. n - j \in Nat /\ n - j < n /\ n - (n - j) = j
      OBVIOUS
    <2>2. n - j \in T
      BY <1>5, <2>1
    <2> QED
      BY <1>3, <2>2
  <1> QED
    BY <1>4, <1>5

\* A map made by assignments has the keys and the values of its entries.
LEMMA Assigned ==
  ASSUME NEW n \in Nat, NEW entries, DOMAIN entries = 1..n
  PROVE  /\ \A i \in 1..n : entries[i][1] \in DOMAIN Assign(entries)
         /\ \A k \in DOMAIN Assign(entries) : \E i \in 1..n :
              entries[i][1] = k /\ entries[i][2] = Assign(entries)[k]
         /\ Assign(entries) = [k \in DOMAIN Assign(entries) |-> Assign(entries)[k]]
  <1>1. DOMAIN Assign(entries) = {entries[i][1] : i \in 1..n}
    BY DEF Assign
  <1>2. ASSUME NEW k \in DOMAIN Assign(entries)
        PROVE  \E i \in 1..n : entries[i][1] = k /\ entries[i][2] = Assign(entries)[k]
    <2> DEFINE IsLast(i) == /\ entries[i][1] = k
                            /\ \A j \in DOMAIN entries : entries[j][1] = k => j <= i
               last == CHOOSE i \in DOMAIN entries : IsLast(i)
    <2>1. PICK i0 \in DOMAIN entries : entries[i0][1] = k
      BY <1>1
    <2>2. \E i \in DOMAIN entries : IsLast(i)
      BY <2>1, LastEntry
    <2>3. last \in DOMAIN entries /\ IsLast(last)
      BY <2>2
    <2>4. Assign(entries)[k] = entries[last][2]
      BY <1>1 DEF Assign
    <2> QED
      BY <2>3, <2>4
  <1>3. Assign(entries) = [k \in DOMAIN Assign(entries) |-> Assign(entries)[k]]
    BY DEF Assign
  <1>4. \A i \in 1..n : entries[i][1] \in DOMAIN Assign(entries)
    BY <1>1
  <1> QED
    BY <1>2, <1>3, <1>4

\* When every key is in one entry only, that entry's value is the key's.
LEMMA AssignedOnce ==
  ASSUME NEW n \in Nat, NEW entries, DOMAIN entries = 1..n,
         \A i, j \in 1..n : entries[i][1] = entries[j][1] => i = j,
         NEW i \in 1..n
  PROVE  entries[i][1] \in DOMAIN Assign(entries) /\ Assign(entries)[entries[i][1]] = entries[i][2]
  <1>1. entries[i][1] \in DOMAIN Assign(entries)
    BY Assigned
  <1>2. PICK j \in 1..n : /\ entries[j][1] = entries[i][1]
                          /\ entries[j][2] = Assign(entries)[entries[i][1]]
    BY <1>1, Assigned
  <1> QED
    BY <1>1, <1>2

\* A list becomes a map of no more pairs than the list has entries.
LEMMA MapOfList ==
  ASSUME NEW K, NEW V, NEW n \in Nat, NEW entries \in [1..n -> K \X V]
  PROVE  /\ Assign(entries) \in Maps(K, V)
         /\ IsFiniteSet(Pairs(Assign(entries)))
         /\ Cardinality(Pairs(Assign(entries))) <= n
  <1> DEFINE m == Assign(entries)
             f == [i \in 1..n |-> <<entries[i][1], m[entries[i][1]]>>]
  <1>1. /\ \A i \in 1..n : entries[i][1] \in DOMAIN m
        /\ \A k \in DOMAIN m : \E i \in 1..n : entries[i][1] = k /\ entries[i][2] = m[k]
        /\ m = [k \in DOMAIN m |-> m[k]]
    BY Assigned
  <1>2. \A i \in 1..n : entries[i][1] \in K /\ entries[i][2] \in V
    OBVIOUS
  <1> HIDE DEF m
  <1>3. DOMAIN m \subseteq K /\ \A k \in DOMAIN m : m[k] \in V
    BY <1>1, <1>2
  <1>4. m \in [DOMAIN m -> V]
    BY <1>1, <1>3
  <1>5. f \in [1..n -> Pairs(m)]
    BY <1>1 DEF Pairs
  <1>6. \A x \in Pairs(m) : \E i \in 1..n : f[i] = x
    BY <1>1 DEF Pairs
  <1>7. f \in Surjection(1..n, Pairs(m))
    BY <1>5, <1>6 DEF Surjection
  <1>8. IsFiniteSet(1..n) /\ Cardinality(1..n) = n
    BY FS_Interval
  <1>9. IsFiniteSet(Pairs(m)) /\ Cardinality(Pairs(m)) <= n
    BY <1>7, <1>8, FS_Surjection
  <1> QED
    BY <1>3, <1>4, <1>9 DEF Maps, m

\* Ranging over a map and assigning what comes gives the map again.
LEMMA AssignRange ==
  ASSUME NEW K, NEW V, NEW m \in Maps(K, V), IsFiniteSet(Pairs(m)), NEW q \in Ranges(m)
  PROVE  /\ q \in [1..Cardinality(Pairs(m)) -> K \X V]
         /\ Cardinality(Pairs(m)) \in Nat
         /\ \A i \in DOMAIN q : q[i][1] \in DOMAIN m /\ q[i] = <<q[i][1], m[q[i][1]]>>
         /\ \A k \in DOMAIN m : \E i \in DOMAIN q : q[i][1] = k
         /\ \A i, j \in DOMAIN q : q[i][1] = q[j][1] => i = j
         /\ Assign(q) = m
  <1> DEFINE n == Cardinality(Pairs(m))
  <1>1. /\ n \in Nat /\ q \in [1..n -> Pairs(m)]
        /\ \A x \in Pairs(m) : \E i \in DOMAIN q : q[i] = x
        /\ \A i, j \in DOMAIN q : q[i] = q[j] => i = j
    BY Listing DEF Ranges
  <1> HIDE DEF n
  <1>2. m = [k \in DOMAIN m |-> m[k]] /\ DOMAIN m \subseteq K /\ \A k \in DOMAIN m : m[k] \in V
    BY DEF Maps
  <1>3. \A i \in 1..n : q[i][1] \in DOMAIN m /\ q[i] = <<q[i][1], m[q[i][1]]>>
    BY <1>1 DEF Pairs
  <1>4. \A k \in DOMAIN m : \E i \in 1..n : q[i][1] = k
    <2> SUFFICES ASSUME NEW k \in DOMAIN m PROVE \E i \in 1..n : q[i][1] = k
      OBVIOUS
    <2>1. <<k, m[k]>> \in Pairs(m)
      BY DEF Pairs
    <2>2. PICK i \in DOMAIN q : q[i] = <<k, m[k]>>
      BY <1>1, <2>1
    <2> QED
      BY <1>1, <2>2
  <1>5. \A i, j \in 1..n : q[i][1] = q[j][1] => i = j
    BY <1>1, <1>3
  <1>6. q \in [1..n -> K \X V]
    <2>1. Pairs(m) \subseteq K \X V
      BY <1>2 DEF Pairs
    <2> QED
      BY <1>1, <2>1
  <1>7. \A i \in 1..n : q[i][1] \in DOMAIN Assign(q) /\ Assign(q)[q[i][1]] = q[i][2]
    BY <1>1, <1>5, AssignedOnce
  <1>8. \A i \in 1..n : q[i][2] = m[q[i][1]]
    BY <1>3
  <1>9. DOMAIN Assign(q) \subseteq DOMAIN m
    <2>1. \A k \in DOMAIN Assign(q) : \E i \in 1..n : q[i][1] = k
      BY <1>1, Assigned
    <2> QED
      BY <1>3, <2>1
  <1>10. \A k \in DOMAIN m : k \in DOMAIN Assign(q) /\ Assign(q)[k] = m[k]
    BY <1>4, <1>7, <1>8
  <1>11. Assign(q) = [k \in DOMAIN Assign(q) |-> Assign(q)[k]]
    BY <1>1, Assigned
  <1>12. Assign(q) = m
    <2>1. DOMAIN Assign(q) = DOMAIN m
      BY <1>9, <1>10
    <2> QED
      BY <1>2, <1>10, <1>11, <2>1
  <1> QED
    BY <1>1, <1>3, <1>4, <1>5, <1>6, <1>12 DEF n

\* A map that came of a list of at most MaxEntries entries is ranged over in a list
\* of no more.
LEMMA RangeIsList ==
  ASSUME NEW K, NEW V, NEW E, E = K \X V, NEW entries \in Lists(E),
         NEW q \in Ranges(Assign(entries))
  PROVE  /\ Assign(entries) \in Maps(K, V)
         /\ q \in Lists(E)
         /\ Assign(q) = Assign(entries)
  <1> DEFINE m == Assign(entries)
             c == Cardinality(Pairs(m))
  <1>1. PICK n \in 0..MaxEntries : entries \in [1..n -> K \X V]
    BY DEF Lists
  <1>2. n \in Nat
    BY <1>1
  <1>3. m \in Maps(K, V) /\ IsFiniteSet(Pairs(m)) /\ c <= n
    BY <1>1, <1>2, MapOfList
  <1> HIDE DEF m
  <1>4. q \in Ranges(m)
    BY DEF m
  <1>5. q \in [1..c -> K \X V] /\ c \in Nat /\ Assign(q) = m
    BY <1>3, <1>4, AssignRange
  <1> HIDE DEF c
  <1>6. c \in 0..MaxEntries
    BY <1>1, <1>3, <1>5, ConfigAssumption
  <1>7. q \in Lists(E)
    BY <1>5, <1>6 DEF Lists
  <1> QED
    BY <1>3, <1>5, <1>7 DEF m

\* Printing a list of port mappings and reading it gives the list.
LEMMA PrintedNumbered ==
  ASSUME NEW p \in Lists(HostPorts \X ContainerPorts)
  PROVE  /\ Printed(p) \in Lists(PortEntries)
         /\ Numbered(Printed(p)) = p
  <1>1. PICK n \in 0..MaxEntries : p \in [1..n -> HostPorts \X ContainerPorts]
    BY DEF Lists
  <1>2. \A i \in 1..n : /\ p[i] = <<p[i][1], p[i][2]>>
                        /\ p[i][1] \in HostPorts /\ p[i][2] \in ContainerPorts
    BY <1>1
  <1>3. \A i \in 1..n : /\ Sprint(p[i][1]) \in PortTexts
                        /\ Atoi(Sprint(p[i][1])) = p[i][1]
    BY <1>2, ConfigAssumption DEF Sprint, Atoi, PortTexts
  <1>4. Printed(p) = [i \in 1..n |-> <<Sprint(p[i][1]), p[i][2]>>]
    BY <1>1 DEF Printed
  <1>5. Printed(p) \in [1..n -> PortEntries]
    BY <1>2, <1>3, <1>4 DEF PortEntries
  <1>6. Numbered(Printed(p)) = [i \in 1..n |-> <<Atoi(Sprint(p[i][1])), p[i][2]>>]
    BY <1>4 DEF Numbered
  <1>7. Numbered(Printed(p)) = p
    BY <1>1, <1>2, <1>3, <1>6
  <1>8. Printed(p) \in Lists(PortEntries)
    BY <1>1, <1>5 DEF Lists
  <1> QED
    BY <1>7, <1>8

\* The entries of a list are those of the set the list is over.
LEMMA InLists ==
  ASSUME NEW S, NEW T, NEW s
  PROVE  /\ s \in Lists(S) /\ S \subseteq T => s \in Lists(T)
         /\ s \in Lists(S) => Range(s) \subseteq S
         /\ s \in Lists(S \cup {Malformed}) /\ Malformed \notin Range(s) => s \in Lists(S)
  BY DEF Lists, Range

\* What a well-formed request asks for is a configuration.
LEMMA AcceptedRequest ==
  ASSUME NEW req \in Requests, Accepts(req)
  PROVE  /\ req.ports \in Lists(PortEntries)
         /\ req.volumes \in Lists(VolumeEntries)
         /\ req.env \in Lists(EnvVars)
         /\ Numbered(req.ports) \in Lists(HostPorts \X ContainerPorts)
         /\ OAPIToConfig(req) \in Configs
  <1>1. /\ req.ports \in Lists(PortEntries \cup {Malformed})
        /\ req.volumes \in Lists(VolumeEntries \cup {Malformed})
        /\ req.env \in Lists(EnvVars \cup {Malformed})
    BY DEF Requests
  <1>2. /\ Malformed \notin Range(req.ports)
        /\ Malformed \notin Range(req.volumes)
        /\ Malformed \notin Range(req.env)
    BY DEF Accepts
  <1>3. /\ req.ports \in Lists(PortEntries)
        /\ req.volumes \in Lists(VolumeEntries)
        /\ req.env \in Lists(EnvVars)
    BY <1>1, <1>2, InLists
  <1>4. Numbered(req.ports) \in Lists(HostPorts \X ContainerPorts)
    <2>1. PICK n \in 0..MaxEntries : req.ports \in [1..n -> PortEntries]
      BY <1>3 DEF Lists
    <2>2. \A i \in 1..n : /\ Atoi(req.ports[i][1]) \in HostPorts
                          /\ req.ports[i][2] \in ContainerPorts
      BY <2>1 DEF PortEntries, PortTexts, Atoi
    <2>3. Numbered(req.ports) \in [1..n -> HostPorts \X ContainerPorts]
      BY <2>1, <2>2 DEF Numbered
    <2> QED
      BY <2>1, <2>3 DEF Lists
  <1>5. \A K, V : \A entries \in Lists(K \X V) : Assign(entries) \in Maps(K, V)
    <2> SUFFICES ASSUME NEW K, NEW V, NEW entries \in Lists(K \X V)
                 PROVE  Assign(entries) \in Maps(K, V)
      OBVIOUS
    <2>1. PICK n \in 0..MaxEntries : entries \in [1..n -> K \X V]
      BY DEF Lists
    <2> QED
      BY <2>1, MapOfList
  <1>6. /\ Assign(Numbered(req.ports)) \in Maps(HostPorts, ContainerPorts)
        /\ Assign(req.volumes) \in Maps(HostPaths, ContainerPaths)
    BY <1>3, <1>4, <1>5 DEF VolumeEntries
  <1>7. OAPIToConfig(req) \in Configs
    BY <1>3, <1>6 DEF OAPIToConfig, Configs
  <1> QED
    BY <1>3, <1>4, <1>7

\* A response about what a request asked for is a request for the same.
LEMMA ToldAsAsked ==
  ASSUME NEW req \in Requests, Accepts(req), NEW cfg,
         cfg.ports = OAPIToConfig(req).ports,
         cfg.volumes = OAPIToConfig(req).volumes,
         cfg.env = OAPIToConfig(req).env,
         NEW t \in ConfigToOAPI(cfg)
  PROVE  t \in Requests /\ Accepts(t) /\ OAPIToConfig(t) = OAPIToConfig(req)
  <1> DEFINE ports == Assign(Numbered(req.ports))
             volumes == Assign(req.volumes)
  <1>1. /\ Numbered(req.ports) \in Lists(HostPorts \X ContainerPorts)
        /\ req.volumes \in Lists(HostPaths \X ContainerPaths)
        /\ req.env \in Lists(EnvVars)
    BY AcceptedRequest DEF VolumeEntries
  <1>2. PICK p \in Ranges(ports), v \in Ranges(volumes) :
          t = [ports |-> Printed(p), volumes |-> v, env |-> req.env]
    BY DEF ConfigToOAPI, OAPIToConfig
  <1> HIDE DEF ports, volumes
  <1>3. p \in Lists(HostPorts \X ContainerPorts) /\ Assign(p) = ports
    <2> DEFINE entries == Numbered(req.ports)
               E == HostPorts \X ContainerPorts
    <2>1. E = HostPorts \X ContainerPorts /\ entries \in Lists(E) /\ ports = Assign(entries)
      BY <1>1 DEF ports
    <2>2. p \in Ranges(Assign(entries))
      BY <1>2, <2>1
    <2> HIDE DEF entries, E
    <2>3. /\ Assign(entries) \in Maps(HostPorts, ContainerPorts)
          /\ p \in Lists(E)
          /\ Assign(p) = Assign(entries)
      BY ONLY <2>1, <2>2, RangeIsList, SMTT(30)
    <2> QED
      BY <2>1, <2>3
  <1>4. v \in Lists(HostPaths \X ContainerPaths) /\ Assign(v) = volumes
    <2> DEFINE entries == req.volumes
               E == HostPaths \X ContainerPaths
    <2>1. E = HostPaths \X ContainerPaths /\ entries \in Lists(E) /\ volumes = Assign(entries)
      BY <1>1 DEF volumes
    <2>2. v \in Ranges(Assign(entries))
      BY <1>2, <2>1
    <2> HIDE DEF entries, E
    <2>3. /\ Assign(entries) \in Maps(HostPaths, ContainerPaths)
          /\ v \in Lists(E)
          /\ Assign(v) = Assign(entries)
      BY ONLY <2>1, <2>2, RangeIsList, SMTT(30)
    <2> QED
      BY <2>1, <2>3
  <1>5. Printed(p) \in Lists(PortEntries) /\ Numbered(Printed(p)) = p
    BY <1>3, PrintedNumbered
  <1>6. t \in Requests
    <2>1. Printed(p) \in Lists(PortEntries \cup {Malformed})
      BY <1>5, InLists
    <2>2. v \in Lists(VolumeEntries \cup {Malformed})
      BY <1>4, InLists DEF VolumeEntries
    <2>3. req.env \in Lists(EnvVars \cup {Malformed})
      BY <1>1, InLists
    <2> QED
      BY <1>2, <2>1, <2>2, <2>3 DEF Requests
  <1>7. Accepts(t)
    <2>1. Range(Printed(p)) \subseteq PortEntries /\ Range(req.env) \subseteq EnvVars
      BY <1>1, <1>5, InLists
    <2>2. Range(v) \subseteq VolumeEntries
      BY <1>4, InLists DEF VolumeEntries
    <2> QED
      BY <1>2, <2>1, <2>2, ConfigAssumption DEF Accepts
  <1>8. OAPIToConfig(t) = OAPIToConfig(req)
    BY <1>2, <1>3, <1>4, <1>5 DEF OAPIToConfig, ports, volumes
  <1> QED
    BY <1>6, <1>7, <1>8

\* The bindings that a range over the ports leaves come from the ports, and are all
\* of them when no two of them are of one container port.
LEMMA BindingsOfPorts ==
  ASSUME NEW m \in Maps(HostPorts, ContainerPorts), IsFiniteSet(Pairs(m)),
         NEW p \in Ranges(m)
  PROVE  /\ Assign(Binding(p)) \in Maps(ContainerPorts, HostPorts)
         /\ \A c \in DOMAIN Assign(Binding(p)) : \E h \in DOMAIN m :
              m[h] = c /\ h = Assign(Binding(p))[c]
         /\ (\A h1, h2 \in DOMAIN m : m[h1] = m[h2] => h1 = h2) =>
              \A h \in DOMAIN m :
                m[h] \in DOMAIN Assign(Binding(p)) /\ Assign(Binding(p))[m[h]] = h
  <1> DEFINE n == Cardinality(Pairs(m))
             b == Binding(p)
  <1>1. /\ n \in Nat /\ p \in [1..n -> HostPorts \X ContainerPorts]
        /\ \A i \in 1..n : p[i][1] \in DOMAIN m /\ p[i] = <<p[i][1], m[p[i][1]]>>
        /\ \A k \in DOMAIN m : \E i \in 1..n : p[i][1] = k
        /\ \A i, j \in 1..n : p[i][1] = p[j][1] => i = j
    BY AssignRange
  <1> HIDE DEF n
  <1>2. b = [i \in 1..n |-> <<p[i][2], p[i][1]>>]
    BY <1>1 DEF Binding
  <1>3. b \in [1..n -> ContainerPorts \X HostPorts]
    BY <1>1, <1>2
  <1>4. \A i \in 1..n : /\ p[i][2] = m[p[i][1]] /\ p[i][1] \in DOMAIN m
                        /\ b[i][1] = m[p[i][1]] /\ b[i][2] = p[i][1]
    <2>1. \A i \in 1..n : p[i][2] = m[p[i][1]]
      BY <1>1
    <2> QED
      BY <1>1, <1>2, <2>1
  <1> HIDE DEF b
  <1>5. Assign(b) \in Maps(ContainerPorts, HostPorts)
    BY <1>1, <1>3, MapOfList
  <1>6. ASSUME NEW c \in DOMAIN Assign(b)
        PROVE  \E h \in DOMAIN m : m[h] = c /\ h = Assign(b)[c]
    <2>1. DOMAIN b = 1..n
      BY <1>3
    <2>2. PICK i \in 1..n : b[i][1] = c /\ b[i][2] = Assign(b)[c]
      BY <1>1, <1>6, <2>1, Assigned
    <2> QED
      BY <1>4, <2>2
  <1>7. ASSUME \A h1, h2 \in DOMAIN m : m[h1] = m[h2] => h1 = h2, NEW h \in DOMAIN m
        PROVE  m[h] \in DOMAIN Assign(b) /\ Assign(b)[m[h]] = h
    <2>1. DOMAIN b = 1..n
      BY <1>3
    <2>2. \A i, j \in 1..n : b[i][1] = b[j][1] => i = j
      BY <1>1, <1>4, <1>7
    <2>3. PICK i \in 1..n : p[i][1] = h
      BY <1>1
    <2>4. n \in Nat /\ i \in 1..n
      BY <1>1
    <2>5. b[i][1] \in DOMAIN Assign(b) /\ Assign(b)[b[i][1]] = b[i][2]
      BY ONLY <2>1, <2>2, <2>4, AssignedOnce
    <2> QED
      BY <1>4, <2>3, <2>5
  <1> QED
    BY <1>5, <1>6, <1>7 DEF b

\* The ports and the volumes of a request become maps of finitely many pairs.
LEMMA AskedMaps ==
  ASSUME NEW req \in Requests, Accepts(req)
  PROVE  /\ OAPIToConfig(req).ports \in Maps(HostPorts, ContainerPorts)
         /\ OAPIToConfig(req).volumes \in Maps(HostPaths, ContainerPaths)
         /\ OAPIToConfig(req).env \in Lists(EnvVars)
         /\ IsFiniteSet(Pairs(OAPIToConfig(req).ports))
         /\ \A h \in DOMAIN OAPIToConfig(req).ports : \E e \in Range(req.ports) :
              Atoi(e[1]) = h /\ e[2] = OAPIToConfig(req).ports[h]
  <1> DEFINE entries == Numbered(req.ports)
             m == Assign(entries)
  <1>1. /\ OAPIToConfig(req).ports \in Maps(HostPorts, ContainerPorts)
        /\ OAPIToConfig(req).volumes \in Maps(HostPaths, ContainerPaths)
        /\ OAPIToConfig(req).env \in Lists(EnvVars)
    BY AcceptedRequest DEF Configs
  <1>2. PICK n \in 0..MaxEntries : entries \in [1..n -> HostPorts \X ContainerPorts]
    BY AcceptedRequest DEF Lists
  <1>3. n \in Nat /\ DOMAIN entries = 1..n
    BY <1>2
  <1>4. \A i \in 1..n : i \in DOMAIN req.ports /\ entries[i] = <<Atoi(req.ports[i][1]), req.ports[i][2]>>
    BY <1>3 DEF Numbered
  <1>5. OAPIToConfig(req).ports = m
    BY DEF OAPIToConfig
  <1>6. IsFiniteSet(Pairs(m))
    BY <1>2, <1>3, MapOfList
  <1>7. \A i \in 1..n : /\ entries[i][1] = Atoi(req.ports[i][1]) /\ entries[i][2] = req.ports[i][2]
                        /\ req.ports[i] \in Range(req.ports)
    BY <1>4 DEF Range
  <1> HIDE DEF entries
  <1>8. \A h \in DOMAIN m : \E i \in 1..n : entries[i][1] = h /\ entries[i][2] = m[h]
    BY <1>3, Assigned
  <1> HIDE DEF m
  <1>9. \A h \in DOMAIN m : \E e \in Range(req.ports) : Atoi(e[1]) = h /\ e[2] = m[h]
    BY <1>7, <1>8
  <1> QED
    BY <1>1, <1>5, <1>6, <1>9

\* The options of a container that a request asked for.
LEMMA OptionsAsAsked ==
  ASSUME NEW req \in Requests, Accepts(req), NEW cfg,
         cfg.ports = OAPIToConfig(req).ports,
         cfg.volumes = OAPIToConfig(req).volumes,
         cfg.env = OAPIToConfig(req).env,
         NEW o \in ToOptions(cfg)
  PROVE  /\ o \in [bindings : Maps(ContainerPorts, HostPorts),
                   binds    : SUBSET (HostPaths \X ContainerPaths),
                   env      : Lists(EnvVars)]
         /\ \A c \in DOMAIN o.bindings : \E e \in Range(req.ports) :
              Atoi(e[1]) = o.bindings[c] /\ e[2] = c
         /\ (\A h1, h2 \in DOMAIN cfg.ports : cfg.ports[h1] = cfg.ports[h2] => h1 = h2) =>
              \A h \in DOMAIN cfg.ports :
                cfg.ports[h] \in DOMAIN o.bindings /\ o.bindings[cfg.ports[h]] = h
  <1> DEFINE m == OAPIToConfig(req).ports
             v == OAPIToConfig(req).volumes
  <1>1. /\ m \in Maps(HostPorts, ContainerPorts) /\ IsFiniteSet(Pairs(m))
        /\ v \in Maps(HostPaths, ContainerPaths)
        /\ OAPIToConfig(req).env \in Lists(EnvVars)
        /\ \A h \in DOMAIN m : \E e \in Range(req.ports) : Atoi(e[1]) = h /\ e[2] = m[h]
    BY AskedMaps
  <1>2. cfg.ports = m /\ cfg.volumes = v
    OBVIOUS
  <1> HIDE DEF m, v
  <1>3. PICK p \in Ranges(m) :
          o = [bindings |-> Assign(Binding(p)), binds |-> Pairs(v), env |-> OAPIToConfig(req).env]
    BY <1>2 DEF ToOptions
  <1>4. /\ Assign(Binding(p)) \in Maps(ContainerPorts, HostPorts)
        /\ \A c \in DOMAIN Assign(Binding(p)) : \E h \in DOMAIN m :
             m[h] = c /\ h = Assign(Binding(p))[c]
        /\ (\A h1, h2 \in DOMAIN m : m[h1] = m[h2] => h1 = h2) =>
             \A h \in DOMAIN m :
               m[h] \in DOMAIN Assign(Binding(p)) /\ Assign(Binding(p))[m[h]] = h
    BY <1>1, BindingsOfPorts
  <1>5. Pairs(v) \subseteq HostPaths \X ContainerPaths
    BY <1>1 DEF Maps, Pairs
  <1>6. \A c \in DOMAIN Assign(Binding(p)) : \E e \in Range(req.ports) :
          Atoi(e[1]) = Assign(Binding(p))[c] /\ e[2] = c
    BY <1>1, <1>4
  <1> QED
    BY <1>1, <1>2, <1>3, <1>4, <1>5, <1>6

-----------------------------------------------------------------------------
(* The invariant.                                                          *)

\* Lists and maps may be empty.
LEMMA Empty ==
  ASSUME NEW S, NEW T
  PROVE  <<>> \in Lists(S) /\ <<>> \in Maps(S, T)
  <1>1. 0 \in 0..MaxEntries /\ <<>> \in [1..0 -> S]
    BY ConfigAssumption
  <1>2. {} \in SUBSET S /\ <<>> \in [{} -> T]
    OBVIOUS
  <1> QED
    BY <1>1, <1>2 DEF Lists, Maps

\* A row, read back, is what was stored under another ID.
LEMMA ReadBack ==
  ASSUME NEW req \in Requests, Accepts(req)
  PROVE  LET cfg == ConvertToServer(ToJSON(OAPIToConfig(req)))
         IN  /\ cfg \in Configs
             /\ cfg = [OAPIToConfig(req) EXCEPT !.id = "drawn"]
             /\ cfg.ports = OAPIToConfig(req).ports
             /\ cfg.volumes = OAPIToConfig(req).volumes
             /\ cfg.env = OAPIToConfig(req).env
  <1>1. /\ OAPIToConfig(req).ports \in Maps(HostPorts, ContainerPorts)
        /\ OAPIToConfig(req).volumes \in Maps(HostPaths, ContainerPaths)
        /\ OAPIToConfig(req).env \in Lists(EnvVars)
    BY AskedMaps
  <1> QED
    BY <1>1 DEF ConvertToServer, ToJSON, OAPIToConfig, Configs

\* What is told of a server, and what its container gets, are as asked.
LEMMA AsAsked ==
  ASSUME NEW req \in Requests, Accepts(req), NEW cfg,
         cfg = ConvertToServer(ToJSON(OAPIToConfig(req)))
  PROVE  /\ \A t \in ConfigToOAPI(cfg) :
              t \in Requests /\ Accepts(t) /\ OAPIToConfig(t) = OAPIToConfig(req)
         /\ \A o \in ToOptions(cfg) :
              o \in [bindings : Maps(ContainerPorts, HostPorts),
                    binds    : SUBSET (HostPaths \X ContainerPaths),
                    env      : Lists(EnvVars)]
  <1>1. /\ cfg.ports = OAPIToConfig(req).ports
        /\ cfg.volumes = OAPIToConfig(req).volumes
        /\ cfg.env = OAPIToConfig(req).env
    BY ReadBack
  <1>2. ASSUME NEW t \in ConfigToOAPI(cfg)
        PROVE  t \in Requests /\ Accepts(t) /\ OAPIToConfig(t) = OAPIToConfig(req)
    BY <1>1, ToldAsAsked
  <1>3. ASSUME NEW o \in ToOptions(cfg)
        PROVE  o \in [bindings : Maps(ContainerPorts, HostPorts),
                     binds    : SUBSET (HostPaths \X ContainerPaths),
                     env      : Lists(EnvVars)]
    BY <1>1, OptionsAsAsked
  <1> QED
    BY <1>2, <1>3

\* The parts of ConfigInv are inductive together: what a process that starts again
\* reads is as asked because the row is, and a client's copy of what it was told is
\* a request because what it is told is as asked.
THEOREM Invariance == Spec => []ConfigInv
  <1> DEFINE Created == ConvertToServer(ToJSON(OAPIToConfig(request)))
             AllOptions == [bindings : Maps(ContainerPorts, HostPorts),
                            binds    : SUBSET (HostPaths \X ContainerPaths),
                            env      : Lists(EnvVars)]
  <1>0. NoRequest \in Requests /\ NoConfig \in Configs /\ NoOptions \in AllOptions
    <2>1. /\ <<>> \in Lists(PortEntries \cup {Malformed})
          /\ <<>> \in Lists(VolumeEntries \cup {Malformed})
          /\ <<>> \in Lists(EnvVars \cup {Malformed})
          /\ <<>> \in Lists(EnvVars)
          /\ <<>> \in Maps(HostPorts, ContainerPorts)
          /\ <<>> \in Maps(HostPaths, ContainerPaths)
          /\ <<>> \in Maps(ContainerPorts, HostPorts)
      BY Empty
    <2> QED
      BY <2>1 DEF NoRequest, NoConfig, NoOptions, Requests, Configs
  <1>1. Init => ConfigInv
    BY <1>0 DEF Init, ConfigInv, TypeOK, TellsWhatIs
  <1>2. ConfigInv /\ [Next]_vars => ConfigInv'
    <2> SUFFICES ASSUME ConfigInv, [Next]_vars PROVE ConfigInv'
      OBVIOUS
    <2> USE DEF ConfigInv, TypeOK, TellsWhatIs
    <2>1. CASE CreateServer
      <3>1. Accepts(request) /\ config' = Created /\ row' = OAPIToConfig(request)
        BY <2>1 DEF CreateServer, ToJSON
      <3>2. row' \in Configs
        BY <3>1, AcceptedRequest
      <3>3. config' \in Configs /\ config' = [OAPIToConfig(request) EXCEPT !.id = "drawn"]
        BY <3>1, ReadBack
      <3>4. told' \in Requests /\ Accepts(told') /\ OAPIToConfig(told') = OAPIToConfig(request)
        BY <2>1, <3>1, AsAsked DEF CreateServer
      <3>5. ~built
        BY <2>1 DEF CreateServer
      <3> QED
        BY <2>1, <3>1, <3>2, <3>3, <3>4, <3>5 DEF CreateServer
    <2>2. CASE RefuseServer
      BY <2>2 DEF RefuseServer
    <2>3. CASE GetServer
      <3>1. config = Created
        BY <2>3, ReadBack DEF GetServer
      <3>2. told' \in Requests /\ Accepts(told') /\ OAPIToConfig(told') = OAPIToConfig(request)
        BY <2>3, <3>1, AsAsked DEF GetServer
      <3> QED
        BY <2>3, <3>2 DEF GetServer
    <2>4. CASE CreateContainer
      <3>1. config = Created
        BY <2>4, ReadBack DEF CreateContainer
      <3>2. options' \in AllOptions
        BY <2>4, <3>1, AsAsked DEF CreateContainer
      <3> QED
        BY <2>4, <3>2 DEF CreateContainer
    <2>5. CASE Restart
      <3>1. config' = Created /\ Accepts(request)
        BY <2>5 DEF Restart, ToJSON
      <3>2. config' \in Configs /\ config' = [OAPIToConfig(request) EXCEPT !.id = "drawn"]
        BY <3>1, ReadBack
      <3>3. config' = config
        BY <2>5, <3>2 DEF Restart
      <3> QED
        BY <2>5, <3>1, <3>2, <3>3 DEF Restart
    <2>6. CASE RemoveContainer
      BY <1>0, <2>6 DEF RemoveContainer
    <2>7. CASE Copy
      BY <1>0, <2>7 DEF Copy
    <2>8. CASE UNCHANGED vars
      BY <2>8 DEF vars
    <2> QED
      BY <2>1, <2>2, <2>3, <2>4, <2>5, <2>6, <2>7, <2>8 DEF Next
  <1> QED
    BY <1>1, <1>2, PTL DEF Spec

\* Every variable keeps to its values: no response, row or set of options is more
\* than the request's lists can hold.
THEOREM Typed == Spec => []TypeOK
  BY Invariance, PTL DEF ConfigInv

\* What a client is told of a server asks for the same server again.
THEOREM RoundTrip == Spec => []TellsWhatIs
  BY Invariance, PTL DEF ConfigInv

\* No container port is bound to a host port that its client did not map to it.
THEOREM BindsOnlyAsked == Spec => []OnlyAsked
  <1>1. ConfigInv => OnlyAsked
    <2> SUFFICES ASSUME ConfigInv, built PROVE OnlyAsked
      BY DEF OnlyAsked
    <2>1. /\ request \in Requests /\ Accepts(request) /\ options \in ToOptions(config)
      BY DEF ConfigInv, TypeOK
    <2>2. /\ config.ports = OAPIToConfig(request).ports
          /\ config.volumes = OAPIToConfig(request).volumes
          /\ config.env = OAPIToConfig(request).env
      BY <2>1, ReadBack DEF ConfigInv
    <2> QED
      BY <2>1, <2>2, OptionsAsAsked DEF OnlyAsked
  <1> QED
    BY <1>1, Invariance, PTL

\* Every host port whose container port is mapped once is bound, whichever way the
\* map of ports is ranged over.
THEOREM BindsAllAsked == Spec => []BindsAll
  <1>1. ConfigInv => BindsAll
    <2> SUFFICES ASSUME ConfigInv, built PROVE BindsAll
      BY DEF BindsAll
    <2>1. /\ request \in Requests /\ Accepts(request) /\ options \in ToOptions(config)
      BY DEF ConfigInv, TypeOK
    <2>2. /\ config.ports = OAPIToConfig(request).ports
          /\ config.volumes = OAPIToConfig(request).volumes
          /\ config.env = OAPIToConfig(request).env
      BY <2>1, ReadBack DEF ConfigInv
    <2> QED
      BY <2>1, <2>2, OptionsAsAsked DEF BindsAll
  <1> QED
    BY <1>1, Invariance, PTL
=============================================================================
