-------------------------- MODULE ServerAddrProofs --------------------------
(***************************************************************************)
(* What the operators of ServerAddr return, for objects of any size.       *)
(***************************************************************************)
EXTENDS ServerAddr, MinLemmas, SequenceTheorems

\* kept is the recursive function in Only, up to m.
IsKept(kept, s, S, m) ==
  kept = [n \in 0 .. m |->
            IF n = 0 THEN <<>>
            ELSE IF s[n] \in S THEN Append(kept[n - 1], s[n]) ELSE kept[n - 1]]

\* There is such a function, for a sequence of any length.
LEMMA KeptExists ==
  ASSUME NEW s, NEW S, NEW m \in Nat
  PROVE  \E kept : IsKept(kept, s, S, m)
<1> DEFINE Step(f, n) == IF n = 0 THEN <<>>
                         ELSE IF s[n] \in S THEN Append(f[n - 1], s[n]) ELSE f[n - 1]
           T == {k \in Nat : \E f : f = [n \in 0 .. k |-> Step(f, n)]}
<1>1. 0 \in T
  <2> DEFINE f == [n \in 0 .. 0 |-> <<>>]
  <2>1. f = [n \in 0 .. 0 |-> Step(f, n)]
    OBVIOUS
  <2> QED
    BY <2>1
<1>2. ASSUME NEW k \in T PROVE k + 1 \in T
  <2>1. PICK f : f = [n \in 0 .. k |-> Step(f, n)]
    OBVIOUS
  <2> DEFINE g == [n \in 0 .. k + 1 |-> IF n = k + 1 THEN Step(f, n) ELSE f[n]]
  <2>2. ASSUME NEW n \in 0 .. k + 1 PROVE g[n] = Step(g, n)
    <3>1. CASE n = 0
      <4>1. f[0] = <<>> /\ g[0] = f[0]
        BY <2>1
      <4> QED
        BY <3>1, <4>1
    <3>2. CASE n # 0
      <4>1. n - 1 \in 0 .. k /\ n - 1 # k + 1 /\ n - 1 \in 0 .. k + 1
        BY <3>2
      <4>2. g[n - 1] = f[n - 1]
        BY <4>1
      <4>3. ASSUME n # k + 1 PROVE g[n] = f[n] /\ f[n] = Step(f, n)
        <5>1. n \in 0 .. k
          BY <4>3
        <5>2. g[n] = f[n]
          BY <4>3
        <5>3. f[n] = Step(f, n)
          <6> HIDE DEF Step
          <6> QED
            BY <2>1, <5>1
        <5> QED
          BY <5>2, <5>3
      <4>4. g[n] = Step(f, n)
        BY <4>3
      <4> HIDE DEF g
      <4> QED
        BY <3>2, <4>2, <4>4
    <3> QED
      BY <3>1, <3>2
  <2>3. g = [n \in 0 .. k + 1 |-> Step(g, n)]
    <3>1. g = [n \in 0 .. k + 1 |-> g[n]]
      OBVIOUS
    <3> HIDE DEF g, Step
    <3> QED
      BY <3>1, <2>2
  <2> HIDE DEF g, Step
  <2> QED
    BY <2>3
<1>3. T = Nat
  <2> HIDE DEF T
  <2>1. T \subseteq Nat
    BY DEF T
  <2> QED
    BY <1>1, <1>2, <2>1, NextReachesAll
<1>4. m \in T
  <2> HIDE DEF T
  <2> QED
    BY <1>3
<1> QED
  BY <1>4 DEF IsKept

\* Only returns a sequence of those elements of s that are in S.
LEMMA OnlyProperties ==
  ASSUME NEW D, NEW s \in Seq(D), NEW S
  PROVE  /\ Only(s, S) \in Seq(D)
         /\ Range(Only(s, S)) = Range(s) \cap S
<1> DEFINE Step(f, n) == IF n = 0 THEN <<>>
                         ELSE IF s[n] \in S THEN Append(f[n - 1], s[n]) ELSE f[n - 1]
           kept == CHOOSE f : IsKept(f, s, S, Len(s))
           Sound(n) == kept[n] \in Seq(D) /\ Range(kept[n]) = {s[i] : i \in 1 .. n} \cap S
           T == {n \in Nat : n <= Len(s) => Sound(n)}
<1>1. Len(s) \in Nat /\ DOMAIN s = 1 .. Len(s) /\ \A i \in 1 .. Len(s) : s[i] \in D
  BY LenProperties, ElementOfSeq
<1>2. kept = [n \in 0 .. Len(s) |-> Step(kept, n)]
  <2>1. \E f : IsKept(f, s, S, Len(s))
    BY <1>1, KeptExists
  <2>2. IsKept(kept, s, S, Len(s))
    BY ONLY <2>1, Zenon
  <2> HIDE DEF kept
  <2> QED
    BY <2>2 DEF IsKept
<1>3. Only(s, S) = kept[Len(s)]
  BY DEF Only, IsKept
<1>4. \A n \in 0 .. Len(s) : kept[n] = Step(kept, n)
  <2> HIDE DEF kept, Step
  <2> QED
    BY <1>2
<1> HIDE DEF kept
<1>5. 0 \in T
  <2>1. kept[0] = <<>>
    BY <1>1, <1>4
  <2>2. <<>> \in Seq(D) /\ Range(<<>>) = {} /\ 1 .. 0 = {}
    BY DEF Range
  <2> QED
    BY <2>1, <2>2
<1>6. ASSUME NEW n \in T PROVE n + 1 \in T
  <2> SUFFICES ASSUME n + 1 <= Len(s) PROVE Sound(n + 1)
    OBVIOUS
  <2>1. Sound(n) /\ n + 1 \in 1 .. Len(s) /\ s[n + 1] \in D
    BY <1>1
  <2>2. kept[n + 1] = IF s[n + 1] \in S THEN Append(kept[n], s[n + 1]) ELSE kept[n]
    BY <1>1, <1>4, <2>1
  <2>3. {s[i] : i \in 1 .. n + 1} = {s[i] : i \in 1 .. n} \cup {s[n + 1]}
    <3>1. 1 .. n + 1 = 1 .. n \cup {n + 1}
      OBVIOUS
    <3> QED
      BY <3>1
  <2>4. CASE s[n + 1] \in S
    <3>1. kept[n + 1] = Append(kept[n], s[n + 1])
      BY <2>2, <2>4
    <3>2. /\ kept[n + 1] \in Seq(D)
          /\ Len(kept[n + 1]) = Len(kept[n]) + 1
          /\ \A i \in 1 .. Len(kept[n]) : kept[n + 1][i] = kept[n][i]
          /\ kept[n + 1][Len(kept[n]) + 1] = s[n + 1]
      BY <2>1, <3>1, AppendProperties
    <3>3. /\ Len(kept[n]) \in Nat /\ DOMAIN kept[n] = 1 .. Len(kept[n])
          /\ DOMAIN kept[n + 1] = 1 .. Len(kept[n]) + 1
      BY <2>1, <3>2, LenProperties
    <3>4. Range(kept[n + 1]) = Range(kept[n]) \cup {s[n + 1]}
      <4> DEFINE l == Len(kept[n])
      <4>1. Range(kept[n + 1]) = {kept[n + 1][i] : i \in 1 .. l + 1}
        BY <3>3 DEF Range
      <4>2. Range(kept[n]) = {kept[n][i] : i \in 1 .. l}
        BY <3>3 DEF Range
      <4>3. 1 .. l + 1 = 1 .. l \cup {l + 1}
        BY <3>3
      <4>4. /\ \A i \in 1 .. l : kept[n + 1][i] = kept[n][i]
            /\ kept[n + 1][l + 1] = s[n + 1]
        BY <3>2
      <4> HIDE DEF l
      <4> QED
        BY <4>1, <4>2, <4>3, <4>4
    <3> QED
      BY <2>1, <2>3, <2>4, <3>2, <3>4
  <2>5. CASE s[n + 1] \notin S
    BY <2>1, <2>2, <2>3, <2>5
  <2> QED
    BY <2>4, <2>5
<1>7. T = Nat
  <2> HIDE DEF T
  <2>1. T \subseteq Nat
    BY DEF T
  <2> QED
    BY <1>5, <1>6, <2>1, NextReachesAll
<1>8. Sound(Len(s))
  <2>1. Len(s) \in T /\ Len(s) <= Len(s)
    <3> HIDE DEF T
    <3> QED
      BY <1>1, <1>7
  <2> HIDE DEF Sound
  <2> QED
    BY ONLY <2>1 DEF T
<1> QED
  BY <1>1, <1>3, <1>8 DEF Range

\* FirstIn returns an element of s in S if there is one, and else the default.
LEMMA FirstInSound ==
  ASSUME NEW D, NEW s \in Seq(D), NEW S, NEW default
  PROVE  IF Range(s) \cap S = {} THEN FirstIn(s, S, default) = default
         ELSE FirstIn(s, S, default) \in Range(s) \cap S
<1> DEFINE hits == {i \in DOMAIN s : s[i] \in S}
<1>1. hits = {} <=> Range(s) \cap S = {}
  BY DEF Range
<1>2. hits \subseteq Nat
  BY LenProperties
<1>3. ASSUME hits # {} PROVE Min(hits) \in hits
  <2> HIDE DEF hits
  <2> QED
    BY <1>2, <1>3, MinIsLeast
<1> QED
  BY <1>1, <1>3 DEF FirstIn, Range

\* Where the beginning of a sequence has such an element, the rest is of no account.
LEMMA FirstInPrefix ==
  ASSUME NEW D, NEW p \in Seq(D), NEW q \in Seq(D), NEW S, NEW default,
         Range(p) \cap S # {}
  PROVE  FirstIn(p \o q, S, default) = FirstIn(p, S, default)
<1> DEFINE hits(s) == {i \in DOMAIN s : s[i] \in S}
<1>1. /\ Len(p) \in Nat /\ DOMAIN p = 1 .. Len(p) /\ Len(q) \in Nat
      /\ DOMAIN (p \o q) = 1 .. Len(p) + Len(q)
      /\ \A i \in 1 .. Len(p) : (p \o q)[i] = p[i]
  <2>1. Len(p) \in Nat /\ DOMAIN p = 1 .. Len(p) /\ Len(q) \in Nat
    BY LenProperties
  <2>2. /\ p \o q \in Seq(D) /\ Len(p \o q) = Len(p) + Len(q)
        /\ \A i \in 1 .. Len(p) + Len(q) : (p \o q)[i] = IF i <= Len(p) THEN p[i]
                                                         ELSE q[i - Len(p)]
    BY ConcatProperties
  <2>3. DOMAIN (p \o q) = 1 .. Len(p \o q)
    BY <2>2, LenProperties
  <2> QED
    BY <2>1, <2>2, <2>3
<1>2. hits(p) # {} /\ hits(p) \subseteq hits(p \o q) /\ hits(p \o q) \subseteq Nat
  BY <1>1 DEF Range
<1>3. \A i \in hits(p), j \in hits(p \o q) : j <= i => j \in hits(p)
  BY <1>1
<1>4. Min(hits(p)) = Min(hits(p \o q)) /\ Min(hits(p)) \in DOMAIN p
  <2>1. /\ Min(hits(p)) \in hits(p)
        /\ \A i \in hits(p) : Min(hits(p)) <= i
    <3> HIDE DEF hits
    <3> QED
      BY <1>2, MinIsLeast
  <2>2. /\ Min(hits(p \o q)) \in hits(p \o q)
        /\ \A i \in hits(p \o q) : Min(hits(p \o q)) <= i
    <3> HIDE DEF hits
    <3> QED
      BY <1>2, MinIsLeast
  <2>3. Min(hits(p \o q)) \in hits(p)
    <3> HIDE DEF hits
    <3> QED
      BY <1>2, <1>3, <2>1, <2>2
  <2>4. Min(hits(p)) \in DOMAIN p
    BY <2>1
  <2> HIDE DEF hits
  <2> QED
    BY <1>2, <2>1, <2>2, <2>3, <2>4
<1>5. FirstIn(p, S, default) = p[Min(hits(p))]
  BY <1>2 DEF FirstIn
<1>6. FirstIn(p \o q, S, default) = (p \o q)[Min(hits(p \o q))]
  BY <1>2 DEF FirstIn
<1> QED
  BY <1>1, <1>4, <1>5, <1>6
-----------------------------------------------------------------------------
(* Ingress points and endpoints.                                           *)

LEMMA ElementsDecide ==
  ASSUME NEW D, NEW s \in Seq(D), NEW E, Range(s) \subseteq E
  PROVE  s \in Seq(E)
<1>1. s \in Seq(Range(s))
  BY SeqOfRange
<1> QED
  BY <1>1, SeqMonotonic

\* A field of the elements of a sequence, as a sequence.
LEMMA FieldSequence ==
  ASSUME NEW hosts \in Seq(Host)
  PROVE  /\ [i \in DOMAIN hosts |-> hosts[i].ip] \in Seq(IPs \cup {Unset})
         /\ Range([i \in DOMAIN hosts |-> hosts[i].ip]) = {host.ip : host \in Range(hosts)}
         /\ [i \in DOMAIN hosts |-> hosts[i].hostname] \in Seq(STRING \cup {Unset})
<1>1. /\ Len(hosts) \in Nat /\ DOMAIN hosts = 1 .. Len(hosts)
      /\ \A i \in DOMAIN hosts : hosts[i] \in Host
  BY LenProperties, ElementOfSeq
<1>2. \A i \in DOMAIN hosts : /\ hosts[i].ip \in IPs \cup {Unset}
                              /\ hosts[i].hostname \in STRING \cup {Unset}
  BY <1>1 DEF Host
<1>3. [i \in DOMAIN hosts |-> hosts[i].ip] \in Seq(IPs \cup {Unset})
  BY <1>1, <1>2
<1>4. [i \in DOMAIN hosts |-> hosts[i].hostname] \in Seq(STRING \cup {Unset})
  BY <1>1, <1>2
<1>5. Range([i \in DOMAIN hosts |-> hosts[i].ip]) = {host.ip : host \in Range(hosts)}
  BY DEF Range
<1> QED
  BY <1>3, <1>4, <1>5

LEMMA HostnamesAreNames ==
  ASSUME NEW hosts \in Seq(Host)
  PROVE  Hostnames(hosts) \in Seq(STRING)
<1> DEFINE names == [i \in DOMAIN hosts |-> hosts[i].hostname]
<1>1. names \in Seq(STRING \cup {Unset})
  BY FieldSequence
<1> HIDE DEF names
<1>2. /\ Only(names, STRING) \in Seq(STRING \cup {Unset})
      /\ Range(Only(names, STRING)) \subseteq STRING
  BY <1>1, OnlyProperties
<1>3. Only(names, STRING) \in Seq(STRING)
  BY <1>2, ElementsDecide
<1> QED
  BY <1>3 DEF Hostnames, names

\* What parses is what is set: HostIPs returns the hosts' IPs, and never a nil one.
LEMMA HostIPsAreIPs ==
  ASSUME NEW hosts \in Seq(Host)
  PROVE  /\ HostIPs(hosts) \in Seq(IPs)
         /\ Range(HostIPs(hosts)) = {host.ip : host \in Range(hosts)} \cap IPs
<1> DEFINE ips == [i \in DOMAIN hosts |-> hosts[i].ip]
           set == Only(ips, STRING)
<1>1. ips \in Seq(IPs \cup {Unset}) /\ Range(ips) = {host.ip : host \in Range(hosts)}
  BY FieldSequence
<1>2. \A host \in Range(hosts) : host.ip \in IPs \cup {Unset}
  <2>1. \A i \in DOMAIN hosts : hosts[i] \in Host
    BY LenProperties, ElementOfSeq
  <2> QED
    BY <2>1 DEF Host, Range
<1> HIDE DEF ips
<1>3. set \in Seq(IPs \cup {Unset}) /\ Range(set) = Range(ips) \cap STRING
  BY <1>1, OnlyProperties
<1>4. Range(set) = {host.ip : host \in Range(hosts)} \cap IPs
  BY <1>1, <1>2, <1>3, HostsAssumption
<1> HIDE DEF set
<1>5. set \in Seq(IPs)
  BY <1>3, <1>4, ElementsDecide
<1>6. /\ \A i \in DOMAIN set : ParseIP(set[i]) = set[i]
      /\ set = [i \in DOMAIN set |-> set[i]]
  BY <1>5, ElementOfSeq, LenProperties DEF ParseIP
<1>7. [i \in DOMAIN set |-> ParseIP(set[i])] = set
  BY <1>6
<1>8. HostIPs(hosts) = [i \in DOMAIN set |-> ParseIP(set[i])]
  BY DEF HostIPs, set, ips
<1> QED
  BY <1>4, <1>5, <1>7, <1>8
=============================================================================
