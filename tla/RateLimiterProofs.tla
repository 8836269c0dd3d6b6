------------------------- MODULE RateLimiterProofs --------------------------
(***************************************************************************)
(* The visitor's limit holds for every set of addresses and visitors,      *)
(* every pair of windows with TokWindow <= IpWindow and any number of      *)
(* threads; between two moments at which the map, too full, is emptied.    *)
(*                                                                         *)
(* The invariant: a grant of the last TokWindow is still in hits.  A       *)
(* visitor is let through only when hits has nothing recent for him, so    *)
(* then his last grant is older than that.  Why it is inductive: every     *)
(* sweep is done with TokWindow or IpWindow, and neither is shorter.       *)
(*                                                                         *)
(* The other properties rest on what hits is: grants and nothing else, no  *)
(* more per address than allow lets in, and no more keys than it empties.  *)
(***************************************************************************)
EXTENDS RateLimiter, FiniteSetTheorems, TLAPS

\* Nobody is granted anything in the future, and what counts is remembered.
Remembered ==
    \A k \in Key : \A g \in granted[k] :
        /\ g[1] <= now
        /\ g[1] + TokWindow >= now => g \in hits[k]

HitsFinite == \A k \in Key : IsFiniteSet(hits[k])

\* What of TypeOK the argument needs; it leaves the numbers of the hits out.
Typed ==
    /\ now \in Time
    /\ hits \in [Key -> SUBSET (Time \X Nat)]
    /\ granted \in [Key -> SUBSET (Time \X Nat)]
    /\ request \in [Worker -> {"idle"} \cup Visitor]

IInv == Typed /\ HitsFinite /\ Remembered /\ VisitorLimit

\* What allow keeps: the hits of its window, unless it gives everything up.
LEMMA WhatIsKept ==
    ASSUME Typed, HitsFinite, NEW window \in Nat
    PROVE  /\ Kept(window) \in [Key -> SUBSET (Time \X Nat)]
           /\ \A k \in Key :
                /\ IsFiniteSet(Kept(window)[k])
                /\ ~Overfull(Swept(window)) =>
                     Kept(window)[k] = {h \in hits[k] : h[1] + window >= now}
<1>1. Swept(window) \in [Key -> SUBSET (Time \X Nat)]
  BY DEF Typed, Swept
<1>2. Kept(window) \in [Key -> SUBSET (Time \X Nat)]
  BY <1>1 DEF Kept, Capped, Emptied
<1>3. \A k \in Key : Swept(window)[k] = {h \in hits[k] : h[1] + window >= now}
  BY DEF Swept, Recent
<1>4. \A k \in Key : IsFiniteSet(Kept(window)[k])
  <2> TAKE k \in Key
  <2>1. IsFiniteSet(Swept(window)[k])
    <3>1. Swept(window)[k] \subseteq hits[k] /\ IsFiniteSet(hits[k])
      BY <1>3 DEF HitsFinite
    <3> QED
      BY <3>1, FS_Subset
  <2>2. Kept(window)[k] = Swept(window)[k] \/ Kept(window)[k] = {}
    BY DEF Kept, Capped, Emptied
  <2> QED
    BY <2>1, <2>2, FS_EmptySet
<1>5. ~Overfull(Swept(window)) => Kept(window) = Swept(window)
  BY DEF Kept, Capped
<1> QED
  BY <1>2, <1>3, <1>4, <1>5

(***************************************************************************)
(* One call of allow, for any key and any window that is not shorter than  *)
(* TokWindow, keeps what has to be remembered; and a visitor's own call    *)
(* keeps his limit.                                                        *)
(***************************************************************************)
LEMMA RecordPreserves ==
    ASSUME IInv, NEW k \in Key, NEW max \in Nat, NEW window \in Nat,
           window >= TokWindow, k \in Visitor => max = 1,
           Record(k, max, window), UNCHANGED now,
           request' \in [Worker -> {"idle"} \cup Visitor]
    PROVE  IInv'
<1> DEFINE kept == Kept(window)
           full == Overfull(Swept(window))
           past == IF full THEN Emptied ELSE granted
           hit == <<now, Cardinality({h \in kept[k] : h[1] = now})>>
<1>1. /\ kept \in [Key -> SUBSET (Time \X Nat)]
      /\ \A j \in Key : /\ IsFiniteSet(kept[j])
                        /\ ~full => kept[j] = {h \in hits[j] : h[1] + window >= now}
  BY WhatIsKept DEF IInv
<1>p. /\ past \in [Key -> SUBSET (Time \X Nat)]
      /\ \A j \in Key : \A g \in past[j] : ~full /\ g \in granted[j]
  BY DEF IInv, Typed, Emptied
<1>2. hit \in Time \X Nat
  <2>1. IsFiniteSet({h \in kept[k] : h[1] = now})
    BY <1>1, FS_Subset
  <2>2. Cardinality({h \in kept[k] : h[1] = now}) \in Nat
    BY <2>1, FS_CardinalityType
  <2> QED
    BY <2>2 DEF IInv, Typed
<1>3. CASE Allow(k, max, window)
  <2>1. /\ hits' = [kept EXCEPT ![k] = @ \cup {hit}]
        /\ granted' = [past EXCEPT ![k] = @ \cup {hit}]
    BY <1>3 DEF Record
  <2> HIDE DEF kept, past, full
  <2>2. Typed'
    BY <1>1, <1>p, <1>2, <2>1 DEF IInv, Typed
  <2>3. HitsFinite'
    <3> SUFFICES ASSUME NEW j \in Key PROVE IsFiniteSet(hits'[j])
      BY DEF HitsFinite
    <3>1. hits'[j] = kept[j] \/ hits'[j] = kept[j] \cup {hit}
      BY <1>1, <2>1
    <3>2. IsFiniteSet(kept[j]) /\ IsFiniteSet(kept[j] \cup {hit})
      <4>1. IsFiniteSet(kept[j])
        BY <1>1
      <4> QED
        BY <4>1, FS_AddElement
    <3> QED
      BY <3>1, <3>2
  <2>4. Remembered'
    <3> SUFFICES ASSUME NEW j \in Key, NEW g \in granted'[j]
                 PROVE  g[1] <= now' /\ (g[1] + TokWindow >= now' => g \in hits'[j])
      BY DEF Remembered
    <3>1. CASE g \in past[j]
      <4>0. ~full /\ g \in granted[j]
        BY <3>1, <1>p
      <4>1. g \in Time \X Nat /\ g[1] \in Nat /\ now \in Nat
        BY <4>0 DEF IInv, Typed, Time
      <4>2. g[1] <= now /\ (g[1] + TokWindow >= now => g \in hits[j])
        BY <4>0 DEF IInv, Remembered
      <4>3. g[1] + TokWindow >= now => g[1] + window >= now
        BY <4>1, LimitAssumption
      <4>4. g[1] + TokWindow >= now => g \in kept[j]
        BY <4>0, <4>2, <4>3, <1>1
      <4>5. kept[j] \subseteq hits'[j]
        BY <2>1, <1>1
      <4> QED
        BY <4>2, <4>4, <4>5
    <3>2. CASE g \notin past[j]
      <4>1. j = k /\ g = hit
        BY <3>2, <2>1, <1>p
      <4>2. g[1] = now /\ now \in Nat /\ hit \in hits'[k]
        BY <4>1, <2>1, <1>1 DEF IInv, Typed, Time
      <4> QED
        BY <4>1, <4>2
    <3> QED
      BY <3>1, <3>2
  <2>5. VisitorLimit'
    <3> SUFFICES ASSUME NEW v \in Visitor,
                        NEW g \in granted'[v], NEW h \in granted'[v]
                 PROVE  /\ g[1] < h[1] => g[1] + TokWindow < h[1]
                        /\ g[1] = h[1] => g = h
      BY DEF VisitorLimit
    <3>0. v \in Key /\ now \in Nat
      BY DEF Key, IInv, Typed, Time
    <3>1. \A x, y \in past[v] : /\ x[1] < y[1] => x[1] + TokWindow < y[1]
                                /\ x[1] = y[1] => x = y
      BY <3>0, <1>p DEF IInv, VisitorLimit
    <3>2. CASE v # k
      BY <3>1, <3>2, <3>0, <2>1, <1>p
    <3>3. CASE v = k
      <4>1. kept[v] = {}
        <5>1. Cardinality(kept[v]) < 1
          BY <1>3, <3>3 DEF Allow, kept
        <5>2. IsFiniteSet(kept[v]) /\ Cardinality(kept[v]) \in Nat
          BY <1>1, <3>0, FS_CardinalityType
        <5>3. Cardinality(kept[v]) = 0
          BY <5>1, <5>2
        <5> QED
          BY <5>2, <5>3, FS_EmptySet
      <4>2. \A f \in past[v] : f[1] \in Nat /\ f[1] + TokWindow < now
        <5> TAKE f \in past[v]
        <5>0. ~full /\ f \in granted[v]
          BY <3>0, <1>p
        <5>1. f \in Time \X Nat /\ f[1] \in Nat
          BY <5>0, <3>0 DEF IInv, Typed, Time
        <5>2. f[1] + TokWindow >= now => f \in hits[v]
          BY <5>0, <3>0 DEF IInv, Remembered
        <5>3. f \in hits[v] => ~(f[1] + window >= now)
          BY <5>0, <4>1, <1>1, <3>0
        <5> QED
          BY <5>1, <5>2, <5>3, <3>0, LimitAssumption
      <4>3. granted'[v] = past[v] \cup {hit} /\ hit[1] = now
        BY <3>3, <3>0, <2>1, <1>p
      <4>4. CASE g \in past[v] /\ h \in past[v]
        BY <4>4, <3>1
      <4>5. CASE g \in past[v] /\ h = hit
        BY <4>5, <4>2, <4>3, <3>0, LimitAssumption
      <4>6. CASE g = hit /\ h \in past[v]
        BY <4>6, <4>2, <4>3, <3>0, LimitAssumption
      <4>7. CASE g = hit /\ h = hit
        BY <4>7, <4>3, <3>0
      <4> QED
        BY <4>3, <4>4, <4>5, <4>6, <4>7
    <3> QED
      BY <3>2, <3>3
  <2> QED
    BY <2>2, <2>3, <2>4, <2>5 DEF IInv
<1>4. CASE ~Allow(k, max, window)
  <2>1. hits' = kept /\ granted' = past
    BY <1>4 DEF Record
  <2> HIDE DEF kept, past, full
  <2>2. Typed' /\ HitsFinite'
    BY <1>1, <1>p, <2>1 DEF IInv, Typed, HitsFinite
  <2>3. Remembered'
    <3> SUFFICES ASSUME NEW j \in Key, NEW g \in past[j]
                 PROVE  g[1] <= now /\ (g[1] + TokWindow >= now => g \in kept[j])
      BY <2>1 DEF Remembered
    <3>0. ~full /\ g \in granted[j]
      BY <1>p
    <3>1. g \in Time \X Nat /\ g[1] \in Nat /\ now \in Nat
      BY <3>0 DEF IInv, Typed, Time
    <3>2. g[1] <= now /\ (g[1] + TokWindow >= now => g \in hits[j])
      BY <3>0 DEF IInv, Remembered
    <3>3. g[1] + TokWindow >= now => g[1] + window >= now
      BY <3>1, LimitAssumption
    <3> QED
      BY <3>0, <3>2, <3>3, <1>1
  <2>4. VisitorLimit'
    BY <1>p, <2>1 DEF IInv, VisitorLimit, Key
  <2> QED
    BY <2>2, <2>3, <2>4 DEF IInv
<1> QED
  BY <1>3, <1>4

LEMMA InitIInv == Init => IInv
<1> SUFFICES ASSUME Init PROVE IInv
  OBVIOUS
<1>1. Typed
  BY LimitAssumption DEF Init, Typed, Time
<1>2. HitsFinite
  BY FS_EmptySet DEF Init, HitsFinite
<1>3. Remembered /\ VisitorLimit
  BY DEF Init, Remembered, VisitorLimit, Key
<1> QED
  BY <1>1, <1>2, <1>3 DEF IInv

LEMMA NextIInv ==
    ASSUME IInv, [Next]_vars
    PROVE  IInv'
<1>1. ASSUME NEW w \in Worker, NEW ip \in Ip, NEW v \in Visitor \cup {NoCookie},
             AllowIp(w, ip, v)
      PROVE  IInv'
  <2>1. request' \in [Worker -> {"idle"} \cup Visitor]
    BY <1>1 DEF AllowIp, IInv, Typed
  <2>2. ip \in Key /\ ip \notin Visitor
    BY <1>1, KeyAssumption DEF Key
  <2>3. IpMax \in Nat /\ IpWindow \in Nat /\ IpWindow >= TokWindow
    BY LimitAssumption
  <2>4. Record(ip, IpMax, IpWindow) /\ UNCHANGED now
    BY <1>1 DEF AllowIp
  <2> QED
    BY <2>1, <2>2, <2>3, <2>4, RecordPreserves
<1>2. ASSUME NEW w \in Worker, AllowTok(w)
      PROVE  IInv'
  <2>1. request[w] \in Key
    BY <1>2 DEF AllowTok, IInv, Typed, Key
  <2>2. request' \in [Worker -> {"idle"} \cup Visitor]
    BY <1>2 DEF AllowTok, IInv, Typed
  <2>3. TokWindow \in Nat /\ TokWindow >= TokWindow /\ TokMax = 1
    BY LimitAssumption DEF TokMax
  <2>4. Record(request[w], TokMax, TokWindow) /\ UNCHANGED now
    BY <1>2 DEF AllowTok
  <2> QED
    BY <2>1, <2>2, <2>3, <2>4, RecordPreserves
<1>3. CASE Tick
  <2>1. now' = now + 1 /\ now \in Nat /\ now' \in Time
    BY <1>3, LimitAssumption DEF Tick, IInv, Typed, Time
  <2>2. UNCHANGED <<hits, granted, request>>
    BY <1>3 DEF Tick
  <2>3. Typed' /\ HitsFinite' /\ VisitorLimit'
    BY <2>1, <2>2 DEF IInv, Typed, HitsFinite, VisitorLimit
  <2>4. Remembered'
    <3> SUFFICES ASSUME NEW j \in Key, NEW g \in granted[j]
                 PROVE  g[1] <= now' /\ (g[1] + TokWindow >= now' => g \in hits[j])
      BY <2>2 DEF Remembered
    <3>1. g \in Time \X Nat /\ g[1] \in Nat
      BY DEF IInv, Typed, Time
    <3>2. g[1] <= now /\ (g[1] + TokWindow >= now => g \in hits[j])
      BY DEF IInv, Remembered
    <3> QED
      BY <3>1, <3>2, <2>1, LimitAssumption
  <2> QED
    BY <2>3, <2>4 DEF IInv
<1>4. CASE Restart
  <2>1. Typed' /\ HitsFinite'
    BY <1>4, FS_EmptySet DEF Restart, Emptied, IInv, Typed, HitsFinite
  <2>2. Remembered' /\ VisitorLimit'
    BY <1>4 DEF Restart, Emptied, Remembered, VisitorLimit, Key
  <2> QED
    BY <2>1, <2>2 DEF IInv
<1>5. CASE UNCHANGED vars
  BY <1>5 DEF vars, IInv, Typed, HitsFinite, Remembered, VisitorLimit
<1> QED
  BY <1>1, <1>2, <1>3, <1>4, <1>5 DEF Next

(***************************************************************************)
(* README.md:833: two comments of one visitor are more than TokWindow      *)
(* apart, for every number of visitors, addresses and threads.             *)
(***************************************************************************)
THEOREM VisitorsAreLimited == Spec => []VisitorLimit
<1>1. IInv => VisitorLimit
  BY DEF IInv
<1> QED
  BY InitIInv, NextIInv, <1>1, PTL DEF Spec

-----------------------------------------------------------------------------
(* What hits holds: grants only, few per address, and few keys. *)

OnlyGrants == \A k \in Key : hits[k] \subseteq granted[k] /\ IsFiniteSet(granted[k])

FewHits == \A ip \in Ip : Cardinality(hits[ip]) <= IpMax

FewKeys == IsFiniteSet(Entries(hits)) /\ KeysBounded

Account == OnlyGrants /\ FewHits /\ FewKeys

\* Losing hits loses no bound.
LEMMA FewerEntries ==
    ASSUME NEW h, NEW g, \A k \in Key : h[k] \subseteq g[k], IsFiniteSet(Entries(g))
    PROVE  /\ IsFiniteSet(Entries(h))
           /\ Cardinality(Entries(h)) <= Cardinality(Entries(g))
           /\ Cardinality(Entries(h)) \in Nat /\ Cardinality(Entries(g)) \in Nat
<1>1. Entries(h) \subseteq Entries(g)
  BY DEF Entries
<1> QED
  BY <1>1, FS_Subset, FS_CardinalityType

LEMMA RecordAccounts ==
    ASSUME IInv, Account, NEW k \in Key, NEW max \in Nat, NEW window \in Nat,
           k \in Ip => max = IpMax,
           Record(k, max, window)
    PROVE  Account'
<1> DEFINE kept == Kept(window)
           full == Overfull(Swept(window))
           past == IF full THEN Emptied ELSE granted
           hit == <<now, Cardinality({h \in kept[k] : h[1] = now})>>
<1>1. /\ kept \in [Key -> SUBSET (Time \X Nat)]
      /\ \A j \in Key : IsFiniteSet(kept[j]) /\ kept[j] \subseteq hits[j]
  <2>1. \A j \in Key : IsFiniteSet(kept[j])
    BY WhatIsKept DEF IInv
  <2>2. \A j \in Key : kept[j] \subseteq hits[j]
    BY DEF Kept, Capped, Swept, Emptied
  <2> QED
    BY <2>1, <2>2, WhatIsKept DEF IInv
<1>2. /\ past \in [Key -> SUBSET (Time \X Nat)]
      /\ \A j \in Key : kept[j] \subseteq past[j] /\ IsFiniteSet(past[j])
  <2>1. CASE full
    BY <2>1, FS_EmptySet DEF Kept, Capped, Emptied
  <2>2. CASE ~full
    BY <1>1, <2>2 DEF Account, OnlyGrants, IInv, Typed
  <2> QED
    BY <2>1, <2>2
<1>3. IsFiniteSet(Entries(kept)) /\ Cardinality(Entries(kept)) <= MaxKeys
  <2>1. CASE full
    <3>1. Entries(kept) = {}
      BY <2>1 DEF Kept, Capped, Emptied, Entries
    <3> QED
      BY <3>1, FS_EmptySet, LimitAssumption
  <2>2. CASE ~full
    <3>1. kept = Swept(window) /\ IsFiniteSet(Entries(kept))
      BY <1>1, <2>2, FewerEntries DEF Kept, Capped, Account, FewKeys
    <3>2. Cardinality(Entries(kept)) \in Nat /\ ~(Cardinality(Entries(kept)) > MaxKeys)
      BY <2>2, <3>1, FS_CardinalityType DEF Overfull
    <3> QED
      BY <3>1, <3>2, LimitAssumption
  <2> QED
    BY <2>1, <2>2
<1>4. \A ip \in Ip : Cardinality(kept[ip]) \in Nat /\ Cardinality(kept[ip]) <= IpMax
  <2> TAKE ip \in Ip
  <2>1. ip \in Key /\ IsFiniteSet(hits[ip]) /\ IpMax \in Nat
    BY LimitAssumption DEF Key, IInv, HitsFinite
  <2>2. kept[ip] \subseteq hits[ip]
    BY <1>1, <2>1
  <2>3. /\ Cardinality(kept[ip]) \in Nat /\ Cardinality(hits[ip]) \in Nat
        /\ Cardinality(kept[ip]) <= Cardinality(hits[ip])
    BY <1>1, <2>1, <2>2, FS_Subset, FS_CardinalityType
  <2> QED
    BY <2>1, <2>3 DEF Account, FewHits
<1>5. CASE Allow(k, max, window)
  <2>1. /\ hits' = [kept EXCEPT ![k] = @ \cup {hit}]
        /\ granted' = [past EXCEPT ![k] = @ \cup {hit}]
        /\ Cardinality(kept[k]) < max
    BY <1>5 DEF Record, Allow
  <2> HIDE DEF kept, past, full, hit
  <2>2. \A j \in Key : /\ hits'[j] = IF j = k THEN kept[j] \cup {hit} ELSE kept[j]
                       /\ granted'[j] = IF j = k THEN past[j] \cup {hit} ELSE past[j]
    BY <1>1, <1>2, <2>1
  <2>3. OnlyGrants'
    <3> SUFFICES ASSUME NEW j \in Key
                 PROVE  hits'[j] \subseteq granted'[j] /\ IsFiniteSet(granted'[j])
      BY DEF OnlyGrants
    <3>1. IsFiniteSet(past[j]) /\ IsFiniteSet(past[j] \cup {hit})
      BY <1>2, FS_AddElement
    <3> QED
      BY <1>2, <2>2, <3>1
  <2>4. FewHits'
    <3> SUFFICES ASSUME NEW ip \in Ip PROVE Cardinality(hits'[ip]) <= IpMax
      BY DEF FewHits
    <3>1. ip \in Key
      BY DEF Key
    <3>2. CASE ip = k
      <4>1. /\ IsFiniteSet(kept[ip]) /\ Cardinality(kept[ip]) \in Nat
            /\ Cardinality(kept[ip]) < IpMax
        BY <1>1, <1>4, <2>1, <3>1, <3>2
      <4>2. \/ Cardinality(kept[ip] \cup {hit}) = Cardinality(kept[ip])
            \/ Cardinality(kept[ip] \cup {hit}) = Cardinality(kept[ip]) + 1
        BY <4>1, FS_AddElement
      <4>3. hits'[ip] = kept[ip] \cup {hit}
        BY <2>2, <3>1, <3>2
      <4>4. IpMax \in Nat
        BY LimitAssumption
      <4>5. Cardinality(kept[ip] \cup {hit}) <= IpMax
        BY <4>1, <4>2, <4>4
      <4> QED
        BY <4>3, <4>5
    <3>3. CASE ip # k
      BY <1>4, <2>2, <3>1, <3>3
    <3> QED
      BY <3>2, <3>3
  <2>5. FewKeys'
    <3>1. Entries(hits') = Entries(kept) \cup {k}
      BY <2>2 DEF Entries
    <3>2. /\ IsFiniteSet(Entries(kept) \cup {k})
          /\ \/ Cardinality(Entries(kept) \cup {k}) = Cardinality(Entries(kept))
             \/ Cardinality(Entries(kept) \cup {k}) = Cardinality(Entries(kept)) + 1
          /\ Cardinality(Entries(kept)) \in Nat
      BY <1>3, FS_AddElement, FS_CardinalityType
    <3> QED
      BY <1>3, <3>1, <3>2, LimitAssumption DEF FewKeys, KeysBounded
  <2> QED
    BY <2>3, <2>4, <2>5 DEF Account
<1>6. CASE ~Allow(k, max, window)
  <2>1. hits' = kept /\ granted' = past
    BY <1>6 DEF Record
  <2> HIDE DEF kept, past, full
  <2>2. OnlyGrants' /\ FewHits'
    BY <1>2, <1>4, <2>1 DEF OnlyGrants, FewHits
  <2>3. FewKeys'
    <3>1. Cardinality(Entries(kept)) \in Nat
      BY <1>3, FS_CardinalityType
    <3> QED
      BY <1>3, <2>1, <3>1, LimitAssumption DEF FewKeys, KeysBounded
  <2> QED
    BY <2>2, <2>3 DEF Account
<1> QED
  BY <1>5, <1>6

\* An empty map is within every bound.
LEMMA EmptyAccounts ==
    ASSUME NEW h, \A k \in Key : h[k] = {}
    PROVE  /\ \A ip \in Ip : Cardinality(h[ip]) <= IpMax
           /\ IsFiniteSet(Entries(h)) /\ Cardinality(Entries(h)) <= MaxKeys + 1
<1>1. Entries(h) = {}
  BY DEF Entries
<1> QED
  BY <1>1, FS_EmptySet, LimitAssumption DEF Key

LEMMA InitAccount == Init => Account
<1> SUFFICES ASSUME Init PROVE Account
  OBVIOUS
<1>1. \A k \in Key : hits[k] = {} /\ granted[k] = {}
  BY DEF Init
<1>2. FewHits /\ FewKeys
  BY <1>1, EmptyAccounts DEF FewHits, FewKeys, KeysBounded
<1> QED
  BY <1>1, <1>2, FS_EmptySet DEF Account, OnlyGrants

LEMMA NextAccount ==
    ASSUME IInv, Account, [Next]_vars
    PROVE  Account'
<1>1. ASSUME NEW w \in Worker, NEW ip \in Ip, NEW v \in Visitor \cup {NoCookie},
             AllowIp(w, ip, v)
      PROVE  Account'
  <2>1. ip \in Key /\ IpMax \in Nat /\ IpWindow \in Nat /\ Record(ip, IpMax, IpWindow)
    BY <1>1, LimitAssumption DEF AllowIp, Key
  <2> QED
    BY <2>1, RecordAccounts
<1>2. ASSUME NEW w \in Worker, AllowTok(w)
      PROVE  Account'
  <2>1. /\ request[w] \in Key /\ request[w] \notin Ip
        /\ TokMax \in Nat /\ TokWindow \in Nat /\ Record(request[w], TokMax, TokWindow)
    BY <1>2, KeyAssumption, LimitAssumption DEF AllowTok, IInv, Typed, Key, TokMax
  <2> QED
    BY <2>1, RecordAccounts
<1>3. CASE Tick \/ UNCHANGED vars
  <2>1. UNCHANGED <<hits, granted>>
    BY <1>3 DEF Tick, vars
  <2> QED
    BY <2>1 DEF Account, OnlyGrants, FewHits, FewKeys, KeysBounded, Entries
<1>4. CASE Restart
  <2>1. \A k \in Key : hits'[k] = {} /\ granted'[k] = {}
    BY <1>4 DEF Restart, Emptied
  <2>2. FewHits' /\ FewKeys'
    BY <2>1, EmptyAccounts DEF FewHits, FewKeys, KeysBounded
  <2> QED
    BY <2>1, <2>2, FS_EmptySet DEF Account, OnlyGrants
<1> QED
  BY <1>1, <1>2, <1>3, <1>4 DEF Next

LEMMA AccountAlways == Spec => [](IInv /\ Account)
<1>1. Init => IInv /\ Account
  BY InitIInv, InitAccount
<1>2. IInv /\ Account /\ [Next]_vars => (IInv /\ Account)'
  BY NextIInv, NextAccount
<1> QED
  BY <1>1, <1>2, PTL DEF Spec

(***************************************************************************)
(* routes.cpp:48: the map holds at most one key more than the number at    *)
(* which it is emptied, whoever comes.                                     *)
(***************************************************************************)
THEOREM TheMapIsBounded == Spec => []KeysBounded
<1>1. Account => KeysBounded
  BY DEF Account, FewKeys
<1> QED
  BY <1>1, AccountAlways, PTL

(***************************************************************************)
(* At most IpMax comments of an address within the shorter window, however *)
(* the sweeps of other keys interleave: all of them are still in hits.     *)
(***************************************************************************)
THEOREM BurstsAreLimited == Spec => []AddressBurst
<1>1. IInv /\ Account => AddressBurst
  <2> SUFFICES ASSUME IInv, Account, NEW ip \in Ip
               PROVE  Cardinality(Grants(ip, TokWindow)) <= IpMax
    BY DEF AddressBurst
  <2>1. ip \in Key /\ IsFiniteSet(hits[ip])
    BY DEF Key, IInv, HitsFinite
  <2>2. Grants(ip, TokWindow) \subseteq hits[ip]
    BY <2>1 DEF Grants, Recent, IInv, Remembered
  <2>3. /\ Cardinality(Grants(ip, TokWindow)) <= Cardinality(hits[ip])
        /\ IsFiniteSet(Grants(ip, TokWindow))
    BY <2>1, <2>2, FS_Subset
  <2>4. Cardinality(Grants(ip, TokWindow)) \in Nat /\ Cardinality(hits[ip]) \in Nat
    BY <2>1, <2>3, FS_CardinalityType
  <2> QED
    BY <2>3, <2>4, LimitAssumption DEF Account, FewHits
<1> QED
  BY <1>1, AccountAlways, PTL

(***************************************************************************)
(* Whoever is refused was granted his maximum within his own window: what  *)
(* allow counts are grants, and refused requests leave nothing behind.     *)
(***************************************************************************)
THEOREM NobodyIsRefusedWithoutCause == Spec => []RefusedOnlyForCause
<1>1. IInv /\ Account => RefusedOnlyForCause
  <2> SUFFICES ASSUME IInv, Account PROVE RefusedOnlyForCause
    OBVIOUS
  <2>1. ASSUME NEW k \in Key, NEW window \in Nat
        PROVE  /\ Kept(window)[k] \subseteq Grants(k, window)
               /\ IsFiniteSet(Grants(k, window))
               /\ Cardinality(Kept(window)[k]) \in Nat
               /\ Cardinality(Grants(k, window)) \in Nat
               /\ Cardinality(Kept(window)[k]) <= Cardinality(Grants(k, window))
    <3>1. Kept(window)[k] \subseteq Grants(k, window)
      BY DEF Kept, Capped, Emptied, Swept, Grants, Account, OnlyGrants
    <3>2. IsFiniteSet(Grants(k, window))
      <4>1. Grants(k, window) \subseteq granted[k] /\ IsFiniteSet(granted[k])
        BY DEF Grants, Account, OnlyGrants
      <4> QED
        BY <4>1, FS_Subset
    <3> QED
      BY <3>1, <3>2, FS_Subset, FS_CardinalityType
  <2>2. ASSUME NEW ip \in Ip, ~Allow(ip, IpMax, IpWindow)
        PROVE  Cardinality(Grants(ip, IpWindow)) >= IpMax
    <3>1. ip \in Key /\ IpWindow \in Nat /\ IpMax \in Nat
      BY LimitAssumption DEF Key
    <3> QED
      BY <2>1, <2>2, <3>1 DEF Allow
  <2>3. ASSUME NEW v \in Visitor, ~Allow(v, TokMax, TokWindow)
        PROVE  Grants(v, TokWindow) # {}
    <3>1. v \in Key /\ TokWindow \in Nat
      BY LimitAssumption DEF Key
    <3>2. Cardinality(Grants(v, TokWindow)) \in Nat /\ Cardinality(Grants(v, TokWindow)) >= 1
      BY <2>1, <2>3, <3>1 DEF Allow, TokMax
    <3> QED
      BY <3>2, FS_EmptySet
  <2> QED
    BY <2>2, <2>3 DEF RefusedOnlyForCause
<1> QED
  BY <1>1, AccountAlways, PTL

=============================================================================
