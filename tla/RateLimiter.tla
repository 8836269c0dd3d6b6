---------------------------- MODULE RateLimiter -----------------------------
(***************************************************************************)
(* The rate limiter of POST /api/posts/<id>/comments.                      *)
(*                                                                         *)
(* One object, one map from keys to the times of the requests it let       *)
(* through, serves two limits: "ip:" keys, IpMax in IpWindow, and "tok:"   *)
(* keys (a visitor's cookie), one in TokWindow.  A handler asks for the    *)
(* address first and, if there is a cookie, for the visitor afterwards;    *)
(* each call of allow is one critical section of the limiter's mutex, and  *)
(* the calls of several handlers interleave.                               *)
(*                                                                         *)
(* Abstracted: the steady clock ticks once per unit of the windows; the    *)
(* comment that a request let through inserts (see the database methods).  *)
(***************************************************************************)
EXTENDS Naturals, FiniteSets

CONSTANTS
    Ip,         \* client addresses
    Visitor,    \* values of the blog_anon cookie
    IpMax,      \* 5 in the code
    IpWindow,   \* 60 s in the code
    TokWindow,  \* 10 s in the code
    MaxKeys,    \* 10000 in the code
    MaxTime,    \* bound: the clock stops there
    Worker      \* Crow threads serving such requests

ASSUME LimitAssumption ==
    /\ IpMax \in Nat \ {0} /\ IpWindow \in Nat /\ TokWindow \in Nat
    /\ TokWindow <= IpWindow
    /\ MaxKeys \in Nat /\ MaxTime \in Nat
ASSUME KeyAssumption == Ip \cap Visitor = {}

TokMax == 1
NoCookie == "no cookie"
Key == Ip \cup Visitor
Time == 0..MaxTime
Hit == Time \X (0..(IpMax - 1))   \* <<t, n>>: one of several at time t

VARIABLES
    now,      \* steady_clock::now()
    hits,     \* hits[k]: the vector of times recorded for k; {} if k has no entry
    granted,  \* history: all the hits of k since the map was last emptied as a whole
    request   \* request[w]: "idle", or the visitor whose tok: call is still to come

vars == <<now, hits, granted, request>>

TypeOK ==
    /\ now \in Time
    /\ hits \in [Key -> SUBSET Hit]
    /\ granted \in [Key -> SUBSET Hit]
    /\ request \in [Worker -> {"idle"} \cup Visitor]

Init ==
    /\ now = 0
    /\ hits = [k \in Key |-> {}]
    /\ granted = [k \in Key |-> {}]
    /\ request = [w \in Worker |-> "idle"]

-----------------------------------------------------------------------------
\* t >= cutoff, with cutoff = now - windowSec
Recent(t, window) == t + window >= now

NoPrune(window) == hits   \* mutant: the sweep is missing
\* The sweep over all the keys, every one with the caller's window.
Swept(window) ==
    [k \in Key |-> {h \in hits[k] : Recent(h[1], window)}]

Entries(h) == {k \in Key : h[k] # {}}

NeverTooMany(h) == h   \* mutant: hits_ grows without bound
Overfull(h) == Cardinality(Entries(h)) > MaxKeys
Emptied == [k \in Key |-> {}]
Capped(h) == IF Overfull(h) THEN Emptied ELSE h

\* What is left in hits_ when allow looks its key up.
Kept(window) == Capped(Swept(window))

AllowLate(k, max, window) == Cardinality(Kept(window)[k]) <= max   \* mutant: > for >=
Allow(k, max, window) == Cardinality(Kept(window)[k]) < max

\* allow(k, max, window): its answer is Allow; this is what it does to the state.
Record(k, max, window) ==
    LET kept == Kept(window)
        past == IF Overfull(Swept(window)) THEN Emptied ELSE granted
        hit == <<now, Cardinality({h \in kept[k] : h[1] = now})>> IN
    IF Allow(k, max, window)
    THEN /\ hits' = [kept EXCEPT ![k] = @ \cup {hit}]
         /\ granted' = [past EXCEPT ![k] = @ \cup {hit}]
    ELSE hits' = kept /\ granted' = past

\* allow("ip:" + ip, 5, 60)
AllowIp(w, ip, visitor) ==
    /\ request[w] = "idle"
    /\ Record(ip, IpMax, IpWindow)
    /\ request' = [request EXCEPT ![w] =
                     IF Allow(ip, IpMax, IpWindow) /\ visitor # NoCookie THEN visitor
                                                                         ELSE "idle"]
    /\ UNCHANGED now

\* allow("tok:" + anonToken, 1, 10)
AllowTok(w) ==
    /\ request[w] # "idle"
    /\ Record(request[w], TokMax, TokWindow)
    /\ request' = [request EXCEPT ![w] = "idle"]
    /\ UNCHANGED now

Tick == now < MaxTime /\ now' = now + 1 /\ UNCHANGED <<hits, granted, request>>

\* The counters are in memory: a restart forgets them.
Restart ==
    /\ hits' = Emptied /\ granted' = Emptied
    /\ request' = [w \in Worker |-> "idle"]
    /\ UNCHANGED now

Next ==
    \/ \E w \in Worker : \/ \E ip \in Ip, v \in Visitor \cup {NoCookie} : AllowIp(w, ip, v)
                         \/ AllowTok(w)
    \/ Tick
    \/ Restart

Spec == Init /\ [][Next]_vars

-----------------------------------------------------------------------------
Grants(k, window) == {h \in granted[k] : Recent(h[1], window)}

(***************************************************************************)
(* README.md:833: a visitor with a cookie gets one comment per TokWindow,  *)
(* whatever addresses he comes from, and however his requests and those of *)
(* others interleave.  It holds because no window is shorter than his: no  *)
(* other key's sweep removes what his own limit still needs.  (When the    *)
(* map has too many keys the code empties it and gives all limits up for   *)
(* once, and so does granted; the same goes for the next two properties.)  *)
(***************************************************************************)
VisitorLimit ==
    \A v \in Visitor : \A g, h \in granted[v] :
        /\ g[1] < h[1] => g[1] + TokWindow < h[1]
        /\ g[1] = h[1] => g = h

(***************************************************************************)
(* What the shared sweep leaves of the address limit: at most IpMax        *)
(* comments within the shorter of the two windows.                         *)
(***************************************************************************)
AddressBurst ==
    \A ip \in Ip : Cardinality(Grants(ip, TokWindow)) <= IpMax

(***************************************************************************)
(* routes.cpp:22 and README.md:833: at most IpMax comments per address     *)
(* within IpWindow.  Not kept: allow sweeps every key with the caller's    *)
(* window, so each "tok:" call throws away all addresses' hits older than  *)
(* TokWindow, and an address that also has visitors with cookies starts    *)
(* counting afresh.                                                        *)
(***************************************************************************)
AddressLimit ==
    \A ip \in Ip : Cardinality(Grants(ip, IpWindow)) <= IpMax

(***************************************************************************)
(* Nobody is refused for what others did, or for requests that were        *)
(* themselves refused: a key that would be refused now was granted its     *)
(* maximum within its own window.                                          *)
(***************************************************************************)
RefusedOnlyForCause ==
    /\ \A ip \in Ip : ~Allow(ip, IpMax, IpWindow) =>
                        Cardinality(Grants(ip, IpWindow)) >= IpMax
    /\ \A v \in Visitor : ~Allow(v, TokMax, TokWindow) => Grants(v, TokWindow) # {}

(***************************************************************************)
(* routes.cpp:48: the map stays bounded however many keys come and go: at  *)
(* most one more than MaxKeys at which it is emptied.                      *)
(***************************************************************************)
KeysBounded == Cardinality(Entries(hits)) <= MaxKeys + 1

=============================================================================
