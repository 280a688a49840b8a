--------------------------------- MODULE JWKS ---------------------------------
(***************************************************************************)
(* The key-set cache behind RS256 authentication                           *)
(* (internal/middleware/jwks.go): goroutines look keys up, and refresh the *)
(* cache from an HTTP endpoint whose key set changes.  The cache is shared *)
(* under a read-write lock, held only to read or to replace it, so that    *)
(* the fetches of several goroutines overlap.                              *)
(*                                                                         *)
(* Time passes while no goroutine is between two of its own instructions:  *)
(* what a lookup does apart from the fetch takes no time.                  *)
(***************************************************************************)
EXTENDS Naturals, Sequences

CONSTANTS Callers,       \* goroutines that verify a token
          Kids,          \* key ids
          NoKid,         \* the id "" of a token or a key without one
          TTL,           \* ttl
          MinRefresh,    \* minRefresh
          FetchTimeout,  \* client.Timeout
          MaxTime,       \* bound on the clock
          MaxVersions    \* bound on the rotations of the endpoint's key set

ASSUME NoKidAssumption == NoKid \in Kids
ASSUME TTLAssumption == TTL \in Nat
ASSUME MinRefreshAssumption == MinRefresh \in Nat
ASSUME FetchTimeoutAssumption == FetchTimeout \in Nat
ASSUME MaxTimeAssumption == MaxTime \in Nat
ASSUME MaxVersionsAssumption == MaxVersions \in Nat \ {0}

VARIABLES now,        \* the clock
          docs,       \* key sets the endpoint has served, and since when
          version,    \* the version of the cached key set, 0 when there is none
          fetchedAt,  \* fetchedAt
          pc,         \* pc[c]: where the lookup of c is
          kid,        \* kid[c]: the key id of the token
          found,      \* found[c]: version in which the first read found kid, or 0
          sentAt,     \* sentAt[c]: when c sent its fetch
          got,        \* got[c]: the version in the response to c
          verdict     \* the outcome of the lookup that the last step decided

vars == <<now, docs, version, fetchedAt, pc, kid, found, sentAt, got, verdict>>

(* j.keys: the ids in the cached set.  A version stands for its key set.   *)
KeysOf(v) == IF v = 0 THEN {} ELSE docs[v].kids
keys == KeysOf(version)

Current == Len(docs)

Undecided == [result |-> "none", kid |-> NoKid, version |-> 0]
Verdicts == [result : {"none", "accepted", "stale", "unknown", "failed"},
             kid : Kids, version : Nat]

Init ==
    /\ now = 0
    /\ docs \in {<<[kids |-> ks, since |-> 0]>> : ks \in SUBSET Kids}
    /\ version = 0
    /\ fetchedAt = 0
    /\ pc = [c \in Callers |-> "idle"]
    /\ kid = [c \in Callers |-> NoKid]
    /\ found = [c \in Callers |-> 0]
    /\ sentAt = [c \in Callers |-> 0]
    /\ got = [c \in Callers |-> 0]
    /\ verdict = Undecided

-------------------------------------------------------------------------------
(* key(): the lookup of a goroutine.                                       *)

(* The lookup of c for k ends; its local variables are gone.               *)
Decide(c, k, result, v) ==
    /\ verdict' = [result |-> result, kid |-> k, version |-> v]
    /\ pc' = [pc EXCEPT ![c] = "idle"]
    /\ kid' = [kid EXCEPT ![c] = NoKid]
    /\ found' = [found EXCEPT ![c] = 0]
    /\ sentAt' = [sentAt EXCEPT ![c] = 0]
    /\ got' = [got EXCEPT ![c] = 0]

(* Fresh of a program that never lets a key set age.                       *)
FreshForEver == fetchedAt <= now

Fresh == now - fetchedAt < TTL

(* WHO   a goroutine with a token                                          *)
(* WHAT  reads the cache under the read lock; a fresh key is served.       *)
Hit(c) ==
    /\ pc[c] = "idle"
    /\ Fresh
    /\ \E k \in keys : Decide(c, k, "accepted", version)
    /\ UNCHANGED <<now, docs, version, fetchedAt>>

Miss(c) ==
    /\ pc[c] = "idle"
    /\ \E k \in Kids :
          /\ ~(k \in keys /\ Fresh)
          /\ kid' = [kid EXCEPT ![c] = k]
          /\ found' = [found EXCEPT ![c] = IF k \in keys THEN version ELSE 0]
    /\ pc' = [pc EXCEPT ![c] = "refresh"]
    /\ verdict' = Undecided
    /\ UNCHANGED <<now, docs, version, fetchedAt, sentAt, got>>

-------------------------------------------------------------------------------
(* refresh().                                                              *)

(* TooSoon of a program that forgets to compare the time.                  *)
TooSoonOnceFetched == keys # {}

TooSoon == keys # {} /\ now - fetchedAt < MinRefresh

SkipRefresh(c) ==
    /\ pc[c] = "refresh"
    /\ TooSoon
    /\ pc' = [pc EXCEPT ![c] = "reread"]
    /\ verdict' = Undecided
    /\ UNCHANGED <<now, docs, version, fetchedAt, kid, found, sentAt, got>>

(* WHO   a goroutine that must refresh                                     *)
(* WHAT  sends the request; it holds no lock.                              *)
SendFetch(c) ==
    /\ pc[c] = "refresh"
    /\ ~TooSoon
    /\ sentAt' = [sentAt EXCEPT ![c] = now]
    /\ pc' = [pc EXCEPT ![c] = "sent"]
    /\ verdict' = Undecided
    /\ UNCHANGED <<now, docs, version, fetchedAt, kid, found, got>>

(* WHO   the endpoint                                                      *)
(* WHAT  answers with the key set it serves now.                           *)
Answer(c) ==
    /\ pc[c] = "sent"
    /\ got' = [got EXCEPT ![c] = Current]
    /\ pc' = [pc EXCEPT ![c] = "answered"]
    /\ verdict' = Undecided
    /\ UNCHANGED <<now, docs, version, fetchedAt, kid, found, sentAt>>

(* Store of a program that keeps the expiry in fetchedAt.                  *)
StoreExpiry(c) ==
    /\ pc[c] = "answered"
    /\ KeysOf(got[c]) # {}
    /\ version' = got[c]
    /\ fetchedAt' = now + TTL
    /\ pc' = [pc EXCEPT ![c] = "reread"]
    /\ verdict' = Undecided
    /\ UNCHANGED <<now, docs, kid, found, sentAt, got>>

(* WHO   a goroutine that has read the response                            *)
(* WHAT  replaces the cache under the write lock, whatever it now holds.   *)
Store(c) ==
    /\ pc[c] = "answered"
    /\ KeysOf(got[c]) # {}
    /\ version' = got[c]
    /\ fetchedAt' = now
    /\ pc' = [pc EXCEPT ![c] = "reread"]
    /\ verdict' = Undecided
    /\ UNCHANGED <<now, docs, kid, found, sentAt, got>>

(* The request, the response or a key in it is bad, the deadline is over,  *)
(* or the set has no usable key.  A key the first read found is served     *)
(* however old it is; otherwise the token is refused.                      *)
FetchFails(c) ==
    /\ pc[c] \in {"sent", "answered"}
    /\ IF found[c] # 0
       THEN Decide(c, kid[c], "stale", found[c])
       ELSE Decide(c, kid[c], "failed", 0)
    /\ UNCHANGED <<now, docs, version, fetchedAt>>

(* WHO   a goroutine after a refresh that did not fail                     *)
(* WHAT  reads the cache again.                                            *)
Reread(c) ==
    /\ pc[c] = "reread"
    /\ IF kid[c] \in keys
       THEN Decide(c, kid[c], "accepted", version)
       ELSE Decide(c, kid[c], "unknown", 0)
    /\ UNCHANGED <<now, docs, version, fetchedAt>>

-------------------------------------------------------------------------------
(* The environment.                                                        *)

(* The endpoint changes its key set: keys appear and are withdrawn.        *)
Rotate ==
    /\ Current < MaxVersions
    /\ \E ks \in SUBSET Kids \ {docs[Current].kids} :
          docs' = Append(docs, [kids |-> ks, since |-> now])
    /\ verdict' = Undecided
    /\ UNCHANGED <<now, version, fetchedAt, pc, kid, found, sentAt, got>>

(* Time passes while every goroutine is idle or waits for the endpoint,    *)
(* and no wait exceeds the deadline of the request.                        *)
Tick ==
    /\ now < MaxTime
    /\ \A c \in Callers :
          \/ pc[c] = "idle"
          \/ pc[c] \in {"sent", "answered"} /\ now - sentAt[c] < FetchTimeout
    /\ now' = now + 1
    /\ verdict' = Undecided
    /\ UNCHANGED <<docs, version, fetchedAt, pc, kid, found, sentAt, got>>

-------------------------------------------------------------------------------
(* Resolve of a program whose HTTP client has no timeout.                  *)
ResolveWithoutTimeout(c) ==
    \/ SkipRefresh(c)
    \/ SendFetch(c)
    \/ Store(c)
    \/ pc[c] = "answered" /\ FetchFails(c)
    \/ Reread(c)

(* The rest of a lookup, once the cache did not serve it.                  *)
Resolve(c) ==
    \/ SkipRefresh(c)
    \/ SendFetch(c)
    \/ Store(c)
    \/ FetchFails(c)
    \/ Reread(c)

Next ==
    \/ \E c \in Callers : Hit(c) \/ Miss(c)
    \/ \E c \in Callers : Resolve(c)
    \/ \E c \in Callers : Answer(c)
    \/ Rotate
    \/ Tick

Spec == Init /\ [][Next]_vars

(* A goroutine runs on, and a fetch ends at the latest at its deadline.    *)
FairSpec == Spec /\ \A c \in Callers : WF_vars(Resolve(c))

-------------------------------------------------------------------------------
(* Properties.                                                             *)

TypeOK ==
    /\ now \in 0..MaxTime
    /\ docs \in Seq([kids : SUBSET Kids, since : 0..MaxTime])
    /\ Current \in 1..MaxVersions
    /\ version \in 0..Current
    /\ fetchedAt \in 0..now
    /\ pc \in [Callers -> {"idle", "refresh", "sent", "answered", "reread"}]
    /\ kid \in [Callers -> Kids]
    /\ found \in [Callers -> 0..Current]
    /\ sentAt \in [Callers -> 0..now]
    /\ got \in [Callers -> 0..Current]
    /\ verdict \in Verdicts

Longest(a, b) == IF a > b THEN a ELSE b

(* The endpoint served version v at some time from now - d to now.         *)
ServedWithin(v, d) == v = Current \/ docs[v + 1].since + d >= now

(* A key withdrawn from the endpoint stops being accepted: a key accepted  *)
(* by a lookup whose own fetch did not fail was in a set the endpoint      *)
(* served at most max(ttl, minRefresh) and one fetch ago, whatever slower  *)
(* fetches of other goroutines wrote to the cache meanwhile                *)
(* (jwks.go:72-97).                                                        *)
WithdrawnKeyExpires ==
    verdict.result = "accepted" =>
        /\ verdict.kid \in KeysOf(verdict.version)
        /\ ServedWithin(verdict.version, Longest(TTL, MinRefresh) + FetchTimeout)

(* A published key is picked up ("handling key rotation", jwks.go:19): a   *)
(* token is refused for an unknown key only if a set without that key was  *)
(* served at most minRefresh and one fetch ago.                            *)
PublishedKeyIsFound ==
    verdict.result = "unknown" =>
        \E v \in 1..Current : verdict.kid \notin KeysOf(v) /\ ServedWithin(v, MinRefresh + FetchTimeout)

(* Every lookup is decided, however slow the endpoint is (jwks.go:107).    *)
EveryLookupDecided ==
    \A c \in Callers : pc[c] = "refresh" ~> pc[c] = "idle"

(* "floor between refreshes, to avoid hammering" (jwks.go:25): no fetch is *)
(* sent while one sent less than minRefresh ago is under way.              *)
RefreshFloor ==
    [][\A c, d \in Callers :
          /\ pc[c] = "refresh" /\ pc'[c] = "sent"
          /\ d # c /\ pc[d] \in {"sent", "answered"}
          => now - sentAt[d] >= MinRefresh]_vars
===============================================================================
