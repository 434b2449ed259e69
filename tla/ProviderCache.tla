---------------------------- MODULE ProviderCache ----------------------------
(***************************************************************************)
(* The provider cache of internal/oidc: a map from issuer URLs to          *)
(* providers under a sync.RWMutex.  getOIDCProvider looks under the read   *)
(* lock, then again under the write lock, and fetches the provider's       *)
(* metadata over the network while it holds the write lock.                *)
(*                                                                         *)
(* sync.RWMutex is modelled from its contract: Lock first keeps new        *)
(* readers out, then waits for the readers that are in.                    *)
(***************************************************************************)
CONSTANTS
  Request,     \* goroutines that call getOIDCProvider, once each
  Issuer,      \* issuer URLs
  Nobody       \* no request; no provider

ASSUME NobodyAssumption == Nobody \notin Request

VARIABLES
  pc,          \* pc[r]: the statement r runs next
  wants,       \* wants[r]: its argument issuerURL
  readers,     \* the requests that hold the read lock
  writer,      \* the request inside Lock ... Unlock, or Nobody
  cache,       \* providerCache; a provider is named by who fetched it
  got          \* got[r]: the provider r returned

cacheVars == <<pc, wants, readers, writer, cache, got>>

PC == {"rlock", "lookup", "lock", "drain", "recheck", "fetch", "store", "done"}

CacheTypeOK ==
  /\ pc \in [Request -> PC]
  /\ wants \in [Request -> Issuer]
  /\ readers \subseteq Request
  /\ writer \in Request \cup {Nobody}
  /\ cache \in [Issuer -> Request \cup {Nobody}]
  /\ got \in [Request -> Request \cup {Nobody}]

CacheInit ==
  /\ pc = [r \in Request |-> "rlock"]
  /\ wants \in [Request -> Issuer]
  /\ readers = {}
  /\ writer = Nobody
  /\ cache = [i \in Issuer |-> Nobody]
  /\ got = [r \in Request |-> Nobody]

-----------------------------------------------------------------------------
Goto(r, step) == pc' = [pc EXCEPT ![r] = step]

Cached(r) == cache[wants[r]] # Nobody

Give(r, provider) == got' = [got EXCEPT ![r] = provider]

\* Slip: the first look at the map takes no lock.
SlipNoRLock(r) ==
  /\ pc[r] = "rlock"
  /\ Goto(r, "lookup")
  /\ UNCHANGED <<wants, readers, writer, cache, got>>

RLock(r) ==
  /\ pc[r] = "rlock"
  /\ writer = Nobody
  /\ readers' = readers \cup {r}
  /\ Goto(r, "lookup")
  /\ UNCHANGED <<wants, writer, cache, got>>

(* The lookup and RUnlock: a hit is returned.                              *)
Lookup(r) ==
  /\ pc[r] = "lookup"
  /\ readers' = readers \ {r}
  /\ \/ /\ Cached(r)
        /\ Give(r, cache[wants[r]])
        /\ Goto(r, "done")
     \/ /\ ~ Cached(r)
        /\ Goto(r, "lock")
        /\ UNCHANGED got
  /\ UNCHANGED <<wants, writer, cache>>

(* Lock, first half: no reader gets in from now on.                        *)
Lock(r) ==
  /\ pc[r] = "lock"
  /\ writer = Nobody
  /\ writer' = r
  /\ Goto(r, "drain")
  /\ UNCHANGED <<wants, readers, cache, got>>

(* Lock, second half: the readers that were in are out.                    *)
Drain(r) ==
  /\ pc[r] = "drain"
  /\ readers = {}
  /\ Goto(r, "recheck")
  /\ UNCHANGED <<wants, readers, writer, cache, got>>

\* Slip: no second look under the write lock.
SlipNoRecheck(r) ==
  /\ pc[r] = "recheck"
  /\ Goto(r, "fetch")
  /\ UNCHANGED <<wants, readers, writer, cache, got>>

(* The double check.                                                       *)
Recheck(r) ==
  /\ pc[r] = "recheck"
  /\ \/ /\ Cached(r)
        /\ Give(r, cache[wants[r]])
        /\ writer' = Nobody
        /\ Goto(r, "done")
     \/ /\ ~ Cached(r)
        /\ Goto(r, "fetch")
        /\ UNCHANGED <<writer, got>>
  /\ UNCHANGED <<wants, readers, cache>>

(* NewProvider: the network answers ...                                    *)
Fetch(r) ==
  /\ pc[r] = "fetch"
  /\ Goto(r, "store")
  /\ UNCHANGED <<wants, readers, writer, cache, got>>

\* Slip: the error path returns with the lock held.
SlipKeepLock(r) ==
  /\ pc[r] = "fetch"
  /\ Goto(r, "done")
  /\ UNCHANGED <<wants, readers, writer, cache, got>>

(* ... or NewProvider fails, or its context ends: the deferred Unlock.     *)
FetchFails(r) ==
  /\ pc[r] = "fetch"
  /\ writer' = Nobody
  /\ Goto(r, "done")
  /\ UNCHANGED <<wants, readers, cache, got>>

(* The assignment, the return and the deferred Unlock.                     *)
Store(r) ==
  /\ pc[r] = "store"
  /\ cache' = [cache EXCEPT ![wants[r]] = r]
  /\ Give(r, r)
  /\ writer' = Nobody
  /\ Goto(r, "done")
  /\ UNCHANGED <<wants, readers>>

GetProvider(r) ==
  \/ RLock(r)   \/ Lookup(r) \/ Lock(r)       \/ Drain(r)
  \/ Recheck(r) \/ Fetch(r)  \/ FetchFails(r) \/ Store(r)

CacheNext == \E r \in Request : GetProvider(r)

CacheSpec == CacheInit /\ [][CacheNext]_cacheVars

\* Goroutines that can run do run, and NewProvider returns, by its context
\* at the latest (middleware.Timeout in cmd/idpd/main.go).
FairCache == CacheSpec /\ \A r \in Request : WF_cacheVars(GetProvider(r))

-----------------------------------------------------------------------------
\* The statements that touch providerCache, and the one that changes it.
UsesMap(r) == pc[r] \in {"lookup", "recheck", "store"}
ChangesMap(r) == pc[r] = "store"

(* Nobody is at a statement that touches the map when another is at the    *)
(* one that changes it: no data race on providerCache, although the first  *)
(* look, the second and the assignment are under two kinds of lock         *)
(* (oidc/engine.go:331, 339, 347).                                         *)
WriterIsAlone ==
  \A r, q \in Request : ChangesMap(r) /\ UsesMap(q) => r = q

(* Nobody fetches an issuer that is in the cache, however many requests    *)
(* missed it together (oidc/engine.go:339).                                *)
FetchesOnlyWhatIsMissing ==
  \A r \in Request : pc[r] \in {"fetch", "store"} => ~ Cached(r)

(* All requests for an issuer share one provider: what a request was given *)
(* is what the cache holds now and ever after (oidc/engine.go:332, 348).   *)
OneProviderPerIssuer ==
  \A r \in Request : got[r] # Nobody => got[r] = cache[wants[r]]

\* Inside Lock ... Unlock, the readers being out.
Writing(r) == pc[r] \in {"recheck", "fetch", "store"}

(* Why these hold: who holds which lock is known from where it is.         *)
CacheInv ==
  /\ CacheTypeOK
  /\ FetchesOnlyWhatIsMissing
  /\ OneProviderPerIssuer
  /\ \A r \in Request : /\ r \in readers <=> pc[r] = "lookup"
                        /\ writer = r <=> Writing(r) \/ pc[r] = "drain"
                        /\ Writing(r) => readers = {}
                        /\ got[r] # Nobody => pc[r] = "done"

Memo == INSTANCE ProviderMemo

(* The cache implements ProviderMemo: locks and network calls do not show. *)
(* (oidc/engine.go:329-350)                                                *)
IsAMemo == Memo!Spec

(* Every call returns, although the write lock is held across the network  *)
(* call (oidc/engine.go:336-344).                                          *)
CallsReturn == \A r \in Request : <>(pc[r] = "done")
=============================================================================
