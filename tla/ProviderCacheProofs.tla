------------------------- MODULE ProviderCacheProofs -------------------------
(***************************************************************************)
(* Proofs about ProviderCache for any requests and issuers: the invariant, *)
(* and that the cache implements ProviderMemo.                             *)
(***************************************************************************)
EXTENDS ProviderCache, TLAPS

(* The requests start with empty hands and nobody holds a lock.            *)
LEMMA CacheStarts == CacheInit => CacheInv
  BY NobodyAssumption DEF CacheInit, CacheInv, CacheTypeOK, PC,
     FetchesOnlyWhatIsMissing, OneProviderPerIssuer, Writing

(* Every step of a request keeps the invariant.                            *)
LEMMA CacheSteps == CacheInv /\ [CacheNext]_cacheVars => CacheInv'
<1> SUFFICES ASSUME CacheInv, [CacheNext]_cacheVars
             PROVE  CacheInv'
  OBVIOUS
<1> USE NobodyAssumption DEF CacheInv, CacheTypeOK, PC,
        FetchesOnlyWhatIsMissing, OneProviderPerIssuer, Writing, Cached, Goto,
        Give
<1>1. ASSUME NEW r \in Request, RLock(r)      PROVE CacheInv'
  BY <1>1 DEF RLock
<1>2. ASSUME NEW r \in Request, Lookup(r)     PROVE CacheInv'
  BY <1>2 DEF Lookup
<1>3. ASSUME NEW r \in Request, Lock(r)       PROVE CacheInv'
  BY <1>3 DEF Lock
<1>4. ASSUME NEW r \in Request, Drain(r)      PROVE CacheInv'
  BY <1>4 DEF Drain
<1>5. ASSUME NEW r \in Request, Recheck(r)    PROVE CacheInv'
  BY <1>5 DEF Recheck
<1>6. ASSUME NEW r \in Request, Fetch(r)      PROVE CacheInv'
  BY <1>6 DEF Fetch
<1>7. ASSUME NEW r \in Request, FetchFails(r) PROVE CacheInv'
  BY <1>7 DEF FetchFails
<1>8. ASSUME NEW r \in Request, Store(r)      PROVE CacheInv'
  BY <1>8 DEF Store
<1>9. CASE UNCHANGED cacheVars
  BY <1>9 DEF cacheVars
<1> QED BY <1>1, <1>2, <1>3, <1>4, <1>5, <1>6, <1>7, <1>8, <1>9
        DEF CacheNext, GetProvider

(* The invariant that carries all others: which lock a request holds       *)
(* follows from the statement it is at (oidc/engine.go:330-348).           *)
THEOREM CacheInvariant == CacheSpec => []CacheInv
  BY CacheStarts, CacheSteps, PTL DEF CacheSpec

(* Readers and writers of providerCache exclude each other: whoever is at  *)
(* the assignment holds the write lock, whoever looks holds either         *)
(* (oidc/engine.go:330-348).                                               *)
THEOREM CacheHasNoRace == CacheSpec => []WriterIsAlone
<1>1. CacheInv => WriterIsAlone
  <2> SUFFICES ASSUME CacheInv, NEW r \in Request, NEW q \in Request,
                      ChangesMap(r), UsesMap(q)
               PROVE  r = q
    BY DEF WriterIsAlone
  <2>1. writer = r /\ q \notin readers
    BY DEF CacheInv, ChangesMap, Writing
  <2>2. writer = q
    BY <2>1 DEF CacheInv, UsesMap, Writing
  <2> QED BY <2>1, <2>2
<1> QED BY <1>1, CacheInvariant, PTL

(* The second look under the write lock saves every needless fetch         *)
(* (oidc/engine.go:339).                                                   *)
THEOREM CacheFetchesOnce == CacheSpec => []FetchesOnlyWhatIsMissing
<1>1. CacheInv => FetchesOnlyWhatIsMissing
  BY DEF CacheInv
<1> QED BY <1>1, CacheInvariant, PTL

(* Whoever asks for an issuer gets the one provider that stays in the map  *)
(* (oidc/engine.go:332, 348).                                              *)
THEOREM CacheAgrees == CacheSpec => []OneProviderPerIssuer
<1>1. CacheInv => OneProviderPerIssuer
  BY DEF CacheInv
<1> QED BY <1>1, CacheInvariant, PTL

-----------------------------------------------------------------------------
(* A step of the cache is a step of the memo, or does not show.            *)
LEMMA CacheRefines ==
  CacheInv /\ [CacheNext]_cacheVars => [Memo!Next]_(Memo!vars)
<1> SUFFICES ASSUME CacheInv, [CacheNext]_cacheVars
             PROVE  [Memo!Next]_(Memo!vars)
  OBVIOUS
<1> USE DEF Memo!vars
<1>1. ASSUME NEW r \in Request, Cached(r), Give(r, cache[wants[r]]),
             got[r] = Nobody, UNCHANGED <<wants, cache>>
      PROVE  Memo!Next
  BY <1>1 DEF Cached, Give, Memo!Next, Memo!Find
<1>2. ASSUME NEW r \in Request, Lookup(r)
      PROVE  [Memo!Next]_(Memo!vars)
  BY <1>1, <1>2 DEF Lookup, CacheInv
<1>3. ASSUME NEW r \in Request, Recheck(r)
      PROVE  [Memo!Next]_(Memo!vars)
  BY <1>1, <1>3 DEF Recheck, CacheInv
<1>4. ASSUME NEW r \in Request, Store(r)
      PROVE  Memo!Next
  <2>1. got[r] = Nobody /\ cache[wants[r]] = Nobody
    BY <1>4 DEF Store, CacheInv, FetchesOnlyWhatIsMissing, Cached
  <2> QED BY <1>4, <2>1 DEF Store, Give, Memo!Next, Memo!Load
<1>5. ASSUME NEW r \in Request,
             RLock(r) \/ Lock(r) \/ Drain(r) \/ Fetch(r) \/ FetchFails(r)
      PROVE  UNCHANGED Memo!vars
  BY <1>5 DEF RLock, Lock, Drain, Fetch, FetchFails
<1>6. CASE UNCHANGED cacheVars
  BY <1>6 DEF cacheVars
<1> QED BY <1>2, <1>3, <1>4, <1>5, <1>6 DEF CacheNext, GetProvider

(* The double-checked cache is indistinguishable from one indivisible      *)
(* look-up-or-load (oidc/engine.go:329-350).                               *)
THEOREM CacheImplementsMemo == CacheSpec => IsAMemo
<1>1. CacheInit => Memo!Init
  BY DEF CacheInit, Memo!Init
<1> QED BY <1>1, CacheRefines, CacheInvariant, PTL
        DEF CacheSpec, IsAMemo, Memo!Spec
=============================================================================
