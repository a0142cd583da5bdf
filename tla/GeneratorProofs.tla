---------------------------- MODULE GeneratorProofs ----------------------------
(***************************************************************************)
(* For any number of calls, any arguments, caches and lifespans, and any   *)
(* width of the integers: the types of Generator, what a token may be,     *)
(* when two calls share one, what makes a call panic, and the bound on the *)
(* cache.                                                                  *)
(***************************************************************************)
EXTENDS Generator, FiniteSetTheorems, TLAPS

USE GeneratorAssumption

\* What holds of a call between two steps of it: its claims are those it asked
\* for, and it has ended once, in the last step.
CallInv(c) ==
  /\ pc[c] # "done" => outcome(c) = "pending"
  /\ pc[c] \notin {"build", "done"} \/ outcome(c) = "token" =>
       /\ claims[c] \in Claims /\ claims[c].jti = c
       /\ claims[c].aud = req[c].aud /\ claims[c].extra = req[c].extra

CallsInv == \A c \in Calls : CallInv(c)

\* The token of a call is its own, or one that was in the cache for it.
TokenInv(c) ==
  outcome(c) = "token" =>
    /\ token(c) \in Claims /\ CacheKey(token(c)) = CacheKey(claims[c])
    /\ token(c).jti = c \/ token(c) \in cachedFor[c]

TokensInv == \A c \in Calls : TokenInv(c)

\* A token is in the cache under its own key.
KeysInv == cache # None => \A e \in cache.entries : e.key = CacheKey(e.token)

\* Whoever is about to use the cache has it, unless it was disabled meanwhile.
UnwrapInv ==
  /\ cache_poisoned => torn
  /\ cache = None /\ ~torn => \A c \in Calls : pc[c] \notin {"lookup", "store"}

SizeInv == cache # None =>
  IsFiniteSet(cache.entries) /\ Cardinality(cache.entries) <= cache.max_count

-------------------------------------------------------------------------------
LEMMA Arithmetic == TypeOK => now \in Int /\ Wrap(now + lifespan) \in Int
BY Int64Assumption DEF TypeOK, now, Wrap, I64

LEMMA KeyTypes == ASSUME NEW cl \in Claims PROVE CacheKey(cl) \in CacheKeys
BY DEF CacheKey, Claims, CacheKeys

\* Putting the entries of the cache in place leaves a cache with its settings.
LEMMA CacheUpdated ==
  ASSUME TypeOK, cache # None, NEW X \in SUBSET Entries,
         cache' = [cache EXCEPT !.entries = X]
  PROVE  /\ cache' \in LruCaches /\ cache' # None
         /\ cache'.entries = X /\ cache'.max_count = cache.max_count
BY DEF TypeOK, LruCaches

\* What is left of the cache after it was used.
LEMMA KeptTypes == TypeOK /\ cache # None =>
  Kept \subseteq cache.entries /\ cache.entries \subseteq Entries
BY DEF TypeOK, Kept, LruCaches

\* An insertion adds one entry to some of those that were left.
LEMMA InsertedFrom ==
  ASSUME NEW e, NEW X \in Inserted(e)
  PROVE  /\ e \in X
         /\ \A f \in X : f = e \/ f \in Kept
BY DEF Inserted

-------------------------------------------------------------------------------
\* A step of one call leaves the other calls alone, and the rest leaves them all
\* alone.
LEMMA StepIsLocal ==
  ASSUME TypeOK, NEW c \in Calls, Step(c), NEW d \in Calls, d # c
  PROVE  /\ req' = req
         /\ pc'[d] = pc[d] /\ claims'[d] = claims[d]
         /\ end'[d] = end[d] /\ cachedFor'[d] = cachedFor[d]
<1> USE DEF TypeOK, builder, tokens, locals, Goto, End
<1>1. CASE BuildPoisoned(c) \/ BuildOverflows(c) \/ Build(c)
  BY <1>1 DEF BuildPoisoned, BuildOverflows, Build
<1>2. CASE CheckEnabled(c) \/ CachePoisoned(c) \/ UnwrapNone(c)
  BY <1>2 DEF CheckEnabled, CachePoisoned, UnwrapNone
<1>3. CASE LookupHit(c) \/ LookupMiss(c)
  BY <1>3 DEF LookupHit, LookupMiss
<1>4. CASE SignFails(c) \/ Store(c) \/ Sign(c)
  BY <1>4 DEF SignFails, Store, Sign
<1> QED BY <1>1, <1>2, <1>3, <1>4 DEF Step

Administration ==
  \/ \E settings \in Caches : enable_token_caching(settings)
  \/ disable_token_caching
  \/ \E seconds \in Lifespans : set_max_lifespan(seconds)
  \/ Tick \/ Finished \/ UNCHANGED vars

LEMMA Steps == [Next]_vars => Administration \/ \E c \in Calls : Step(c)
BY DEF Next, Administration

LEMMA OthersAreLocal == Administration => UNCHANGED <<req, pc, claims, end, cachedFor>>
BY DEF Administration, enable_token_caching, disable_token_caching, set_max_lifespan,
       Tick, Finished, vars, locals

-------------------------------------------------------------------------------
\* What the three steps that use the cache leave in it.
UpdatedTo(X) ==
  /\ cache # None /\ cache' # None
  /\ cache' \in LruCaches /\ cache'.entries = X /\ cache'.max_count = cache.max_count

LEMMA HitUpdates ==
  ASSUME TypeOK, NEW c \in Calls, LookupHit(c)
  PROVE  \E e \in Found(CacheKey(claims[c])) :
           LET f == [e EXCEPT !.when = clock] IN
             /\ e \in cache.entries /\ e \in Entries
             /\ f \in Entries /\ f.key = e.key /\ f.token = e.token
             /\ UpdatedTo((Kept \ {e}) \cup {f}) /\ End(c, "token", e.token)
<1>1. PICK e \in Found(CacheKey(claims[c])) :
        /\ cache' = [cache EXCEPT !.entries = (Kept \ {e}) \cup {[e EXCEPT !.when = clock]}]
        /\ End(c, "token", e.token)
  BY DEF LookupHit
<1> DEFINE f == [e EXCEPT !.when = clock]
           X == (Kept \ {e}) \cup {f}
<1>2. cache # None /\ e \in cache.entries /\ e \in Entries
  BY KeptTypes DEF LookupHit, Locked, Found
<1>3. f \in Entries /\ f.key = e.key /\ f.token = e.token
  BY <1>2 DEF Entries, TypeOK
<1>4. X \in SUBSET Entries
  BY <1>2, <1>3, KeptTypes
<1>5. cache' = [cache EXCEPT !.entries = X]
  BY <1>1
<1> HIDE DEF X
<1>6. UpdatedTo(X)
  BY <1>2, <1>4, <1>5, CacheUpdated DEF UpdatedTo
<1> QED BY <1>1, <1>2, <1>3, <1>6 DEF X

LEMMA MissUpdates ==
  ASSUME TypeOK, NEW c \in Calls, LookupMiss(c)
  PROVE  UpdatedTo(Kept)
BY KeptTypes, CacheUpdated DEF LookupMiss, Locked, UpdatedTo

LEMMA StoreUpdates ==
  ASSUME TypeOK, CallsInv, NEW c \in Calls, Store(c)
  PROVE  \E e \in Entries :
           /\ e.key = CacheKey(e.token) /\ e.token = claims[c]
           /\ \E X \in Inserted(e) : UpdatedTo(X)
<1> DEFINE e == [key |-> CacheKey(claims[c]), token |-> claims[c], when |-> clock]
<1>1. PICK X \in Inserted(e) : cache' = [cache EXCEPT !.entries = X]
  BY DEF Store
<1>2. cache # None /\ claims[c] \in Claims
  BY DEF Store, Locked, CallsInv, CallInv
<1>3. e \in Entries /\ e.key = CacheKey(e.token) /\ e.token = claims[c]
  BY <1>2, KeyTypes DEF Entries, TypeOK
<1> HIDE DEF e
<1>4. X \in SUBSET Entries
  BY <1>2, <1>3, KeptTypes, InsertedFrom
<1>5. UpdatedTo(X)
  BY <1>1, <1>2, <1>4, CacheUpdated DEF UpdatedTo
<1> QED BY <1>3, <1>5

CallTypes ==
  /\ pc \in [Calls -> {"build", "check", "lookup", "store", "sign", "done"}]
  /\ end \in [Calls -> [outcome : {"pending", "token", "error", "panic"},
                        token : Claims \cup {None}]]

LEMMA EndTypes ==
  ASSUME TypeOK, NEW c \in Calls, NEW how \in {"token", "error", "panic"},
         NEW cl \in Claims \cup {None}, End(c, how, cl)
  PROVE  CallTypes'
BY DEF TypeOK, End, CallTypes

LEMMA GotoTypes ==
  ASSUME TypeOK, NEW c \in Calls, Goto(c, "check") \/ Goto(c, "lookup")
                                  \/ Goto(c, "store") \/ Goto(c, "sign")
  PROVE  CallTypes'
BY DEF TypeOK, Goto, CallTypes

LEMMA TypesHold ==
  ASSUME TypeOK, CallsInv, [Next]_vars
  PROVE  TypeOK'
<1> USE DEF builder, tokens, locals
<1>1. ASSUME NEW c \in Calls, Step(c) PROVE TypeOK'
  <2> USE DEF CallTypes
  <2>1. CASE BuildPoisoned(c) \/ BuildOverflows(c)
    BY <2>1, EndTypes DEF TypeOK, BuildPoisoned, BuildOverflows
  <2>2. CASE Build(c)
    <3>1. [aud |-> req[c].aud, extra |-> req[c].extra, iat |-> now,
           exp |-> Wrap(now + lifespan), jti |-> c] \in Claims
      BY Arithmetic DEF TypeOK, Claims
    <3> QED BY <2>2, <3>1, GotoTypes DEF TypeOK, Build
  <2>3. CASE CheckEnabled(c) \/ CachePoisoned(c) \/ UnwrapNone(c)
    <3>1. CallTypes'
      BY <2>3, EndTypes, GotoTypes DEF CheckEnabled, CachePoisoned, UnwrapNone
    <3> QED BY <2>3, <3>1 DEF TypeOK, CheckEnabled, CachePoisoned, UnwrapNone
  <2>4. ASSUME cache # None PROVE Reusable(c) \subseteq Claims
    BY <2>4, KeptTypes DEF Reusable, Entries
  <2>5. CASE LookupHit(c)
    <3>1. PICK e \in Entries : End(c, "token", e.token) /\ cache # None /\ cache' \in LruCaches
      BY <2>5, HitUpdates DEF UpdatedTo
    <3>2. cachedFor' \in [Calls -> SUBSET Claims]
      BY <2>4, <2>5, <3>1 DEF LookupHit, TypeOK
    <3>3. CallTypes'
      BY <3>1, EndTypes DEF Entries
    <3> QED BY <2>5, <3>1, <3>2, <3>3 DEF TypeOK, LookupHit
  <2>6. CASE LookupMiss(c)
    <3>1. cache # None /\ cache' \in LruCaches
      BY <2>6, MissUpdates DEF UpdatedTo
    <3>2. cachedFor' \in [Calls -> SUBSET Claims]
      BY <2>4, <2>6, <3>1 DEF LookupMiss, TypeOK
    <3> QED BY <2>6, <3>1, <3>2, GotoTypes DEF TypeOK, LookupMiss
  <2>7. CASE Store(c)
    <3>1. cache' \in LruCaches /\ claims[c] \in Claims
      BY <2>7, StoreUpdates DEF UpdatedTo, Entries
    <3> QED BY <2>7, <3>1, EndTypes DEF TypeOK, Store
  <2>8. CASE SignFails(c) \/ Sign(c)
    <3>1. pc[c] = "sign" => claims[c] \in Claims
      BY DEF CallsInv, CallInv
    <3> QED BY <2>8, <3>1, EndTypes DEF TypeOK, SignFails, Sign
  <2> QED BY <1>1, <2>1, <2>2, <2>3, <2>5, <2>6, <2>7, <2>8 DEF Step
<1>2. ASSUME NEW settings \in Caches, enable_token_caching(settings) PROVE TypeOK'
  BY <1>2 DEF TypeOK, enable_token_caching, LruCaches
<1>3. CASE disable_token_caching
  BY <1>3 DEF TypeOK, disable_token_caching
<1>4. ASSUME NEW seconds \in Lifespans, set_max_lifespan(seconds) PROVE TypeOK'
  BY <1>4 DEF TypeOK, set_max_lifespan
<1>5. CASE Tick
  BY <1>5 DEF TypeOK, Tick
<1>6. CASE Finished \/ UNCHANGED vars
  BY <1>6 DEF TypeOK, Finished, vars
<1> QED BY <1>1, <1>2, <1>3, <1>4, <1>5, <1>6 DEF Next

LEMMA CallsHold ==
  ASSUME TypeOK, CallsInv, [Next]_vars
  PROVE  CallsInv'
<1>1. ASSUME NEW c \in Calls, Step(c) PROVE CallsInv'
  <2>1. ASSUME NEW d \in Calls, d # c PROVE CallInv(d)'
    BY <1>1, <2>1, StepIsLocal DEF CallsInv, CallInv, outcome
  <2>2. CallInv(c)'
    <3> USE DEF TypeOK, CallsInv, CallInv, outcome, Goto, End
    <3>1. CASE BuildPoisoned(c) \/ BuildOverflows(c)
      BY <3>1 DEF BuildPoisoned, BuildOverflows
    <3>2. CASE Build(c)
      <4> DEFINE cl == [aud |-> req[c].aud, extra |-> req[c].extra, iat |-> now,
                        exp |-> Wrap(now + lifespan), jti |-> c]
      <4>1. cl \in Claims
        BY Arithmetic DEF Claims
      <4>2. cl.jti = c /\ cl.aud = req[c].aud /\ cl.extra = req[c].extra
        OBVIOUS
      <4>3. claims' = [claims EXCEPT ![c] = cl]
        BY <3>2 DEF Build
      <4> HIDE DEF cl
      <4> QED BY <3>2, <4>1, <4>2, <4>3 DEF Build
    <3>3. CASE CheckEnabled(c) \/ CachePoisoned(c) \/ UnwrapNone(c)
      BY <3>3 DEF CheckEnabled, CachePoisoned, UnwrapNone
    <3>4. CASE LookupHit(c) \/ LookupMiss(c)
      BY <3>4 DEF LookupHit, LookupMiss, Locked
    <3>5. CASE SignFails(c) \/ Store(c) \/ Sign(c)
      BY <3>5 DEF SignFails, Store, Sign, Locked
    <3> QED BY <1>1, <3>1, <3>2, <3>3, <3>4, <3>5 DEF Step
  <2> QED BY <2>1, <2>2 DEF CallsInv
<1>2. CASE Administration
  BY <1>2, OthersAreLocal DEF CallsInv, CallInv, outcome
<1> QED BY <1>1, <1>2, Steps

LEMMA Invariant == Spec => [](TypeOK /\ CallsInv)
<1>1. Init => TypeOK /\ CallsInv
  <2>1. Init => TypeOK
    <3> SUFFICES ASSUME Init PROVE TypeOK
      OBVIOUS
    <3>1. cachedFor \in [Calls -> SUBSET Claims]
      BY DEF Init
    <3>2. [outcome |-> "pending", token |-> None] \in
            [outcome : {"pending", "token", "error", "panic"}, token : Claims \cup {None}]
      OBVIOUS
    <3>3. CallTypes
      BY <3>2 DEF Init, CallTypes
    <3> QED BY <3>1, <3>3 DEF Init, TypeOK, CallTypes
  <2>2. Init => CallsInv
    BY DEF Init, CallsInv, CallInv, outcome
  <2> QED BY <2>1, <2>2
<1> QED BY <1>1, TypesHold, CallsHold, PTL DEF Spec

\* The types, for any arguments, caches and lifespans.
THEOREM TypeCorrect == Spec => []TypeOK
BY Invariant, PTL
-------------------------------------------------------------------------------
\* Entries keep their key and token while they are in the cache, and a call that
\* ends with a token has found it there under its own key, or made it.
LEMMA FoundIsReusable ==
  ASSUME TypeOK, KeysInv, cache # None, NEW c \in Calls, CallInv(c), pc[c] = "lookup",
         NEW e \in Found(CacheKey(claims[c]))
  PROVE  /\ e \in cache.entries /\ e \in Kept
         /\ e.token \in Claims /\ CacheKey(e.token) = CacheKey(claims[c])
         /\ e.token \in Reusable(c)
<1>1. e \in Kept /\ e \in cache.entries /\ e \in Entries /\ e.key = CacheKey(claims[c])
  BY KeptTypes DEF Found
<1>2. e.key = CacheKey(e.token) /\ e.token \in Claims
  BY <1>1 DEF KeysInv, Entries
<1>3. /\ e.key.aud = req[c].aud /\ e.key.extra = req[c].extra
      /\ e.key.iat = claims[c].iat /\ e.key.exp = claims[c].exp
  BY <1>1 DEF CallInv, CacheKey
<1> QED BY <1>1, <1>2, <1>3 DEF Reusable

LEMMA KeysHold ==
  ASSUME TypeOK, CallsInv, KeysInv, [Next]_vars
  PROVE  KeysInv'
<1> USE DEF tokens
<1>1. ASSUME NEW c \in Calls, Step(c) PROVE KeysInv'
  <2>1. ASSUME UNCHANGED cache PROVE KeysInv'
    BY <2>1 DEF KeysInv
  <2>2. CASE LookupHit(c)
    <3>1. PICK e \in cache.entries : \E f \in Entries :
            /\ f.key = e.key /\ f.token = e.token
            /\ UpdatedTo((Kept \ {e}) \cup {f})
      BY <2>2, HitUpdates
    <3> QED BY <3>1, KeptTypes DEF KeysInv, UpdatedTo
  <2>3. CASE LookupMiss(c)
    BY <2>3, MissUpdates, KeptTypes DEF KeysInv, UpdatedTo
  <2>4. CASE Store(c)
    BY <2>4, StoreUpdates, InsertedFrom, KeptTypes DEF KeysInv, UpdatedTo
  <2>5. \/ UNCHANGED cache \/ LookupHit(c) \/ LookupMiss(c) \/ Store(c)
    BY <1>1 DEF Step, BuildPoisoned, BuildOverflows, Build, CheckEnabled, CachePoisoned,
       UnwrapNone, SignFails, Sign
  <2> QED BY <2>1, <2>2, <2>3, <2>4, <2>5
<1>2. ASSUME NEW settings \in Caches, enable_token_caching(settings) PROVE KeysInv'
  BY <1>2 DEF KeysInv, enable_token_caching
<1>3. CASE disable_token_caching
  BY <1>3 DEF KeysInv, disable_token_caching
<1>4. ASSUME UNCHANGED cache PROVE KeysInv'
  BY <1>4 DEF KeysInv
<1>5. ASSUME NEW seconds \in Lifespans, set_max_lifespan(seconds) PROVE UNCHANGED cache
  BY <1>5 DEF set_max_lifespan
<1>6. Tick \/ Finished \/ UNCHANGED vars => UNCHANGED cache
  BY DEF Tick, Finished, vars
<1> QED BY <1>1, <1>2, <1>3, <1>4, <1>5, <1>6 DEF Next

LEMMA TokensHold ==
  ASSUME TypeOK, CallsInv, KeysInv, TokensInv, [Next]_vars
  PROVE  TokensInv'
<1>1. ASSUME NEW c \in Calls, Step(c) PROVE TokensInv'
  <2>1. ASSUME NEW d \in Calls, d # c PROVE TokenInv(d)'
    BY <1>1, <2>1, StepIsLocal DEF TokensInv, TokenInv, outcome, token, CacheKey
  <2>2. TokenInv(c)'
    <3> USE DEF TypeOK, TokenInv, outcome, token, Goto, End
    <3>0. CallInv(c) /\ TokenInv(c)
      BY DEF CallsInv, TokensInv
    <3>1. CASE BuildPoisoned(c) \/ BuildOverflows(c)
      BY <3>1 DEF BuildPoisoned, BuildOverflows
    <3>2. CASE Build(c)
      BY <3>0, <3>2 DEF Build, CallInv
    <3>3. CASE CheckEnabled(c) \/ CachePoisoned(c) \/ UnwrapNone(c)
      BY <3>0, <3>3 DEF CheckEnabled, CachePoisoned, UnwrapNone, CallInv
    <3>4. CASE LookupHit(c)
      <4>1. PICK e \in Found(CacheKey(claims[c])) : End(c, "token", e.token)
        BY <3>4 DEF LookupHit
      <4>2. /\ e.token \in Claims /\ CacheKey(e.token) = CacheKey(claims[c])
            /\ e.token \in Reusable(c)
        BY <3>0, <3>4, FoundIsReusable DEF LookupHit, Locked
      <4>3. end'[c].token = e.token /\ claims' = claims /\ cachedFor'[c] = Reusable(c)
        BY <3>4, <4>1 DEF LookupHit
      <4> QED BY <4>2, <4>3 DEF CacheKey
    <3>5. CASE LookupMiss(c)
      BY <3>0, <3>5 DEF LookupMiss, Locked, CallInv
    <3>6. CASE SignFails(c) \/ Store(c) \/ Sign(c)
      BY <3>0, <3>6 DEF SignFails, Store, Sign, Locked, CallInv
    <3> QED BY <1>1, <3>1, <3>2, <3>3, <3>4, <3>5, <3>6 DEF Step
  <2> QED BY <2>1, <2>2 DEF TokensInv
<1>2. CASE Administration
  BY <1>2, OthersAreLocal DEF TokensInv, TokenInv, outcome, token, CacheKey
<1> QED BY <1>1, <1>2, Steps

LEMMA TokensInvariant == Spec => [](TypeOK /\ CallsInv /\ KeysInv /\ TokensInv)
<1>1. Init => TokensInv /\ KeysInv
  BY DEF Init, TokensInv, TokenInv, KeysInv, outcome
<1> QED BY <1>1, KeysHold, TokensHold, Invariant, PTL DEF Spec

(***************************************************************************)
(* A token, new or cached, is for the audience, the extra claims and the   *)
(* times its caller asked for (generator.rs 312-350).                      *)
(***************************************************************************)
THEOREM TokensFit == Spec => []TokenFitsRequest
<1>1. CallsInv /\ TokensInv => TokenFitsRequest
  BY DEF CallsInv, CallInv, TokensInv, TokenInv, TokenFitsRequest, CacheKey
<1> QED BY <1>1, TokensInvariant, PTL

(***************************************************************************)
(* Two calls have one token, nonce included, only when one of them found   *)
(* it in the cache, and in the same second (generator.rs 177).             *)
(***************************************************************************)
THEOREM SharingNeedsCache == Spec => []SharedOnlyThroughCache
<1>1. CallsInv /\ TokensInv => SharedOnlyThroughCache
  <2> SUFFICES ASSUME CallsInv, TokensInv, NEW c \in Calls, NEW d \in Calls, c # d,
                      outcome(c) = "token", outcome(d) = "token", token(c) = token(d)
               PROVE  /\ token(c) \in cachedFor[c] \cup cachedFor[d]
                      /\ claims[c].iat = claims[d].iat
    BY DEF SharedOnlyThroughCache
  <2>1. TokenInv(c) /\ TokenInv(d)
    BY DEF TokensInv
  <2> QED BY <2>1 DEF TokenInv, CacheKey
<1> QED BY <1>1, TokensInvariant, PTL
-------------------------------------------------------------------------------
SameTimes(t, c) == t.iat = claims[c].iat /\ t.exp = claims[c].exp

\* A call that goes on to store its token has found none that it could have used.
MissInv(c) ==
  /\ pc[c] \in {"build", "check", "lookup", "sign"} => cachedFor[c] = {}
  /\ pc[c] = "store" => \A t \in cachedFor[c] : ~SameTimes(t, c)
  /\ outcome(c) = "token" /\ (\E t \in cachedFor[c] : SameTimes(t, c))
       => token(c) \in cachedFor[c]

MissesInv == \A c \in Calls : MissInv(c)

\* A token for the arguments of a call, with its times, is under the key it looks up.
LEMMA ReusableIsFound ==
  ASSUME TypeOK, KeysInv, cache # None, NEW c \in Calls, CallInv(c), pc[c] = "lookup",
         NEW t \in Reusable(c), SameTimes(t, c)
  PROVE  Found(CacheKey(claims[c])) # {}
<1>1. PICK e \in Kept : /\ e.token = t /\ e.key.aud = req[c].aud
                        /\ e.key.extra = req[c].extra
  BY DEF Reusable
<1>2. e \in Entries /\ e.key = CacheKey(t)
  BY <1>1, KeptTypes DEF KeysInv
<1>3. claims[c].aud = req[c].aud /\ claims[c].extra = req[c].extra
  BY DEF CallInv
<1>4. e.key = CacheKey(claims[c])
  BY <1>1, <1>2, <1>3 DEF CacheKey, SameTimes
<1> QED BY <1>1, <1>4 DEF Found

(***************************************************************************)
(* A call signs a token only if the cache held none with its arguments and *)
(* its times when it looked (claims.rs 126-135, generator.rs 319-343).     *)
(***************************************************************************)
THEOREM CachedInItsSecond == Spec => []CachedWithinSecond
<1>1. Init => MissesInv
  BY DEF Init, MissesInv, MissInv, outcome
<1>2. TypeOK /\ CallsInv /\ KeysInv /\ MissesInv /\ [Next]_vars => MissesInv'
  <2> SUFFICES ASSUME TypeOK, CallsInv, KeysInv, MissesInv, [Next]_vars PROVE MissesInv'
    OBVIOUS
  <2>1. ASSUME NEW c \in Calls, Step(c) PROVE MissesInv'
    <3>1. ASSUME NEW d \in Calls, d # c PROVE MissInv(d)'
      BY <2>1, <3>1, StepIsLocal DEF MissesInv, MissInv, SameTimes, outcome, token
    <3>2. MissInv(c)'
      <4> USE DEF TypeOK, MissInv, SameTimes, outcome, token, Goto, End
      <4>0. CallInv(c) /\ MissInv(c)
        BY DEF CallsInv, MissesInv
      <4>1. CASE BuildPoisoned(c) \/ BuildOverflows(c) \/ Build(c)
        BY <4>0, <4>1 DEF BuildPoisoned, BuildOverflows, Build, CallInv
      <4>2. CASE CheckEnabled(c) \/ CachePoisoned(c) \/ UnwrapNone(c)
        BY <4>0, <4>2 DEF CheckEnabled, CachePoisoned, UnwrapNone, CallInv
      <4>3. CASE LookupHit(c)
        <5>1. PICK e \in Found(CacheKey(claims[c])) : End(c, "token", e.token)
          BY <4>3 DEF LookupHit
        <5>2. e.token \in Reusable(c)
          BY <4>0, <4>3, FoundIsReusable DEF LookupHit, Locked
        <5> QED BY <4>3, <5>1, <5>2 DEF LookupHit
      <4>4. CASE LookupMiss(c)
        <5>1. \A t \in Reusable(c) : ~SameTimes(t, c)
          BY <4>0, <4>4, ReusableIsFound DEF LookupMiss, Locked
        <5> QED BY <4>0, <4>4, <5>1 DEF LookupMiss, Locked, CallInv
      <4>5. CASE SignFails(c) \/ Store(c) \/ Sign(c)
        BY <4>0, <4>5 DEF SignFails, Store, Sign, Locked
      <4> QED BY <2>1, <4>1, <4>2, <4>3, <4>4, <4>5 DEF Step
    <3> QED BY <3>1, <3>2 DEF MissesInv
  <2>2. CASE Administration
    BY <2>2, OthersAreLocal DEF MissesInv, MissInv, SameTimes, outcome, token
  <2> QED BY <2>1, <2>2, Steps
<1>3. MissesInv => CachedWithinSecond
  BY DEF MissesInv, MissInv, SameTimes, CachedWithinSecond
<1> QED BY <1>1, <1>2, <1>3, TokensInvariant, PTL DEF Spec

-------------------------------------------------------------------------------
\* A cache that a call has seen is there until it is disabled under the call; with that,
\* what makes a call panic.
LEMMA PanicInvariant == Spec => [](UnwrapInv /\ PanicsAreExplained)
<1> DEFINE Inv == UnwrapInv /\ PanicsAreExplained
<1>1. Init => Inv
  BY DEF Init, UnwrapInv, PanicsAreExplained, outcome
<1>2. TypeOK /\ CallsInv /\ Inv /\ [Next]_vars => Inv'
  <2> SUFFICES ASSUME TypeOK, CallsInv, Inv, [Next]_vars PROVE Inv'
    OBVIOUS
  <2> USE DEF UnwrapInv, PanicsAreExplained, outcome, builder, tokens, locals
  <2>1. ASSUME NEW c \in Calls, Step(c) PROVE Inv'
    <3> USE DEF Goto, End, TypeOK
    <3>1. CASE BuildPoisoned(c) \/ BuildOverflows(c) \/ Build(c)
      BY <3>1 DEF BuildPoisoned, BuildOverflows, Build
    <3>2. CASE CheckEnabled(c)
      BY <3>2 DEF CheckEnabled, Enabled
    <3>3. CASE CachePoisoned(c) \/ UnwrapNone(c)
      BY <3>3 DEF CachePoisoned, UnwrapNone
    <3>4. LookupHit(c) \/ LookupMiss(c) \/ Store(c) => cache' # None
      BY HitUpdates, MissUpdates, StoreUpdates DEF UpdatedTo
    <3>5. CASE LookupHit(c) \/ LookupMiss(c) \/ Store(c)
      <4>1. /\ UNCHANGED <<builder_poisoned, cache_poisoned, torn>>
            /\ \E cl : End(c, "token", cl) \/ Goto(c, "store")
        BY <3>5 DEF LookupHit, LookupMiss, Store
      <4>2. \A d \in Calls : end'[d].outcome = "panic" => end[d].outcome = "panic"
        BY <4>1
      <4> QED BY <3>4, <3>5, <4>1, <4>2
    <3>6. CASE SignFails(c) \/ Sign(c)
      BY <3>6 DEF SignFails, Sign
    <3> QED BY <2>1, <3>1, <3>2, <3>3, <3>5, <3>6 DEF Step
  <2>2. ASSUME NEW settings \in Caches, enable_token_caching(settings) PROVE Inv'
    BY <2>2 DEF enable_token_caching, LruCaches
  <2>3. CASE disable_token_caching
    BY <2>3 DEF disable_token_caching
  <2>4. ASSUME NEW seconds \in Lifespans, set_max_lifespan(seconds) PROVE Inv'
    BY <2>4 DEF set_max_lifespan
  <2>5. CASE Tick
    BY <2>5 DEF Tick
  <2>6. CASE Finished \/ UNCHANGED vars
    BY <2>6 DEF Finished, vars
  <2> QED BY <2>1, <2>2, <2>3, <2>4, <2>5, <2>6 DEF Next
<1> QED BY <1>1, <1>2, Invariant, PTL DEF Spec

(***************************************************************************)
(* What makes a call panic: an overflow, or the cache that was disabled    *)
(* under a call that had seen it (generator.rs 319-343, claims.rs 167).    *)
(***************************************************************************)
THEOREM PanicsExplained == Spec => []PanicsAreExplained
BY PanicInvariant, PTL

\* The cache is disabled only while no call has seen it enabled.
DisabledBetweenCalls ==
  [][disable_token_caching => \A c \in Calls : pc[c] \notin {"lookup", "store"}]_vars

\* `unwrap` is then right to take the cache for granted (generator.rs 328, 341).
THEOREM UnwrapIsSafe == Spec /\ DisabledBetweenCalls => []CacheStillThere
<1> DEFINE Safely == disable_token_caching => \A c \in Calls : pc[c] \notin {"lookup", "store"}
<1>1. Init => ~torn
  BY DEF Init
<1>2. ~torn /\ [Next]_vars /\ [Safely]_vars => ~torn'
  BY DEF Next, Step, BuildPoisoned, BuildOverflows, Build, CheckEnabled, CachePoisoned, UnwrapNone,
         LookupHit, LookupMiss, SignFails, Store, Sign, enable_token_caching,
         disable_token_caching, set_max_lifespan, Tick, Finished, vars
<1>3. ~torn /\ UnwrapInv => CacheStillThere
  BY DEF UnwrapInv, CacheStillThere
<1> QED BY <1>1, <1>2, <1>3, PanicInvariant, PTL DEF Spec, DisabledBetweenCalls

-------------------------------------------------------------------------------
LEMMA OneMore ==
  ASSUME NEW T, IsFiniteSet(T), NEW x
  PROVE  IsFiniteSet(T \cup {x}) /\ Cardinality(T \cup {x}) <= Cardinality(T) + 1
<1>1. Cardinality(T) \in Nat
  BY FS_CardinalityType
<1>2. CASE x \in T
  <2>1. T \cup {x} = T
    BY <1>2
  <2> QED BY <1>1, <2>1
<1>3. CASE x \notin T
  <2>1. IsFiniteSet(T \cup {x}) /\ Cardinality(T \cup {x}) = Cardinality(T) + 1
    BY <1>3, FS_AddElement, Zenon
  <2> QED BY <1>1, <2>1
<1> QED BY <1>2, <1>3

LEMMA FiniteUpdate ==
  ASSUME NEW S, IsFiniteSet(S), NEW T \in SUBSET S, NEW x
  PROVE  /\ IsFiniteSet(T \cup {x})
         /\ Cardinality(T) <= Cardinality(S)
         /\ Cardinality(T \cup {x}) <= Cardinality(T) + 1
         /\ \A y \in T : Cardinality((T \ {y}) \cup {x}) <= Cardinality(T)
<1>1. IsFiniteSet(T) /\ Cardinality(T) <= Cardinality(S) /\ Cardinality(T) \in Nat
  BY FS_Subset, FS_CardinalityType
<1>2. IsFiniteSet(T \cup {x}) /\ Cardinality(T \cup {x}) <= Cardinality(T) + 1
  BY <1>1, OneMore
<1>3. ASSUME NEW y \in T PROVE Cardinality((T \ {y}) \cup {x}) <= Cardinality(T)
  <2>1. IsFiniteSet(T \ {y}) /\ Cardinality(T \ {y}) = Cardinality(T) - 1
    BY <1>1, FS_RemoveElement
  <2>2. Cardinality((T \ {y}) \cup {x}) <= Cardinality(T \ {y}) + 1
    BY <1>1, <2>1, OneMore
  <2> QED BY <1>1, <2>1, <2>2
<1> QED BY <1>1, <1>2, <1>3

(***************************************************************************)
(* The cache never holds more than max_count tokens (generator.rs 184).    *)
(***************************************************************************)
THEOREM CacheIsBounded == Spec => []CacheBounded
<1>1. Init => SizeInv
  BY DEF Init, SizeInv
<1>2. TypeOK /\ CallsInv /\ SizeInv /\ [Next]_vars => SizeInv'
  <2> SUFFICES ASSUME TypeOK, CallsInv, SizeInv, [Next]_vars PROVE SizeInv'
    OBVIOUS
  <2> USE DEF tokens
  <2>1. ASSUME NEW c \in Calls, Step(c) PROVE SizeInv'
    <3>0. cache # None => cache.max_count \in Nat /\ Cardinality(cache.entries) \in Nat
      BY FS_CardinalityType DEF TypeOK, LruCaches, SizeInv
    <3>1. ASSUME UNCHANGED cache PROVE SizeInv'
      BY <3>1 DEF SizeInv
    <3>2. CASE LookupHit(c)
      <4>1. PICK e \in Kept, f \in Entries : UpdatedTo((Kept \ {e}) \cup {f})
        BY <3>2, HitUpdates DEF Found
      <4>2. /\ IsFiniteSet(Kept) /\ Cardinality(Kept) <= Cardinality(cache.entries)
            /\ Cardinality(Kept) \in Nat
        BY <4>1, KeptTypes, FS_Subset, FS_CardinalityType DEF SizeInv, UpdatedTo
      <4>3. /\ IsFiniteSet((Kept \ {e}) \cup {f})
            /\ Cardinality((Kept \ {e}) \cup {f}) <= Cardinality(Kept)
            /\ Cardinality((Kept \ {e}) \cup {f}) \in Nat
        BY <4>2, FiniteUpdate, FS_CardinalityType
      <4> QED BY <3>0, <4>1, <4>2, <4>3 DEF SizeInv, UpdatedTo
    <3>3. CASE LookupMiss(c)
      <4>1. UpdatedTo(Kept) /\ Kept \subseteq cache.entries
        BY <3>3, MissUpdates, KeptTypes DEF UpdatedTo
      <4>2. IsFiniteSet(Kept) /\ Cardinality(Kept) <= Cardinality(cache.entries)
            /\ Cardinality(Kept) \in Nat
        BY <4>1, FS_Subset, FS_CardinalityType DEF SizeInv, UpdatedTo
      <4> QED BY <3>0, <4>1, <4>2 DEF SizeInv, UpdatedTo
    <3>4. CASE Store(c)
      <4>1. PICK e \in Entries : \E X \in Inserted(e) : UpdatedTo(X)
        BY <3>4, StoreUpdates
      <4>2. PICK X \in Inserted(e) : UpdatedTo(X)
        BY <4>1
      <4> DEFINE others == { f \in Kept : f.key # e.key }
      <4>3. others \in SUBSET cache.entries /\ IsFiniteSet(cache.entries)
        BY <4>2, KeptTypes DEF SizeInv, UpdatedTo
      <4>4. /\ Cardinality(others) <= Cardinality(cache.entries)
            /\ Cardinality(others) \in Nat /\ IsFiniteSet(others)
        BY <4>3, FS_Subset, FS_CardinalityType
      <4>5. \/ Cardinality(others) < cache.max_count /\ X = {e} \cup others
            \/ \E f \in others : X = {e} \cup (others \ {f})
        BY <4>2 DEF Inserted
      <4> HIDE DEF others
      <4>6. IsFiniteSet(X) /\ Cardinality(X) <= cache.max_count
        <5>1. CASE Cardinality(others) < cache.max_count /\ X = {e} \cup others
          <6>1. X = others \cup {e}
            BY <5>1
          <6>2. /\ IsFiniteSet(others \cup {e}) /\ Cardinality(others \cup {e}) \in Nat
                /\ Cardinality(others \cup {e}) <= Cardinality(others) + 1
            BY <4>3, FiniteUpdate, FS_CardinalityType
          <6>3. cache.max_count \in Nat
            BY <3>0, <4>2 DEF UpdatedTo
          <6>4. Cardinality(others \cup {e}) <= cache.max_count
            BY <4>4, <5>1, <6>2, <6>3
          <6> QED BY <6>1, <6>2, <6>4
        <5>2. CASE \E f \in others : X = {e} \cup (others \ {f})
          <6>1. PICK f \in others : X = (others \ {f}) \cup {e}
            BY <5>2
          <6>2. (others \ {f}) \in SUBSET cache.entries
            BY <4>3
          <6>3. /\ IsFiniteSet(X) /\ Cardinality(X) \in Nat
                /\ Cardinality(X) <= Cardinality(others)
            BY <4>3, <6>1, <6>2, FiniteUpdate, FS_CardinalityType
          <6> QED BY <3>0, <4>2, <4>4, <6>3 DEF UpdatedTo, SizeInv
        <5> QED BY <4>5, <5>1, <5>2
      <4> QED BY <4>2, <4>6 DEF SizeInv, UpdatedTo
    <3>5. \/ UNCHANGED cache \/ LookupHit(c) \/ LookupMiss(c) \/ Store(c)
      BY <2>1 DEF Step, BuildPoisoned, BuildOverflows, Build, CheckEnabled, CachePoisoned,
         UnwrapNone, SignFails, Sign
    <3> QED BY <3>1, <3>2, <3>3, <3>4, <3>5
  <2>2. ASSUME NEW settings \in Caches, enable_token_caching(settings) PROVE SizeInv'
    <3>1. cache'.entries = {} /\ cache'.max_count \in Nat
      BY <2>2 DEF enable_token_caching
    <3> QED BY <3>1, FS_EmptySet DEF SizeInv
  <2>3. CASE disable_token_caching
    BY <2>3 DEF SizeInv, disable_token_caching
  <2>4. ASSUME UNCHANGED cache PROVE SizeInv'
    BY <2>4 DEF SizeInv
  <2>5. ASSUME NEW seconds \in Lifespans, set_max_lifespan(seconds) PROVE UNCHANGED cache
    BY <2>5 DEF set_max_lifespan
  <2>6. Tick \/ Finished \/ UNCHANGED vars => UNCHANGED cache
    BY DEF Tick, Finished, vars
  <2> QED BY <2>1, <2>2, <2>3, <2>4, <2>5, <2>6 DEF Next
<1>3. SizeInv => CacheBounded
  BY DEF SizeInv, CacheBounded
<1> QED BY <1>1, <1>2, <1>3, Invariant, PTL DEF Spec
===============================================================================
