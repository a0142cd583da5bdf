------------------------------- MODULE Generator -------------------------------
(***************************************************************************)
(* Threads that share one Generator: concurrent calls of Generator::token, *)
(* while other threads enable and disable the token cache and set the      *)
(* lifespan.  Two RwLocks guard the shared state, claims_builder and cache;*)
(* a step is what a thread does under one acquisition, and a panic with a  *)
(* write guard alive poisons the lock: every later `expect` panics too.    *)
(*                                                                         *)
(* The cache itself, lru_time_cache, is not part of the repository.        *)
(***************************************************************************)
EXTENDS Int64, FiniteSets

CONSTANTS
  Calls,           \* invocations of token, each made at most once
  Auds, Extras,    \* the arguments they pass
  Lifespans,       \* the lifespans set_max_lifespan is given
  Caches,          \* the [ttl, max_count] enable_token_caching is given
  DEFAULT_TOKEN_LIFESPAN,
  TicksPerSecond,
  MaxClock,        \* bound on the clock
  None

\* A set of claims; the nonce generate_jti draws is new in every call, so the
\* call itself stands for it.
Claims == [aud : Auds, extra : Extras, iat : Int, exp : Int, jti : Calls]

\* LruCache: an entry holds a token under its key since it was last used.
CacheKeys == [aud : Auds, extra : Extras, iat : Int, exp : Int]
Entries   == [key : CacheKeys, token : Claims, when : Nat]
LruCaches == [ttl : Nat, max_count : Nat \ {0}, entries : SUBSET Entries]

ASSUME GeneratorAssumption ==
  /\ DEFAULT_TOKEN_LIFESPAN \in I64 /\ Lifespans \subseteq I64
  /\ Caches \subseteq [ttl : Nat, max_count : Nat \ {0}]
  /\ TicksPerSecond \in Nat \ {0}
  /\ MaxClock \in Nat
  /\ None \notin Claims \cup LruCaches

VARIABLES
  clock,             \* in ticks; Utc::now() and the cache's Instant
  lifespan,          \* ClaimsBuilder.lifespan
  builder_poisoned,  \* the claims_builder lock is poisoned
  cache,             \* Option<LruCache>
  cache_poisoned,    \* the cache lock is poisoned
  req,               \* req[c]: the arguments of call c
  pc,                \* pc[c]: the next step of call c
  claims,            \* claims[c]: the local of token, None before it is built
  end,               \* end[c]: how call c ended, and the claims in its token
  cachedFor,         \* history: the live tokens for the arguments of c in the
                     \* cache when c looked there
  torn               \* history: the cache was disabled under a call that had
                     \* found it enabled

builder == <<lifespan, builder_poisoned>>
tokens  == <<cache, cache_poisoned>>
locals  == <<pc, claims, end, cachedFor>>
vars    == <<clock, builder, tokens, req, locals, torn>>

Live(e) == clock - e.when <= cache.ttl

\* What is left of the cache once its expired entries are dropped, as they are
\* whenever it is used.
Kept == { e \in cache.entries : Live(e) }

\* Claims::cache_key.  Mutants: the times are left out, as jti is; jti is not.
CacheKeyNoTimes(cl) == [aud |-> cl.aud, extra |-> cl.extra, iat |-> 0, exp |-> 0]
CacheKeyWithJti(cl) == cl
CacheKey(cl) == [aud |-> cl.aud, extra |-> cl.extra, iat |-> cl.iat, exp |-> cl.exp]

\* LruCache::insert replaces the entry of the same key, and evicts one of the
\* least recently used when the cache is full.
Inserted(e) ==
  LET others == { f \in Kept : f.key # e.key }
      oldest == { g \in others : \A h \in others : g.when <= h.when }
  IN  IF Cardinality(others) < cache.max_count
        THEN { {e} \cup others }
        ELSE { {e} \cup (others \ {f}) : f \in oldest }

\* LruCache::get
Found(key) == { e \in Kept : e.key = key }

\* The live tokens in the cache for the arguments and the lifespan of c.
Reusable(c) ==
  { e.token : e \in { f \in Kept :
      /\ f.key.aud = req[c].aud /\ f.key.extra = req[c].extra
      /\ f.key.exp - f.key.iat = claims[c].exp - claims[c].iat } }

Goto(c, label) == pc' = [pc EXCEPT ![c] = label] /\ UNCHANGED end

End(c, how, cl) ==
  /\ pc' = [pc EXCEPT ![c] = "done"]
  /\ end' = [end EXCEPT ![c] = [outcome |-> how, token |-> cl]]

Init ==
  /\ clock = 0
  /\ lifespan = DEFAULT_TOKEN_LIFESPAN
  /\ cache = None
  /\ builder_poisoned = FALSE /\ cache_poisoned = FALSE /\ torn = FALSE
  /\ req \in [Calls -> [aud : Auds, extra : Extras]]
  /\ pc = [c \in Calls |-> "build"]
  /\ claims = [c \in Calls |-> None]
  /\ end = [c \in Calls |-> [outcome |-> "pending", token |-> None]]
  /\ cachedFor = [c \in Calls |-> {}]

-------------------------------------------------------------------------------
\* claims_builder.write().expect(..).build(aud, extra_claims)
BuildPoisoned(c) ==
  /\ pc[c] = "build" /\ builder_poisoned
  /\ End(c, "panic", None)
  /\ UNCHANGED <<clock, builder, tokens, req, claims, cachedFor, torn>>

now == clock \div TicksPerSecond

BuildOverflows(c) ==
  /\ pc[c] = "build" /\ ~builder_poisoned
  /\ Panics(now + lifespan)
  /\ End(c, "panic", None)
  /\ builder_poisoned' = TRUE
  /\ UNCHANGED <<clock, lifespan, tokens, req, claims, cachedFor, torn>>

Build(c) ==
  /\ pc[c] = "build" /\ ~builder_poisoned
  /\ ~Panics(now + lifespan)
  /\ claims' = [claims EXCEPT ![c] =
       [aud |-> req[c].aud, extra |-> req[c].extra, iat |-> now,
        exp |-> Wrap(now + lifespan), jti |-> c]]
  /\ Goto(c, "check")
  /\ UNCHANGED <<clock, builder, tokens, req, cachedFor, torn>>

\* cache.read().expect(..).is_some().  Mutant: every call goes on to the cache.
Always  == TRUE
Enabled == cache # None

CheckEnabled(c) ==
  /\ pc[c] = "check" /\ ~cache_poisoned
  /\ Goto(c, IF Enabled THEN "lookup" ELSE "sign")
  /\ UNCHANGED <<clock, builder, tokens, req, claims, cachedFor, torn>>

\* cache.read() or cache.write() on a poisoned lock.
CachePoisoned(c) ==
  /\ pc[c] \in {"check", "lookup", "store"} /\ cache_poisoned
  /\ End(c, "panic", None)
  /\ UNCHANGED <<clock, builder, tokens, req, claims, cachedFor, torn>>

\* cache_opt.as_mut().unwrap() when the cache was disabled since the check; the
\* guard is alive.
UnwrapNone(c) ==
  /\ pc[c] \in {"lookup", "store"} /\ ~cache_poisoned
  /\ cache = None
  /\ End(c, "panic", None)
  /\ cache_poisoned' = TRUE
  /\ UNCHANGED <<clock, builder, cache, req, claims, cachedFor, torn>>

\* The cache under the write lock, when it is still there.
Locked(c, label) == pc[c] = label /\ ~cache_poisoned /\ cache # None

LookupHit(c) ==
  /\ Locked(c, "lookup")
  /\ \E e \in Found(CacheKey(claims[c])) :
       /\ cache' = [cache EXCEPT !.entries = (Kept \ {e}) \cup {[e EXCEPT !.when = clock]}]
       /\ End(c, "token", e.token)
  /\ cachedFor' = [cachedFor EXCEPT ![c] = Reusable(c)]
  /\ UNCHANGED <<clock, builder, cache_poisoned, req, claims, torn>>

LookupMiss(c) ==
  /\ Locked(c, "lookup")
  /\ Found(CacheKey(claims[c])) = {}
  /\ cache' = [cache EXCEPT !.entries = Kept]
  /\ cachedFor' = [cachedFor EXCEPT ![c] = Reusable(c)]
  /\ Goto(c, "store")
  /\ UNCHANGED <<clock, builder, cache_poisoned, req, claims, torn>>

\* generate_token, with no lock held: jwt::encode may refuse the private key.
SignFails(c) ==
  /\ pc[c] \in {"store", "sign"}
  /\ End(c, "error", None)
  /\ UNCHANGED <<clock, builder, tokens, req, claims, cachedFor, torn>>

Store(c) ==
  /\ Locked(c, "store")
  /\ \E entries \in Inserted(
          [key |-> CacheKey(claims[c]), token |-> claims[c], when |-> clock]) :
       cache' = [cache EXCEPT !.entries = entries]
  /\ End(c, "token", claims[c])
  /\ UNCHANGED <<clock, builder, cache_poisoned, req, claims, cachedFor, torn>>

Sign(c) ==
  /\ pc[c] = "sign"
  /\ End(c, "token", claims[c])
  /\ UNCHANGED <<clock, builder, tokens, req, claims, cachedFor, torn>>

-------------------------------------------------------------------------------
\* The administrative methods; on a poisoned lock they panic and change nothing.
\* Mutant: a cache that is replaced hands its entries over.
enable_token_cachingKeep(settings) ==
  /\ ~cache_poisoned
  /\ cache' = [ttl |-> settings.ttl, max_count |-> settings.max_count,
               entries |-> IF cache = None THEN {} ELSE cache.entries]
  /\ UNCHANGED <<clock, builder, cache_poisoned, req, locals, torn>>

enable_token_caching(settings) ==
  /\ ~cache_poisoned
  /\ cache' = [ttl |-> settings.ttl, max_count |-> settings.max_count, entries |-> {}]
  /\ UNCHANGED <<clock, builder, cache_poisoned, req, locals, torn>>

disable_token_caching ==
  /\ ~cache_poisoned
  /\ cache' = None
  /\ torn' = (torn \/ \E c \in Calls : pc[c] \in {"lookup", "store"})
  /\ UNCHANGED <<clock, builder, cache_poisoned, req, locals>>

set_max_lifespan(seconds) ==
  /\ ~builder_poisoned
  /\ lifespan' = seconds
  /\ UNCHANGED <<clock, builder_poisoned, tokens, req, locals, torn>>

Tick ==
  /\ clock < MaxClock
  /\ clock' = clock + 1
  /\ UNCHANGED <<builder, tokens, req, locals, torn>>

Finished == (\A c \in Calls : pc[c] = "done") /\ UNCHANGED vars

Step(c) ==
  \/ BuildPoisoned(c) \/ BuildOverflows(c) \/ Build(c)
  \/ CheckEnabled(c) \/ CachePoisoned(c) \/ UnwrapNone(c)
  \/ LookupHit(c) \/ LookupMiss(c)
  \/ SignFails(c) \/ Store(c) \/ Sign(c)

Next ==
  \/ \E c \in Calls : Step(c)
  \/ \E settings \in Caches : enable_token_caching(settings)
  \/ disable_token_caching
  \/ \E seconds \in Lifespans : set_max_lifespan(seconds)
  \/ Tick
  \/ Finished

Spec == Init /\ [][Next]_vars

-------------------------------------------------------------------------------
TypeOK ==
  /\ clock \in Nat /\ lifespan \in I64
  /\ {builder_poisoned, cache_poisoned, torn} \subseteq BOOLEAN
  /\ cache \in LruCaches \cup {None}
  /\ req \in [Calls -> [aud : Auds, extra : Extras]]
  /\ pc \in [Calls -> {"build", "check", "lookup", "store", "sign", "done"}]
  /\ claims \in [Calls -> Claims \cup {None}]
  /\ end \in [Calls -> [outcome : {"pending", "token", "error", "panic"},
                        token : Claims \cup {None}]]
  /\ cachedFor \in [Calls -> SUBSET Claims]

outcome(c) == end[c].outcome
token(c)   == end[c].token

(***************************************************************************)
(* The token a call returns, its own or one that another call left in the  *)
(* cache, is for the audience and extra claims it asked for and has the    *)
(* times it would have given it: only the nonce may differ.  Calls with    *)
(* other arguments, another lifespan or in another second never share a    *)
(* token (generator.rs 312-350, claims.rs 126-135).                        *)
(***************************************************************************)
TokenFitsRequest ==
  \A c \in Calls : outcome(c) = "token" =>
    /\ token(c).aud = req[c].aud /\ token(c).extra = req[c].extra
    /\ token(c).iat = claims[c].iat /\ token(c).exp = claims[c].exp

(***************************************************************************)
(* "max_count: the maximum amount of tokens cached" (generator.rs 184):    *)
(* however calls that missed together insert, and whatever the cache was   *)
(* replaced with meanwhile.                                                *)
(***************************************************************************)
CacheBounded ==
  cache # None => Cardinality(cache.entries) <= cache.max_count

(***************************************************************************)
(* A call panics only in an overflow of iat + lifespan, after one, or when *)
(* the cache was disabled between the two looks another call took at it    *)
(* (generator.rs 319-343, claims.rs 167).                                  *)
(***************************************************************************)
PanicsAreExplained ==
  \A c \in Calls : outcome(c) = "panic" => builder_poisoned \/ torn

(***************************************************************************)
(* "Do not use this if your server requires unique jti claims"             *)
(* (generator.rs 177): two calls return one and the same token only when   *)
(* one of them saw the cache enabled, and then within the same second.     *)
(***************************************************************************)
SharedOnlyThroughCache ==
  \A c, d \in Calls :
    c # d /\ outcome(c) = "token" /\ outcome(d) = "token" /\ token(c) = token(d)
      => token(c) \in cachedFor[c] \cup cachedFor[d] /\ claims[c].iat = claims[d].iat

(***************************************************************************)
(* What the cache does promise: a call that finds there a live token for   *)
(* its arguments with the times it would have given it returns a token it  *)
(* found, and signs none (claims.rs 126-135, api.rs 578-585).              *)
(***************************************************************************)
CachedWithinSecond ==
  \A c \in Calls :
    /\ outcome(c) = "token"
    /\ \E t \in cachedFor[c] : t.iat = claims[c].iat /\ t.exp = claims[c].exp
    => token(c) \in cachedFor[c]

(***************************************************************************)
(* `cache_opt.as_mut().unwrap()` (generator.rs 328 and 341) takes for      *)
(* granted that a cache seen a moment ago is still there.                  *)
(***************************************************************************)
CacheStillThere ==
  \A c \in Calls : pc[c] \in {"lookup", "store"} /\ ~cache_poisoned => cache # None

(***************************************************************************)
(* "ttl: how long tokens should be cached before expiring" (generator.rs   *)
(* 185): a call that finds live tokens for its arguments returns one.      *)
(***************************************************************************)
CachedForTtl ==
  \A c \in Calls :
    outcome(c) = "token" /\ cachedFor[c] # {} => token(c) \in cachedFor[c]
===============================================================================
