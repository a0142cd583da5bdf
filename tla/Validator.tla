------------------------------- MODULE Validator -------------------------------
(***************************************************************************)
(* Concurrent calls of GenericValidator::decode on one shared validator:   *)
(* the public key cache and the set of seen nonces behind their RwLocks,   *)
(* the keyserver, and the clock both caches and claims are measured with.  *)
(*                                                                         *)
(* A step is what a call does under one lock acquisition, or up to the     *)
(* keyserver's answer; between two steps other calls, the clock and the    *)
(* owners of the published keys may move.  A panic with a write guard      *)
(* alive poisons the lock, and every later `expect` on it panics too.      *)
(***************************************************************************)
EXTENDS TokenRules

CONSTANTS
  Calls,               \* invocations of decode, each made at most once
  Keys,                \* public keys; a key verifies what its private half signed
  Algorithms,
  Tokens,              \* the tokens calls present
  Whitelists,          \* the Option<&[&str]> they pass
  algorithm,           \* Builder::algorithm
  validate_jti,
  key_cache_duration,  \* in ticks of the clock
  TicksPerSecond,
  Servable,            \* Servable[kid]: what the keyserver may serve under kid,
                       \* None included if it may have nothing
  MaxClock,            \* bound on the clock
  ClockMayStepBack,    \* whether SystemTime may be set back
  StderrMayFail        \* whether writing to stderr may fail; eprintln! panics then

(***************************************************************************)
(* A token as the validator sees it.  A malformed header yields no kid; a  *)
(* body that does not parse as Claims is None.                             *)
(***************************************************************************)
Token ==
  [ header : {"ok", "malformed"}, kid : Kids \cup {None}, alg : Algorithms,
    signer : Keys, claims : Claims \cup {None} ]

\* (SystemTime, DecodingKey), the values of PublicKeyCache.
Entry == [when : Nat, key : Keys]

ASSUME ValidatorAssumption ==
  /\ Tokens \subseteq Token /\ Whitelists \subseteq Whitelist
  /\ algorithm \in Algorithms
  /\ {validate_jti, ClockMayStepBack, StderrMayFail} \subseteq BOOLEAN
  /\ key_cache_duration \in Nat /\ MaxClock \in Nat
  /\ TicksPerSecond \in Nat \ {0}
  /\ Servable \in [Kids -> SUBSET (Keys \cup {None})]
  /\ None \notin Kids /\ None \notin Keys /\ None \notin Entry

VARIABLES
  clock,          \* SystemTime::now()
  published,      \* published[kid]: what the keyserver serves, None for 404
  key_cache,      \* key_cache[kid]: its entry, None when absent
  poisoned,       \* the lock of key_cache is poisoned
  jti_seen,
  req,            \* req[c]: the arguments of call c
  pc,             \* pc[c]: the next step of call c
  public_key,     \* public_key[c]: the local of decode_optwl
  now,            \* now[c]: the local of validate
  result,         \* result[c]: what decode returned
  everPublished,  \* history: every <<kid, key>> the keyserver ever served
  fetched,        \* history: calls whose public_key came from the keyserver
  outlived,       \* history: calls that held the key of a kid when a lookup removed
                  \* its entry
  racers          \* history: racers[c]: calls between the nonce check and its
                  \* insertion, with the nonce of c, when c passed the check

shared  == <<clock, published, key_cache, poisoned, jti_seen, everPublished>>
locals  == <<req, pc, public_key, now, result, fetched, outlived, racers>>
vars    == <<shared, locals>>

Kid(c)    == req[c].token.kid
Signer(c) == req[c].token.signer
Body(c)   == req[c].token.claims
Jti(c)    == Body(c).jti

Errors ==
  { "InvalidToken", "NoKIDFound", "KeyserverError", "InvalidAlgorithm",
    "InvalidSignature", "InvalidClaims", "DuplicateJTI" } \cup (Verdicts \ {"Ok"})

Labels == {"begin", "lookup", "fetch", "verify", "jti_check", "jti_record", "check", "done"}

Accepted(c) == result[c] = "Ok"

Goto(c, label) == pc' = [pc EXCEPT ![c] = label] /\ UNCHANGED result
Return(c, r)   == pc' = [pc EXCEPT ![c] = "done"] /\ result' = [result EXCEPT ![c] = r]

Init ==
  /\ clock = 0
  /\ published \in [Kids -> Keys \cup {None}]
  /\ \A kid \in Kids : published[kid] \in Servable[kid]
  /\ key_cache = [kid \in Kids |-> None]
  /\ poisoned = FALSE /\ jti_seen = {}
  /\ req \in [Calls -> [token : Tokens, wl : Whitelists]]
  /\ pc = [c \in Calls |-> "begin"]
  /\ public_key = [c \in Calls |-> None]
  /\ now = [c \in Calls |-> 0]
  /\ result = [c \in Calls |-> "pending"]
  /\ everPublished = { <<kid, published[kid]>> : kid \in { k \in Kids : published[k] # None } }
  /\ fetched = {} /\ outlived = {}
  /\ racers = [c \in Calls |-> {}]

-------------------------------------------------------------------------------
\* decode_header, and the kid it must contain.
DecodeHeader(c) ==
  /\ pc[c] = "begin"
  /\ \/ req[c].token.header = "malformed" /\ Return(c, "InvalidToken")
     \/ req[c].token.header = "ok" /\ Kid(c) = None /\ Return(c, "NoKIDFound")
     \/ req[c].token.header = "ok" /\ Kid(c) # None /\ Goto(c, "lookup")
  /\ UNCHANGED <<shared, req, public_key, now, fetched, outlived, racers>>

\* get_key_from_cache: `elapsed` fails for an entry from the future, which is
\* what a clock set back makes of a recent one.
Fresh(entry) == entry.when <= clock /\ clock - entry.when <= key_cache_duration

\* `expect` lets a call into the key cache.  Mutant: it recovers a poisoned one.
CacheRecovered == TRUE
CacheUsable == ~poisoned

\* One pass through the critical section of get_public_key.
LookupHit(c) ==
  /\ pc[c] = "lookup" /\ CacheUsable
  /\ key_cache[Kid(c)] # None /\ Fresh(key_cache[Kid(c)])
  /\ public_key' = [public_key EXCEPT ![c] = key_cache[Kid(c)].key]
  /\ Goto(c, "verify")
  /\ UNCHANGED <<shared, req, now, fetched, outlived, racers>>

\* The calls that hold a key they were given for kid.
Holders(kid) ==
  { d \in Calls : pc[d] \in {"verify", "jti_check", "jti_record", "check"} /\ Kid(d) = kid }

\* Mutants: the stale entry stays and the call looks again; it serves once more.
LookupStaleRetry(c) ==
  /\ pc[c] = "lookup" /\ CacheUsable
  /\ key_cache[Kid(c)] # None /\ ~Fresh(key_cache[Kid(c)])
  /\ Goto(c, "lookup")
  /\ UNCHANGED <<shared, req, public_key, now, fetched, outlived, racers>>

LookupStaleServes(c) ==
  /\ pc[c] = "lookup" /\ CacheUsable
  /\ key_cache[Kid(c)] # None /\ ~Fresh(key_cache[Kid(c)])
  /\ public_key' = [public_key EXCEPT ![c] = key_cache[Kid(c)].key]
  /\ key_cache' = [key_cache EXCEPT ![Kid(c)] = None]
  /\ outlived' = outlived \cup Holders(Kid(c))
  /\ Goto(c, "verify")
  /\ UNCHANGED <<clock, published, poisoned, jti_seen, everPublished>>
  /\ UNCHANGED <<req, now, fetched, racers>>

LookupStale(c) ==
  /\ pc[c] = "lookup" /\ CacheUsable
  /\ key_cache[Kid(c)] # None /\ ~Fresh(key_cache[Kid(c)])
  /\ key_cache' = [key_cache EXCEPT ![Kid(c)] = None]
  /\ outlived' = outlived \cup Holders(Kid(c))
  /\ Goto(c, "fetch")
  /\ UNCHANGED <<clock, published, poisoned, jti_seen, everPublished>>
  /\ UNCHANGED <<req, public_key, now, fetched, racers>>

\* The stale entry is reported before it is removed, under the write guard.
LookupPanics(c) ==
  /\ pc[c] = "lookup" /\ CacheUsable /\ StderrMayFail
  /\ key_cache[Kid(c)] # None /\ ~Fresh(key_cache[Kid(c)])
  /\ poisoned' = TRUE
  /\ Return(c, "panic")
  /\ UNCHANGED <<clock, published, key_cache, jti_seen, everPublished>>
  /\ UNCHANGED <<req, public_key, now, fetched, outlived, racers>>

LookupMiss(c) ==
  /\ pc[c] = "lookup" /\ CacheUsable
  /\ key_cache[Kid(c)] = None
  /\ Goto(c, "fetch")
  /\ UNCHANGED <<shared, req, public_key, now, fetched, outlived, racers>>

-------------------------------------------------------------------------------
\* The keyserver answers with what it serves at that instant.
FetchOk(c) ==
  /\ pc[c] = "fetch"
  /\ published[Kid(c)] # None
  /\ public_key' = [public_key EXCEPT ![c] = published[Kid(c)]]
  /\ fetched' = fetched \cup {c}
  /\ Goto(c, "verify")
  /\ UNCHANGED <<shared, req, now, outlived, racers>>

\* 404, a server error, a broken connection or the request timeout.
FetchFails(c) ==
  /\ pc[c] = "fetch"
  /\ Return(c, "KeyserverError")
  /\ UNCHANGED <<shared, req, public_key, now, fetched, outlived, racers>>

\* The caller drops the future at its only await.
Cancel(c) ==
  /\ pc[c] = "fetch"
  /\ Return(c, "cancelled")
  /\ UNCHANGED <<shared, req, public_key, now, fetched, outlived, racers>>

\* jwt::decode::<Claims>
Decoded(token, key) ==
  IF token.alg # algorithm THEN "InvalidAlgorithm"
  ELSE IF token.signer # key THEN "InvalidSignature"
  ELSE IF token.claims = None THEN "InvalidClaims"
  ELSE "Ok"

VerifyFails(c) ==
  /\ pc[c] = "verify"
  /\ Decoded(req[c].token, public_key[c]) # "Ok"
  /\ Return(c, Decoded(req[c].token, public_key[c]))
  /\ UNCHANGED <<shared, req, public_key, now, fetched, outlived, racers>>

\* The token is genuine; validate starts by reading the second.  Mutants: the
\* nonce is inserted before it is looked up; the token is decoded unverified.
VerifyAndRecord(c) ==
  /\ pc[c] = "verify"
  /\ Decoded(req[c].token, public_key[c]) = "Ok"
  /\ now' = [now EXCEPT ![c] = clock \div TicksPerSecond]
  /\ jti_seen' = jti_seen \cup {Jti(c)}
  /\ Goto(c, IF validate_jti THEN "jti_check" ELSE "check")
  /\ UNCHANGED <<clock, published, key_cache, poisoned, everPublished>>
  /\ UNCHANGED <<req, public_key, fetched, outlived, racers>>

VerifyUnsigned(c) ==
  /\ pc[c] = "verify" /\ Body(c) # None
  /\ now' = [now EXCEPT ![c] = clock \div TicksPerSecond]
  /\ Goto(c, IF validate_jti THEN "jti_check" ELSE "check")
  /\ UNCHANGED <<shared, req, public_key, fetched, outlived, racers>>

Verify(c) ==
  /\ pc[c] = "verify"
  /\ Decoded(req[c].token, public_key[c]) = "Ok"
  /\ now' = [now EXCEPT ![c] = clock \div TicksPerSecond]
  /\ Goto(c, IF validate_jti THEN "jti_check" ELSE "check")
  /\ UNCHANGED <<shared, req, public_key, fetched, outlived, racers>>

-------------------------------------------------------------------------------
\* Calls that passed the nonce check for j and have yet to insert it.
AboutToRecord(j) == { d \in Calls : pc[d] = "jti_record" /\ Jti(d) = j }

\* jti_seen.read().contains(&jti); the read lock is released right after.
JtiDuplicate(c) ==
  /\ pc[c] = "jti_check"
  /\ Jti(c) \in jti_seen
  /\ Return(c, "DuplicateJTI")
  /\ UNCHANGED <<shared, req, public_key, now, fetched, outlived, racers>>

\* Mutant: the set is never consulted.
JtiFreshUnchecked(c) ==
  /\ pc[c] = "jti_check"
  /\ racers' = [racers EXCEPT ![c] = AboutToRecord(Jti(c))]
  /\ Goto(c, "jti_record")
  /\ UNCHANGED <<shared, req, public_key, now, fetched, outlived>>

JtiFresh(c) ==
  /\ pc[c] = "jti_check"
  /\ Jti(c) \notin jti_seen
  /\ racers' = [racers EXCEPT ![c] = AboutToRecord(Jti(c))]
  /\ Goto(c, "jti_record")
  /\ UNCHANGED <<shared, req, public_key, now, fetched, outlived>>

\* jti_seen.write().insert(jti), whatever happened since the check.  Mutant:
\* the kid is remembered instead.
JtiRecordKid(c) ==
  /\ pc[c] = "jti_record"
  /\ jti_seen' = jti_seen \cup {Kid(c)}
  /\ Goto(c, "check")
  /\ UNCHANGED <<clock, published, key_cache, poisoned, everPublished>>
  /\ UNCHANGED <<req, public_key, now, fetched, outlived, racers>>

JtiRecord(c) ==
  /\ pc[c] = "jti_record"
  /\ jti_seen' = jti_seen \cup {Jti(c)}
  /\ Goto(c, "check")
  /\ UNCHANGED <<clock, published, key_cache, poisoned, everPublished>>
  /\ UNCHANGED <<req, public_key, now, fetched, outlived, racers>>

-------------------------------------------------------------------------------
Checked(c) == Verdict(Kid(c), Body(c), req[c].wl, now[c])

\* key_cache.write().entry(kid).or_insert((SystemTime::now(), public_key)).
\* Mutant: insert, which replaces an entry another call stored.
OverwriteEntry(kid, key) == [key_cache EXCEPT ![kid] = [when |-> clock, key |-> key]]

OrInsert(kid, key) ==
  IF key_cache[kid] = None
    THEN [key_cache EXCEPT ![kid] = [when |-> clock, key |-> key]]
    ELSE key_cache

\* Mutant: the key is cached as soon as it has verified a signature.
RejectButStore(c) ==
  /\ pc[c] = "check"
  /\ Checked(c) # "Ok"
  /\ key_cache' = OrInsert(Kid(c), public_key[c])
  /\ Return(c, Checked(c))
  /\ UNCHANGED <<clock, published, poisoned, jti_seen, everPublished>>
  /\ UNCHANGED <<req, public_key, now, fetched, outlived, racers>>

Reject(c) ==
  /\ pc[c] = "check"
  /\ Checked(c) # "Ok"
  /\ Return(c, Checked(c))
  /\ UNCHANGED <<shared, req, public_key, now, fetched, outlived, racers>>

Accept(c) ==
  /\ pc[c] = "check" /\ CacheUsable
  /\ Checked(c) = "Ok"
  /\ key_cache' = OrInsert(Kid(c), public_key[c])
  /\ Return(c, "Ok")
  /\ UNCHANGED <<clock, published, poisoned, jti_seen, everPublished>>
  /\ UNCHANGED <<req, public_key, now, fetched, outlived, racers>>

\* Either write() of the poisoned key_cache, the second with the nonce recorded.
PoisonedCache(c) ==
  /\ ~CacheUsable
  /\ \/ pc[c] = "lookup"
     \/ pc[c] = "check" /\ Checked(c) = "Ok"
  /\ Return(c, "panic")
  /\ UNCHANGED <<shared, req, public_key, now, fetched, outlived, racers>>

-------------------------------------------------------------------------------
Tick ==
  /\ clock < MaxClock
  /\ clock' = clock + 1
  /\ UNCHANGED <<published, key_cache, poisoned, jti_seen, everPublished, locals>>

StepBack ==
  /\ ClockMayStepBack /\ clock > 0
  /\ clock' = clock - 1
  /\ UNCHANGED <<published, key_cache, poisoned, jti_seen, everPublished, locals>>

\* The owner of kid publishes, rotates or revokes a key.
Publish(kid) ==
  /\ \E key \in Servable[kid] :
       /\ published' = [published EXCEPT ![kid] = key]
       /\ everPublished' = everPublished \cup ({<<kid, key>>} \ {<<kid, None>>})
  /\ UNCHANGED <<clock, key_cache, poisoned, jti_seen, locals>>

\* What the executor runs once a call has begun.
Step(c) ==
  \/ LookupHit(c) \/ LookupStale(c) \/ LookupMiss(c)
  \/ FetchOk(c) \/ FetchFails(c)
  \/ VerifyFails(c) \/ Verify(c)
  \/ JtiDuplicate(c) \/ JtiFresh(c) \/ JtiRecord(c)
  \/ Reject(c) \/ Accept(c) \/ PoisonedCache(c)

Next ==
  \/ \E c \in Calls : DecodeHeader(c) \/ Cancel(c) \/ LookupPanics(c) \/ Step(c)
  \/ Tick
  \/ StepBack
  \/ \E kid \in Kids : Publish(kid)

Spec == Init /\ [][Next]_vars

(***************************************************************************)
(* A call that has begun is polled until it returns, and the keyserver     *)
(* request ends one way or the other (HttpKeyserver sets a timeout).       *)
(* Nothing forces a call to begin, a future to be dropped, stderr to fail, *)
(* the clock to move or a key to be published.                             *)
(***************************************************************************)
FairSpec == Spec /\ \A c \in Calls : WF_vars(Step(c))

-------------------------------------------------------------------------------
TypeOK ==
  /\ clock \in Nat
  /\ published \in [Kids -> Keys \cup {None}]
  /\ key_cache \in [Kids -> Entry \cup {None}]
  /\ poisoned \in BOOLEAN /\ jti_seen \subseteq Jtis
  /\ req \in [Calls -> [token : Tokens, wl : Whitelists]]
  /\ pc \in [Calls -> Labels]
  /\ public_key \in [Calls -> Keys \cup {None}]
  /\ now \in [Calls -> Nat]
  /\ result \in [Calls -> {"pending", "Ok", "cancelled"} \cup Errors]
  /\ everPublished \subseteq Kids \X Keys
  /\ fetched \subseteq Calls /\ outlived \subseteq Calls
  /\ racers \in [Calls -> SUBSET Calls]

(***************************************************************************)
(* With validate_jti, two calls both accept a nonce only when one of them  *)
(* passed the check while the other stood between its own check and its    *)
(* insertion: outside that window a nonce is accepted once, however calls  *)
(* overlap otherwise (validator.rs 569-583).                               *)
(***************************************************************************)
ReplayNeedsOverlap ==
  validate_jti =>
    \A c, d \in Calls :
      c # d /\ Accepted(c) /\ Accepted(d) /\ Jti(c) = Jti(d)
        => c \in racers[d] \/ d \in racers[c]

(***************************************************************************)
(* However calls interleave, a caller that is told Ok can rely on it: the  *)
(* nonce is already in the set that later calls are compared with, and     *)
(* each rule quoted from ASAP holds of the token at the second its call    *)
(* read, whichever of them the code looks at first (validator.rs 552-664). *)
(***************************************************************************)
AcceptedInFull ==
  \A c \in Calls : Accepted(c) =>
    /\ validate_jti => Jti(c) \in jti_seen
    /\ NoOverflow(Body(c), now[c]) => Conforms(Kid(c), Body(c), req[c].wl, now[c])

(***************************************************************************)
(* A nonce is reported as a duplicate only when another call, with a token *)
(* of that nonce and a genuine signature, recorded it: a call never trips  *)
(* over its own insertion nor over a forged token's (validator.rs 521,     *)
(* 569-583).                                                               *)
(***************************************************************************)
DuplicateHasAnOriginal ==
  \A c \in Calls : result[c] = "DuplicateJTI" =>
    \E d \in Calls \ {c} :
      /\ Body(d) # None /\ Jti(d) = Jti(c)
      /\ <<Kid(d), Signer(d)>> \in everPublished

(***************************************************************************)
(* Whatever path the key took, through the keyserver or through entries    *)
(* other calls stored, an accepted token carries the signature of a key    *)
(* that was published under the token's own kid (validator.rs 403-441,     *)
(* 521, 539-543).                                                          *)
(***************************************************************************)
AcceptedKeyWasPublished ==
  \A c \in Calls : Accepted(c) => <<Kid(c), Signer(c)>> \in everPublished

(***************************************************************************)
(* "If everything looks good, and the key is not yet cached, then store"   *)
(* (validator.rs 537): every entry of the cache is a key with which some   *)
(* call verified and fully accepted a token of that kid, so a rejected     *)
(* token never fills the cache.                                            *)
(***************************************************************************)
CacheHoldsProvenKeys ==
  \A kid \in Kids : key_cache[kid] # None =>
    \E c \in Calls : Accepted(c) /\ Kid(c) = kid /\ Signer(c) = key_cache[kid].key

KeptUntilStale(kid) ==
  key_cache[kid] # None /\ key_cache'[kid] # key_cache[kid]
    => key_cache'[kid] = None /\ ~Fresh(key_cache[kid])

(***************************************************************************)
(* Accepting tokens never prolongs the life of the entry in the cache: it  *)
(* stays as it was stored until a lookup finds it stale and removes it     *)
(* (validator.rs 428, 542).                                                *)
(***************************************************************************)
NoSlidingExpiry ==
  [][\A kid \in Kids : KeptUntilStale(kid)]_vars

(***************************************************************************)
(* A call that fetched nothing itself fills the cache only if it held its  *)
(* copy of the key while a lookup removed the entry of that kid: a key     *)
(* stays in use beyond its duration without a fetch only through calls     *)
(* that overlap its removal (validator.rs 333, 406-428, 542-543).          *)
(***************************************************************************)
RefillNeedsOverlap ==
  [][\A c \in Calls :
       Accept(c) /\ key_cache' # key_cache => c \in fetched \cup outlived]_vars

(***************************************************************************)
(* Every nonce kept is that of a genuine token some call presented: what   *)
(* grows with each of them is never fed by forged ones (validator.rs 521,  *)
(* 577-582).                                                               *)
(***************************************************************************)
NoncesAreGenuine ==
  \A j \in jti_seen : \E c \in Calls :
    Body(c) # None /\ Jti(c) = j /\ <<Kid(c), Signer(c)>> \in everPublished

(***************************************************************************)
(* A panic under the write guard closes the validator: from then on the    *)
(* cache, stale entry included, stays as it is and no call is accepted,    *)
(* not even one that held its key already (validator.rs 404-407, 420,      *)
(* 539-541).                                                               *)
(***************************************************************************)
PoisonedFailsClosed ==
  [][poisoned => /\ UNCHANGED <<poisoned, key_cache>>
                 /\ \A c \in Calls : Accepted(c)' => Accepted(c)]_vars

(***************************************************************************)
(* The validator implements TokenGate: no caller can tell, but by a        *)
(* refusal, the cache, the keyserver and the lock from a gate that trusts  *)
(* every published key, checks signature, nonce and claims in that order,  *)
(* and never takes an answer back (validator.rs 403-547).                  *)
(***************************************************************************)
StageOf ==
  [ begin |-> "asked", lookup |-> "asked", fetch |-> "asked", verify |-> "asked",
    jti_check |-> "genuine", jti_record |-> "unspent", check |-> "counted",
    done |-> "answered" ]

Gate == INSTANCE TokenGate WITH
  trusted <- everPublished,
  spent   <- jti_seen,
  stage   <- [c \in Calls |-> StageOf[pc[c]]],
  second  <- now,
  answer  <- result

ImplementsGate == Gate!Spec

(***************************************************************************)
(* Every call that begins returns, be its token good or bad, its key       *)
(* cached, expired or unavailable, and whatever other calls do to the      *)
(* cache and the nonces meanwhile.                                         *)
(***************************************************************************)
CallsReturn == \A c \in Calls : pc[c] = "lookup" ~> pc[c] = "done"

(***************************************************************************)
(* "the validator will reject tokens who have a jti claim that the         *)
(* validator has seen before" (validator.rs 90-91).                        *)
(***************************************************************************)
NoReplay ==
  validate_jti =>
    \A c, d \in Calls :
      c # d /\ Accepted(c) /\ Accepted(d) => Jti(c) # Jti(d)

(***************************************************************************)
(* "The duration each cached key is valid before it's fetched again"       *)
(* (validator.rs 333): a key enters the cache straight from the keyserver, *)
(* so that its entry's age is the time since a fetch.                      *)
(***************************************************************************)
CacheFilledByFetch ==
  [][\A c \in Calls :
       Accept(c) /\ key_cache' # key_cache => c \in fetched]_vars
===============================================================================
