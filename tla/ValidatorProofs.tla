---------------------------- MODULE ValidatorProofs ----------------------------
(***************************************************************************)
(* The safety properties of Validator, for any number of calls, tokens,    *)
(* keys and any clock.  ProvenanceInv (types, and where every key came     *)
(* from) is inductive by itself; the invariants on the cache and on the    *)
(* nonces are inductive relative to it.                                    *)
(***************************************************************************)
EXTENDS Validator, TokenRulesProofs, TLAPS

\* The labels of a call that knows its kid, its key, and that its token is genuine.
HasKid     == {"lookup", "fetch", "verify", "jti_check", "jti_record", "check"}
HasKey     == {"verify", "jti_check", "jti_record", "check"}
IsVerified == {"jti_check", "jti_record", "check"}

CallInv(c) ==
  /\ pc[c] # "done" => result[c] = "pending"
  /\ pc[c] \in HasKid \/ Accepted(c) => Kid(c) \in Kids
  /\ pc[c] \in HasKey \/ Accepted(c) => <<Kid(c), public_key[c]>> \in everPublished
  /\ pc[c] \in IsVerified \/ Accepted(c) => Decoded(req[c].token, public_key[c]) = "Ok"

PublishedInv ==
  \A kid \in Kids : published[kid] # None => <<kid, published[kid]>> \in everPublished

CachedInv ==
  \A kid \in Kids : key_cache[kid] # None => <<kid, key_cache[kid].key>> \in everPublished

ProvenanceInv == TypeOK /\ PublishedInv /\ CachedInv /\ \A c \in Calls : CallInv(c)

\* What the assumptions say of the token a call presents.
LEMMA RequestTypes ==
  ASSUME TypeOK, NEW c \in Calls
  PROVE  /\ Kid(c) \in Kids \cup {None} /\ Signer(c) \in Keys
         /\ Body(c) # None => Body(c) \in Claims /\ Jti(c) \in Jtis
<1>1. req[c].token \in Token
  BY ValidatorAssumption DEF TypeOK
<1> QED
  BY <1>1 DEF Token, Claims, Kid, Signer, Body, Jti

\* A decoded token is signed with the call's key and has a body.
LEMMA DecodedToken ==
  ASSUME NEW c \in Calls, Decoded(req[c].token, public_key[c]) = "Ok"
  PROVE  Signer(c) = public_key[c] /\ Body(c) # None
BY DEF Decoded, Signer, Body

\* Every verdict is one of the values a call may return.
LEMMA VerdictTypes ==
  ASSUME NEW kid, NEW c, NEW wl, NEW t
  PROVE  Verdict(kid, c, wl, t) \in {"Ok"} \cup Errors
BY DEF Verdict, Verdicts, Errors

LEMMA DecodedTypes ==
  ASSUME NEW token, NEW key
  PROVE  Decoded(token, key) \in {"Ok"} \cup Errors
BY DEF Decoded, Errors

\* The current second is a natural number.
LEMMA SecondTypes ==
  ASSUME NEW t \in Nat
  PROVE  t \div TicksPerSecond \in Nat
<1> DEFINE q == t \div TicksPerSecond
<1>1. TicksPerSecond \in Nat /\ TicksPerSecond > 0
  BY ValidatorAssumption
<1>2. /\ q \in Int /\ t % TicksPerSecond \in 0 .. (TicksPerSecond - 1)
      /\ t = TicksPerSecond * q + (t % TicksPerSecond)
  BY <1>1
<1> HIDE DEF q
<1>3. q < 0 => TicksPerSecond * q <= -TicksPerSecond
  BY <1>1, <1>2
<1> QED
  BY <1>1, <1>2, <1>3 DEF q

LEMMA ProvenanceInit == Init => ProvenanceInv
<1> SUFFICES ASSUME Init PROVE ProvenanceInv
  OBVIOUS
<1>1. published \in [Kids -> Keys \cup {None}]
  BY DEF Init
<1>2. everPublished \subseteq Kids \X Keys
  BY <1>1 DEF Init
<1>3. TypeOK
  BY <1>1, <1>2 DEF Init, TypeOK, Labels
<1>4. PublishedInv /\ CachedInv
  BY DEF Init, PublishedInv, CachedInv
<1>5. \A c \in Calls : CallInv(c)
  BY DEF Init, CallInv, HasKid, HasKey, IsVerified, Accepted
<1> QED
  BY <1>3, <1>4, <1>5 DEF ProvenanceInv

\* A call that returns anything but Ok and touches nothing shared but the poison.
LEMMA FailureKeepsProvenance ==
  ASSUME ProvenanceInv, NEW c \in Calls, NEW r \in Errors \cup {"cancelled"},
         Return(c, r), poisoned' \in BOOLEAN,
         UNCHANGED <<clock, published, key_cache, jti_seen, everPublished>>,
         UNCHANGED <<req, public_key, now, fetched, outlived, racers>>
  PROVE  ProvenanceInv'
<1> USE DEF Return
<1>1. r # "Ok" /\ "done" \in Labels
  BY DEF Errors, Verdicts, Labels
<1>2. TypeOK'
  BY <1>1 DEF ProvenanceInv, TypeOK
<1>3. PublishedInv' /\ CachedInv'
  BY DEF ProvenanceInv, PublishedInv, CachedInv
<1>4. ASSUME NEW d \in Calls PROVE CallInv(d)'
  <2>1. CASE d = c
    BY <1>1, <2>1
       DEF ProvenanceInv, TypeOK, CallInv, Accepted, HasKid, HasKey, IsVerified
  <2>2. CASE d # c
    BY <2>2 DEF ProvenanceInv, TypeOK, CallInv, Accepted, Kid
  <2> QED
    BY <2>1, <2>2
<1> QED
  BY <1>2, <1>3, <1>4 DEF ProvenanceInv

\* A call that moves on to a label which asks for no more than it knows.
LEMMA MoveKeepsProvenance ==
  ASSUME ProvenanceInv, NEW c \in Calls, NEW label \in Labels, pc[c] # "done",
         label # "done", Goto(c, label),
         label \in HasKid => Kid(c) \in Kids,
         label \in HasKey => <<Kid(c), public_key[c]>> \in everPublished,
         label \in IsVerified => Decoded(req[c].token, public_key[c]) = "Ok",
         UNCHANGED <<published, key_cache, req, public_key, everPublished>>,
         clock' \in Nat, poisoned' = poisoned, jti_seen' \subseteq Jtis, now' \in [Calls -> Nat],
         fetched' \subseteq Calls, outlived' \subseteq Calls,
         racers' \in [Calls -> SUBSET Calls]
  PROVE  ProvenanceInv'
<1> USE DEF Goto
<1>1. TypeOK'
  BY DEF ProvenanceInv, TypeOK
<1>2. PublishedInv' /\ CachedInv'
  BY DEF ProvenanceInv, PublishedInv, CachedInv
<1>3. ASSUME NEW d \in Calls PROVE CallInv(d)'
  <2>1. CASE d = c
    BY <2>1 DEF ProvenanceInv, TypeOK, CallInv, Accepted, Kid
  <2>2. CASE d # c
    BY <2>2 DEF ProvenanceInv, TypeOK, CallInv, Accepted, Kid
  <2> QED
    BY <2>1, <2>2
<1> QED
  BY <1>1, <1>2, <1>3 DEF ProvenanceInv

\* A call that takes a key which was published under its kid.
LEMMA KeyKeepsProvenance ==
  ASSUME ProvenanceInv, NEW c \in Calls, NEW key \in Keys, pc[c] \in {"lookup", "fetch"},
         Goto(c, "verify"), public_key' = [public_key EXCEPT ![c] = key],
         <<Kid(c), key>> \in everPublished,
         UNCHANGED <<shared, req, now, outlived, racers>>, fetched' \subseteq Calls
  PROVE  ProvenanceInv'
<1> USE DEF Goto
<1>1. TypeOK'
  BY DEF ProvenanceInv, TypeOK, shared, Labels
<1>2. PublishedInv' /\ CachedInv'
  BY DEF ProvenanceInv, PublishedInv, CachedInv, shared
<1>3. ASSUME NEW d \in Calls PROVE CallInv(d)'
  <2>1. CASE d = c
    BY <2>1
       DEF ProvenanceInv, TypeOK, CallInv, Accepted, Kid, HasKid, HasKey, IsVerified, shared
  <2>2. CASE d # c
    BY <2>2 DEF ProvenanceInv, TypeOK, CallInv, Accepted, Kid, shared
  <2> QED
    BY <2>1, <2>2
<1> QED
  BY <1>1, <1>2, <1>3 DEF ProvenanceInv

\* An accepting call stores, if anything, the key it verified the token with.
LEMMA AcceptKeepsProvenance ==
  ASSUME ProvenanceInv, NEW c \in Calls, Accept(c)
  PROVE  ProvenanceInv'
<1> USE DEF Accept, Return
<1>1. /\ Kid(c) \in Kids /\ public_key[c] \in Keys
      /\ <<Kid(c), public_key[c]>> \in everPublished
      /\ Decoded(req[c].token, public_key[c]) = "Ok"
  BY DEF ProvenanceInv, TypeOK, CallInv, HasKid, HasKey, IsVerified
<1>2. key_cache' \in [Kids -> Entry \cup {None}]
  BY <1>1 DEF ProvenanceInv, TypeOK, OrInsert, Entry
<1>3. TypeOK'
  BY <1>2 DEF ProvenanceInv, TypeOK, Labels
<1>4. PublishedInv'
  BY DEF ProvenanceInv, PublishedInv
<1>5. CachedInv'
  BY <1>1 DEF ProvenanceInv, TypeOK, CachedInv, OrInsert
<1>6. ASSUME NEW d \in Calls PROVE CallInv(d)'
  <2>1. CASE d = c
    BY <1>1, <2>1 DEF ProvenanceInv, TypeOK, CallInv, Kid, HasKid, HasKey, IsVerified
  <2>2. CASE d # c
    BY <2>2 DEF ProvenanceInv, TypeOK, CallInv, Accepted, Kid
  <2> QED
    BY <2>1, <2>2
<1> QED
  BY <1>3, <1>4, <1>5, <1>6 DEF ProvenanceInv

\* The clock, the owners of keys, and the removal of an entry.
LEMMA SharedKeepsProvenance ==
  ASSUME ProvenanceInv, UNCHANGED <<locals, poisoned, jti_seen>>, clock' \in Nat,
         published' \in [Kids -> Keys \cup {None}],
         everPublished' \subseteq Kids \X Keys, everPublished \subseteq everPublished',
         PublishedInv', key_cache' = key_cache
  PROVE  ProvenanceInv'
<1>1. TypeOK'
  BY DEF ProvenanceInv, TypeOK, locals
<1>2. CachedInv'
  BY DEF ProvenanceInv, CachedInv
<1>3. ASSUME NEW c \in Calls PROVE CallInv(c)'
  BY DEF ProvenanceInv, CallInv, Accepted, Kid, locals
<1> QED
  BY <1>1, <1>2, <1>3 DEF ProvenanceInv

\* Removing the stale entry, then on to the keyserver.
LEMMA StaleKeepsProvenance ==
  ASSUME ProvenanceInv, NEW c \in Calls, LookupStale(c)
  PROVE  ProvenanceInv'
<1> USE DEF LookupStale, Goto, Holders
<1>1. TypeOK'
  BY DEF ProvenanceInv, TypeOK, Labels
<1>2. PublishedInv' /\ CachedInv'
  BY DEF ProvenanceInv, TypeOK, PublishedInv, CachedInv
<1>3. ASSUME NEW d \in Calls PROVE CallInv(d)'
  BY DEF ProvenanceInv, TypeOK, CallInv, Accepted, Kid, HasKid, HasKey, IsVerified
<1> QED
  BY <1>1, <1>2, <1>3 DEF ProvenanceInv

\* Every action keeps ProvenanceInv.
LEMMA ProvenanceStep == ProvenanceInv /\ [Next]_vars => ProvenanceInv'
<1> SUFFICES ASSUME ProvenanceInv, [Next]_vars PROVE ProvenanceInv'
  OBVIOUS
<1>1. ASSUME NEW c \in Calls, DecodeHeader(c) PROVE ProvenanceInv'
  <2>1. CASE Return(c, "InvalidToken") \/ Return(c, "NoKIDFound")
    BY <1>1, <2>1, FailureKeepsProvenance DEF DecodeHeader, Errors, ProvenanceInv, TypeOK, shared
  <2>2. CASE Goto(c, "lookup") /\ Kid(c) # None
    BY <1>1, <2>2, MoveKeepsProvenance, RequestTypes
       DEF DecodeHeader, ProvenanceInv, TypeOK, shared, Labels, HasKey, IsVerified
  <2> QED
    BY <1>1, <2>1, <2>2 DEF DecodeHeader
<1>2. ASSUME NEW c \in Calls, Cancel(c) PROVE ProvenanceInv'
  BY <1>2, FailureKeepsProvenance DEF Cancel, ProvenanceInv, TypeOK, shared
<1>3. ASSUME NEW c \in Calls, Step(c) PROVE ProvenanceInv'
  <2>1. CASE LookupHit(c)
    <3>1. /\ Kid(c) \in Kids /\ key_cache[Kid(c)] # None
          /\ key_cache[Kid(c)].key \in Keys
          /\ <<Kid(c), key_cache[Kid(c)].key>> \in everPublished
      BY <2>1 DEF LookupHit, ProvenanceInv, TypeOK, CallInv, CachedInv, Entry, HasKid
    <3> QED
      BY <2>1, <3>1, KeyKeepsProvenance DEF LookupHit, ProvenanceInv, TypeOK
  <2>2. CASE LookupStale(c)
    BY <2>2, StaleKeepsProvenance
  <2>3. CASE LookupMiss(c)
    BY <2>3, MoveKeepsProvenance
       DEF LookupMiss, ProvenanceInv, CallInv, TypeOK, shared, Labels, HasKid, HasKey, IsVerified
  <2>4. CASE FetchOk(c)
    <3>1. /\ Kid(c) \in Kids /\ published[Kid(c)] \in Keys
          /\ <<Kid(c), published[Kid(c)]>> \in everPublished
      BY <2>4 DEF FetchOk, ProvenanceInv, TypeOK, CallInv, PublishedInv, HasKid
    <3> QED
      BY <2>4, <3>1, KeyKeepsProvenance DEF FetchOk, ProvenanceInv, TypeOK
  <2>5. CASE FetchFails(c)
    BY <2>5, FailureKeepsProvenance DEF FetchFails, Errors, ProvenanceInv, TypeOK, shared
  <2>6. CASE VerifyFails(c)
    BY <2>6, FailureKeepsProvenance, DecodedTypes DEF VerifyFails, ProvenanceInv, TypeOK, shared
  <2>7. CASE Verify(c)
    <3>1. clock \div TicksPerSecond \in Nat
      BY SecondTypes DEF ProvenanceInv, TypeOK
    <3>2. now' \in [Calls -> Nat]
      BY <2>7, <3>1 DEF Verify, ProvenanceInv, TypeOK
    <3> QED
      BY <2>7, <3>2, MoveKeepsProvenance
         DEF Verify, ProvenanceInv, CallInv, TypeOK, shared, Labels, HasKid, HasKey
  <2>8. CASE JtiDuplicate(c)
    BY <2>8, FailureKeepsProvenance DEF JtiDuplicate, Errors, ProvenanceInv, TypeOK, shared
  <2>9. CASE JtiFresh(c)
    <3>1. racers' \in [Calls -> SUBSET Calls]
      BY <2>9 DEF JtiFresh, AboutToRecord, ProvenanceInv, TypeOK
    <3> QED
      BY <2>9, <3>1, MoveKeepsProvenance
         DEF JtiFresh, ProvenanceInv, CallInv, TypeOK, shared, Labels, HasKid, HasKey, IsVerified
  <2>10. CASE JtiRecord(c)
    <3>1. Jti(c) \in Jtis
      BY <2>10, RequestTypes, DecodedToken DEF JtiRecord, ProvenanceInv, CallInv, IsVerified
    <3> QED
      BY <2>10, <3>1, MoveKeepsProvenance
         DEF JtiRecord, ProvenanceInv, CallInv, TypeOK, Labels, HasKid, HasKey, IsVerified
  <2>11. CASE Reject(c)
    BY <2>11, FailureKeepsProvenance, VerdictTypes
       DEF Reject, Checked, ProvenanceInv, TypeOK, shared
  <2>12. CASE Accept(c)
    BY <2>12, AcceptKeepsProvenance
  <2>13. CASE PoisonedCache(c)
    BY <2>13, FailureKeepsProvenance
       DEF PoisonedCache, Errors, Verdicts, ProvenanceInv, TypeOK, shared
  <2> QED
    BY <1>3, <2>1, <2>2, <2>3, <2>4, <2>5, <2>6, <2>7, <2>8, <2>9, <2>10, <2>11, <2>12, <2>13
       DEF Step
<1>4. CASE Tick \/ StepBack
  <2>1. /\ clock' \in Nat
        /\ UNCHANGED <<published, key_cache, poisoned, jti_seen, everPublished, locals>>
    BY <1>4 DEF Tick, StepBack, ProvenanceInv, TypeOK
  <2> QED
    BY <2>1, SharedKeepsProvenance DEF ProvenanceInv, TypeOK, PublishedInv
<1>5. ASSUME NEW kid \in Kids, Publish(kid) PROVE ProvenanceInv'
  <2>1. PICK key \in Keys \cup {None} :
          /\ published' = [published EXCEPT ![kid] = key]
          /\ everPublished' = everPublished \cup ({<<kid, key>>} \ {<<kid, None>>})
    BY <1>5, ValidatorAssumption DEF Publish
  <2>2. /\ published' \in [Kids -> Keys \cup {None}]
        /\ everPublished' \subseteq Kids \X Keys
    BY <2>1 DEF ProvenanceInv, TypeOK
  <2>3. PublishedInv'
    BY <2>1 DEF ProvenanceInv, TypeOK, PublishedInv
  <2> QED
    BY <1>5, <2>1, <2>2, <2>3, SharedKeepsProvenance
       DEF Publish, locals, ProvenanceInv, TypeOK
<1>6. CASE UNCHANGED vars
  BY <1>6, SharedKeepsProvenance
     DEF vars, shared, locals, ProvenanceInv, TypeOK, PublishedInv
<1>7. ASSUME NEW c \in Calls, LookupPanics(c) PROVE ProvenanceInv'
  BY <1>7, FailureKeepsProvenance DEF LookupPanics, Errors, Verdicts
<1> QED
  BY <1>1, <1>2, <1>3, <1>4, <1>5, <1>6, <1>7 DEF Next

LEMMA Provenance == Spec => []ProvenanceInv
BY ProvenanceInit, ProvenanceStep, PTL DEF Spec

\* Every reachable state is well typed.
THEOREM TypeCorrect == Spec => []TypeOK
BY Provenance, PTL DEF ProvenanceInv

\* Whatever the interleaving, an accepted token was signed with a key that had
\* been published under its kid.
THEOREM KeysWerePublished == Spec => []AcceptedKeyWasPublished
<1>1. ProvenanceInv => AcceptedKeyWasPublished
  BY DecodedToken DEF ProvenanceInv, CallInv, AcceptedKeyWasPublished
<1> QED
  BY <1>1, Provenance, PTL

-------------------------------------------------------------------------------
\* A call that has returned stays as it is, and only Accept returns Ok.
LEMMA ReturnedIsFinal ==
  ASSUME ProvenanceInv, [Next]_vars, NEW d \in Calls
  PROVE  /\ req' = req
         /\ pc[d] = "done" => UNCHANGED <<pc[d], result[d], now[d], public_key[d]>>
         /\ Accepted(d)' => Accepted(d) \/ Accept(d)
<1> USE DEF ProvenanceInv, TypeOK, Accepted, Goto, Return
<1>1. ASSUME NEW c \in Calls,
             DecodeHeader(c) \/ Cancel(c) \/ FetchFails(c) \/ JtiDuplicate(c)
             \/ LookupPanics(c) \/ PoisonedCache(c) \/ VerifyFails(c) \/ Reject(c)
      PROVE  /\ req' = req /\ pc[c] # "done" /\ UNCHANGED <<now, public_key>>
             /\ \A e \in Calls \ {c} : UNCHANGED <<pc[e], result[e]>>
             /\ result'[c] # "Ok"
  <2>1. CASE DecodeHeader(c) \/ Cancel(c) \/ FetchFails(c) \/ JtiDuplicate(c)
    BY <2>1 DEF DecodeHeader, Cancel, FetchFails, JtiDuplicate, CallInv
  <2>2. CASE LookupPanics(c) \/ PoisonedCache(c)
    BY <2>2 DEF LookupPanics, PoisonedCache
  <2>3. CASE VerifyFails(c) \/ Reject(c)
    BY <2>3 DEF VerifyFails, Reject
  <2> QED BY <1>1, <2>1, <2>2, <2>3
<1>2. ASSUME NEW c \in Calls,
             \/ LookupHit(c) \/ LookupStale(c) \/ LookupMiss(c) \/ FetchOk(c)
             \/ Verify(c) \/ JtiFresh(c) \/ JtiRecord(c)
      PROVE  /\ req' = req /\ pc[c] # "done" /\ result' = result
             /\ \A e \in Calls \ {c} : UNCHANGED <<pc[e], now[e], public_key[e]>>
  BY <1>2 DEF LookupHit, LookupStale, LookupMiss, FetchOk, Verify, JtiFresh, JtiRecord
<1>3. ASSUME NEW c \in Calls, Accept(c)
      PROVE  /\ req' = req /\ pc[c] # "done" /\ UNCHANGED <<now, public_key>>
             /\ \A e \in Calls \ {c} : UNCHANGED <<pc[e], result[e]>>
  BY <1>3 DEF Accept
<1>4. CASE Tick \/ StepBack \/ (\E kid \in Kids : Publish(kid)) \/ UNCHANGED vars
  BY <1>4 DEF Tick, StepBack, Publish, locals, vars
<1>5. ASSUME NEW c \in Calls, DecodeHeader(c) \/ Cancel(c) \/ LookupPanics(c) \/ Step(c)
      PROVE  /\ req' = req
             /\ pc[d] = "done" => UNCHANGED <<pc[d], result[d], now[d], public_key[d]>>
             /\ Accepted(d)' => Accepted(d) \/ Accept(d)
  BY <1>1, <1>2, <1>3, <1>5 DEF Step
<1> QED BY <1>4, <1>5 DEF Next

-------------------------------------------------------------------------------
\* Steps that change no entry and leave accepted calls accepted keep what is
\* known of the cache.
LEMMA CacheStep ==
  ProvenanceInv /\ CacheHoldsProvenKeys /\ [Next]_vars => CacheHoldsProvenKeys'
<1> SUFFICES ASSUME ProvenanceInv, CacheHoldsProvenKeys, [Next]_vars
             PROVE  CacheHoldsProvenKeys'
  OBVIOUS
<1>1. ASSUME NEW d \in Calls, Accepted(d)
      PROVE  Accepted(d)' /\ UNCHANGED <<Kid(d), Signer(d)>>
  <2>1. pc[d] = "done"
    BY <1>1 DEF ProvenanceInv, CallInv, Accepted
  <2> QED
    BY <1>1, <2>1, ReturnedIsFinal DEF Accepted, Kid, Signer
<1>2. ASSUME key_cache' = key_cache PROVE CacheHoldsProvenKeys'
  BY <1>1, <1>2 DEF CacheHoldsProvenKeys
<1>3. ASSUME NEW c \in Calls, LookupStale(c) PROVE CacheHoldsProvenKeys'
  <2>1. \A kid \in Kids : key_cache'[kid] \in {None, key_cache[kid]}
    BY <1>3 DEF LookupStale, ProvenanceInv, TypeOK
  <2> QED
    BY <1>1, <2>1 DEF CacheHoldsProvenKeys
<1>4. ASSUME NEW c \in Calls, Accept(c) PROVE CacheHoldsProvenKeys'
  <2>1. Decoded(req[c].token, public_key[c]) = "Ok"
    BY <1>4 DEF Accept, ProvenanceInv, CallInv, IsVerified
  <2>2. /\ Accepted(c)' /\ Kid(c)' = Kid(c) /\ Signer(c)' = public_key[c]
    BY <1>4, <2>1, DecodedToken
       DEF Accept, Return, Accepted, Kid, Signer, ProvenanceInv, TypeOK
  <2>3. ASSUME NEW kid \in Kids, key_cache'[kid] # key_cache[kid]
        PROVE  kid = Kid(c) /\ key_cache'[kid].key = public_key[c]
    BY <1>4, <2>3 DEF Accept, OrInsert, ProvenanceInv, TypeOK
  <2> QED
    BY <1>1, <2>2, <2>3 DEF CacheHoldsProvenKeys
<1>5. \/ key_cache' = key_cache
      \/ \E c \in Calls : LookupStale(c) \/ Accept(c)
  BY DEF Next, DecodeHeader, Cancel, Step, LookupHit, LookupPanics, LookupMiss, FetchOk,
         FetchFails, VerifyFails, Verify, JtiDuplicate, JtiFresh, JtiRecord, Reject,
         PoisonedCache, Tick, StepBack, Publish, shared, vars
<1> QED
  BY <1>2, <1>3, <1>4, <1>5

\* The cache only ever holds keys that some call accepted a token with.
THEOREM CacheIsProven == Spec => []CacheHoldsProvenKeys
<1>1. Init => CacheHoldsProvenKeys
  BY DEF Init, CacheHoldsProvenKeys
<1> QED
  BY <1>1, Provenance, CacheStep, PTL DEF Spec

\* Only finding it stale takes an entry out of the cache, and nothing replaces it.
THEOREM EntriesAreNotProlonged == Spec => NoSlidingExpiry
<1>1. ProvenanceInv /\ [Next]_vars => [\A kid \in Kids : KeptUntilStale(kid)]_vars
  <2> SUFFICES ASSUME ProvenanceInv, [Next]_vars, NEW kid \in Kids
               PROVE  KeptUntilStale(kid)
    OBVIOUS
  <2>1. ASSUME NEW c \in Calls, LookupStale(c) PROVE KeptUntilStale(kid)
    BY <2>1 DEF KeptUntilStale, LookupStale, ProvenanceInv, TypeOK
  <2>2. ASSUME NEW c \in Calls, Accept(c) PROVE KeptUntilStale(kid)
    BY <2>2 DEF KeptUntilStale, Accept, OrInsert, ProvenanceInv, TypeOK
  <2>3. \/ key_cache' = key_cache
        \/ \E c \in Calls : LookupStale(c) \/ Accept(c)
    BY DEF Next, DecodeHeader, Cancel, Step, LookupHit, LookupPanics, LookupMiss, FetchOk,
           FetchFails, VerifyFails, Verify, JtiDuplicate, JtiFresh, JtiRecord, Reject,
           PoisonedCache, Tick, StepBack, Publish, shared, vars
  <2> QED
    BY <2>1, <2>2, <2>3 DEF KeptUntilStale
<1> QED
  BY <1>1, Provenance, PTL DEF Spec, NoSlidingExpiry

\* The cache still has an entry for the kid of a call that took its key from there,
\* unless a lookup removed it meanwhile.
HeldInv ==
  \A c \in Calls : pc[c] \in HasKey /\ c \notin fetched \cup outlived => key_cache[Kid(c)] # None

LEMMA HeldStep == ProvenanceInv /\ HeldInv /\ [Next]_vars => HeldInv'
<1> SUFFICES ASSUME ProvenanceInv, HeldInv, [Next]_vars PROVE HeldInv'
  OBVIOUS
<1> USE DEF ProvenanceInv, TypeOK, HasKey, Goto, Return
\* A step after which no more calls hold a key, and no entry has gone.
<1>1. ASSUME req' = req,
             \A d \in Calls : pc'[d] \in HasKey /\ d \notin fetched' \cup outlived'
                             => pc[d] \in HasKey /\ d \notin fetched \cup outlived,
             \A kid \in Kids : key_cache[kid] # None => key_cache'[kid] # None
      PROVE  HeldInv'
  BY <1>1 DEF HeldInv, Kid, CallInv, HasKid
<1>2. ASSUME NEW c \in Calls,
             DecodeHeader(c) \/ Cancel(c) \/ LookupPanics(c) \/ LookupMiss(c) \/ FetchFails(c)
      PROVE  HeldInv'
  BY <1>1, <1>2 DEF DecodeHeader, Cancel, LookupPanics, LookupMiss, FetchFails, shared
<1>3. ASSUME NEW c \in Calls, VerifyFails(c) \/ JtiDuplicate(c) \/ Reject(c) \/ PoisonedCache(c)
      PROVE  HeldInv'
  BY <1>1, <1>3 DEF VerifyFails, JtiDuplicate, Reject, PoisonedCache, shared
<1>4. ASSUME NEW c \in Calls, Verify(c) \/ JtiFresh(c) \/ JtiRecord(c) PROVE HeldInv'
  BY <1>1, <1>4 DEF Verify, JtiFresh, JtiRecord, shared
<1>5. ASSUME NEW c \in Calls, FetchOk(c) PROVE HeldInv'
  BY <1>1, <1>5 DEF FetchOk, shared
<1>6. ASSUME NEW c \in Calls, Accept(c) PROVE HeldInv'
  <2>1. \A kid \in Kids : key_cache[kid] # None => key_cache'[kid] = key_cache[kid]
    BY <1>6 DEF Accept, OrInsert
  <2> QED BY <1>1, <1>6, <2>1 DEF Accept
<1>7. ASSUME NEW c \in Calls, LookupHit(c) PROVE HeldInv'
  BY <1>7 DEF LookupHit, HeldInv, Kid, shared
<1>8. ASSUME NEW c \in Calls, LookupStale(c) PROVE HeldInv'
  <2> SUFFICES ASSUME NEW d \in Calls, pc'[d] \in HasKey, d \notin fetched' \cup outlived'
               PROVE  key_cache'[Kid(d)] # None
    BY <1>8 DEF HeldInv, LookupStale, Kid
  <2>1. d # c /\ pc[d] \in HasKey /\ d \notin fetched \cup outlived
    BY <1>8 DEF LookupStale
  <2>2. Kid(d) # Kid(c)
    BY <1>8, <2>1 DEF LookupStale, Holders
  <2> QED BY <1>8, <2>1, <2>2 DEF LookupStale, HeldInv, CallInv, HasKid
<1>9. CASE Tick \/ StepBack \/ (\E kid \in Kids : Publish(kid)) \/ UNCHANGED vars
  BY <1>1, <1>9 DEF Tick, StepBack, Publish, locals, shared, vars
<1> QED
  BY <1>2, <1>3, <1>4, <1>5, <1>6, <1>7, <1>8, <1>9 DEF Next, Step

\* A key stays in use beyond its duration without a fetch only through calls that
\* overlap the removal of its entry.
THEOREM RefillsOverlap == Spec => RefillNeedsOverlap
<1>1. Init => HeldInv
  BY DEF Init, HeldInv, HasKey
<1>2. ProvenanceInv /\ HeldInv /\ [Next]_vars
        => [\A c \in Calls : Accept(c) /\ key_cache' # key_cache => c \in fetched \cup outlived]_vars
  BY DEF HeldInv, HasKey, Accept, OrInsert
<1> QED
  BY <1>1, <1>2, Provenance, HeldStep, PTL DEF Spec, RefillNeedsOverlap

-------------------------------------------------------------------------------
\* Calls that passed the nonce check, and those that inserted their nonce too.
Passed(c)   == pc[c] \in {"jti_record", "check"} \/ Accepted(c)
Recorded(c) == pc[c] = "check" \/ Accepted(c)

\* The strengthening of ReplayNeedsOverlap: what it says of accepted calls holds
\* from the moment they pass the check, because an insertion is never undone.
NonceInv ==
  validate_jti =>
    /\ \A c \in Calls : Recorded(c) => Jti(c) \in jti_seen
    /\ \A c, d \in Calls :
         c # d /\ Passed(c) /\ Passed(d) /\ Jti(c) = Jti(d)
           => c \in racers[d] \/ d \in racers[c]

\* A call that is not about to record a nonce, and ends up no further than it was.
LEMMA NonceFrame ==
  ASSUME ProvenanceInv, NonceInv, req' = req, jti_seen \subseteq jti_seen',
         racers' = racers,
         \A c \in Calls : Passed(c)' => Passed(c),
         \A c \in Calls : Recorded(c)' => Recorded(c) \/ Jti(c) \in jti_seen'
  PROVE  NonceInv'
BY DEF NonceInv, Jti, Body

LEMMA NonceStep == ProvenanceInv /\ NonceInv /\ [Next]_vars => NonceInv'
<1> SUFFICES ASSUME ProvenanceInv, NonceInv, [Next]_vars, validate_jti
             PROVE  NonceInv'
  BY DEF NonceInv
<1>1. ASSUME NEW c \in Calls, JtiFresh(c) PROVE NonceInv'
  <2> USE <1>1 DEF JtiFresh, Goto
  <2>1. \A d \in Calls : /\ Recorded(d)' => Recorded(d)
                         /\ Passed(d)' => Passed(d) \/ d = c
    BY DEF Recorded, Passed, Accepted, ProvenanceInv, TypeOK
  <2>2. UNCHANGED <<req, jti_seen>>
    BY DEF shared
  <2>3. \A d \in Calls \ {c} : racers'[d] = racers[d]
    BY DEF ProvenanceInv, TypeOK
  <2>4. ASSUME NEW d \in Calls \ {c}, Passed(d), Jti(d) = Jti(c)
        PROVE  d \in racers'[c]
    <3>1. ~Recorded(d)
      BY <2>4 DEF NonceInv
    <3>2. d \in AboutToRecord(Jti(c))
      BY <2>4, <3>1 DEF Passed, Recorded, AboutToRecord
    <3> QED
      BY <3>2 DEF ProvenanceInv, TypeOK
  <2> QED
    BY <2>1, <2>2, <2>3, <2>4 DEF NonceInv, Jti, Body
<1>2. ASSUME NEW c \in Calls, JtiRecord(c) PROVE NonceInv'
  <2>1. \A d \in Calls : Passed(d)' => Passed(d)
    BY <1>2 DEF JtiRecord, Goto, Passed, Accepted, ProvenanceInv, TypeOK
  <2>2. \A d \in Calls : Recorded(d)' => Recorded(d) \/ Jti(d) \in jti_seen'
    BY <1>2 DEF JtiRecord, Goto, Recorded, Accepted, ProvenanceInv, TypeOK
  <2> QED
    BY <1>2, <2>1, <2>2, NonceFrame DEF JtiRecord
<1>3. ASSUME NEW c \in Calls, Accept(c) PROVE NonceInv'
  <2>1. \A d \in Calls : (Passed(d)' => Passed(d)) /\ (Recorded(d)' => Recorded(d))
    BY <1>3 DEF Accept, Return, Passed, Recorded, Accepted, ProvenanceInv, TypeOK
  <2> QED
    BY <1>3, <2>1, NonceFrame DEF Accept
<1>4. ASSUME NEW c \in Calls,
             \/ DecodeHeader(c) \/ Cancel(c) \/ LookupHit(c) \/ LookupStale(c)
             \/ LookupMiss(c) \/ FetchOk(c) \/ FetchFails(c) \/ VerifyFails(c)
             \/ Verify(c) \/ JtiDuplicate(c) \/ Reject(c) \/ LookupPanics(c) \/ PoisonedCache(c)
      PROVE  NonceInv'
  <2>1. /\ UNCHANGED <<req, jti_seen, racers>>
        /\ \A d \in Calls : (Passed(d)' => Passed(d)) /\ (Recorded(d)' => Recorded(d))
    <3>1. CASE DecodeHeader(c) \/ Cancel(c) \/ FetchFails(c) \/ JtiDuplicate(c)
      BY <3>1 DEF DecodeHeader, Cancel, FetchFails, JtiDuplicate, Goto, Return, shared,
            Passed, Recorded, Accepted, ProvenanceInv, TypeOK
    <3>2. CASE VerifyFails(c) \/ Reject(c)
      BY <3>2 DEF VerifyFails, Reject, Return, shared,
            Passed, Recorded, Accepted, ProvenanceInv, TypeOK
    <3>3. CASE LookupHit(c) \/ LookupStale(c) \/ LookupMiss(c) \/ FetchOk(c)
      BY <3>3 DEF LookupHit, LookupStale, LookupMiss, FetchOk, Goto, shared,
            Passed, Recorded, Accepted, ProvenanceInv, TypeOK
    <3>4. CASE Verify(c)
      BY <3>4 DEF Verify, Goto, shared, Passed, Recorded, Accepted, ProvenanceInv, TypeOK
    <3>5. CASE LookupPanics(c) \/ PoisonedCache(c)
      BY <3>5 DEF LookupPanics, PoisonedCache, Return, shared,
            Passed, Recorded, Accepted, ProvenanceInv, TypeOK
    <3> QED
      BY <1>4, <3>1, <3>2, <3>3, <3>4, <3>5
  <2> QED
    BY <2>1, NonceFrame
<1>5. CASE Tick \/ StepBack \/ (\E kid \in Kids : Publish(kid)) \/ UNCHANGED vars
  <2>1. UNCHANGED <<locals, jti_seen>>
    BY <1>5 DEF Tick, StepBack, Publish, vars, shared
  <2>2. \A c \in Calls : (Passed(c)' => Passed(c)) /\ (Recorded(c)' => Recorded(c))
    BY <2>1 DEF locals, Passed, Recorded, Accepted
  <2> QED
    BY <2>1, <2>2, NonceFrame DEF locals
<1> QED
  BY <1>1, <1>2, <1>3, <1>4, <1>5 DEF Next, Step

\* Two acceptances of one nonce need two calls inside the window between the
\* check and the insertion at the same time.
THEOREM ReplaysOverlap == Spec => []ReplayNeedsOverlap
<1>1. Init => NonceInv
  BY DEF Init, NonceInv, Passed, Recorded, Accepted
<1>2. NonceInv => ReplayNeedsOverlap
  BY DEF NonceInv, ReplayNeedsOverlap, Passed
<1> QED
  BY <1>1, <1>2, Provenance, NonceStep, PTL DEF Spec

\* An accepted call is one the rules passed at its second.
CheckedInv == \A c \in Calls : Accepted(c) => Checked(c) = "Ok"

(***************************************************************************)
(* An accepted token obeys every rule at the second its call read, and its *)
(* nonce is in the set by then, whatever other calls do (validator.rs      *)
(* 552-664).                                                               *)
(***************************************************************************)
THEOREM AcceptancesAreFull == Spec => []AcceptedInFull
<1>1. Init => NonceInv /\ CheckedInv
  BY DEF Init, NonceInv, CheckedInv, Passed, Recorded, Accepted
<1>2. ProvenanceInv /\ CheckedInv /\ [Next]_vars => CheckedInv'
  <2> SUFFICES ASSUME ProvenanceInv, CheckedInv, [Next]_vars, NEW c \in Calls, Accepted(c)'
               PROVE  Checked(c)' = "Ok"
    BY DEF CheckedInv
  <2>1. req' = req /\ (Accepted(c) \/ Accept(c))
    BY ReturnedIsFinal
  <2>2. CASE Accepted(c)
    <3>1. pc[c] = "done"
      BY <2>2 DEF ProvenanceInv, CallInv, Accepted
    <3>2. now'[c] = now[c] /\ Checked(c) = "Ok"
      BY <2>2, <3>1, ReturnedIsFinal DEF CheckedInv
    <3> QED BY <2>1, <3>2 DEF Checked, Kid, Body
  <2>3. CASE Accept(c)
    BY <2>3 DEF Accept, Checked, Kid, Body
  <2> QED BY <2>1, <2>2, <2>3
<1>3. ProvenanceInv /\ NonceInv /\ CheckedInv => AcceptedInFull
  <2> SUFFICES ASSUME ProvenanceInv, NonceInv, CheckedInv, NEW c \in Calls, Accepted(c)
               PROVE  /\ validate_jti => Jti(c) \in jti_seen
                      /\ NoOverflow(Body(c), now[c])
                           => Conforms(Kid(c), Body(c), req[c].wl, now[c])
    BY DEF AcceptedInFull
  <2>1. Kid(c) \in Kids /\ Body(c) \in Claims
    BY DecodedToken, RequestTypes DEF ProvenanceInv, CallInv
  <2>2. req[c].wl \in Whitelist /\ now[c] \in Int
    BY ValidatorAssumption DEF ProvenanceInv, TypeOK
  <2>3. Verdict(Kid(c), Body(c), req[c].wl, now[c]) = "Ok"
    BY DEF CheckedInv, Checked
  <2> QED
    BY <2>1, <2>2, <2>3, AcceptedMeansConforming DEF NonceInv, Recorded
<1> QED
  BY <1>1, <1>2, <1>3, Provenance, NonceStep, PTL DEF Spec

-------------------------------------------------------------------------------
\* A call that recorded the nonce of a token with a published signature.
Original(d) ==
  /\ pc[d] \in {"check", "done"}
  /\ Body(d) # None /\ <<Kid(d), Signer(d)>> \in everPublished

\* The strengthening of DuplicateHasAnOriginal: every nonce in the set, and not
\* only those that have tripped a call, has an original.
OriginInv ==
  /\ DuplicateHasAnOriginal
  /\ \A j \in jti_seen : \E d \in Calls : Original(d) /\ Jti(d) = j

\* What a step can do to the nonces and to calls other than the one that acts.
LEMMA NonceFates ==
  ASSUME ProvenanceInv, [Next]_vars
  PROVE  /\ req' = req /\ everPublished \subseteq everPublished'
         /\ \A d \in Calls : pc[d] \in {"check", "done"} => pc'[d] \in {"check", "done"}
         /\ \A d \in Calls : result'[d] = "DuplicateJTI" =>
              \/ result[d] = "DuplicateJTI"
              \/ JtiDuplicate(d)
         /\ \/ jti_seen' = jti_seen
            \/ \E c \in Calls : JtiRecord(c)
<1>1. ASSUME NEW c \in Calls,
             \/ DecodeHeader(c) \/ Cancel(c) \/ FetchFails(c) \/ VerifyFails(c) \/ Reject(c)
             \/ LookupPanics(c) \/ PoisonedCache(c)
      PROVE  /\ UNCHANGED <<req, jti_seen, everPublished>>
             /\ \A d \in Calls : d # c => UNCHANGED <<pc[d], result[d]>>
             /\ pc'[c] \in {"lookup", "done"} /\ pc[c] # "done"
             /\ pc[c] = "check" => pc'[c] = "done"
             /\ result'[c] # "DuplicateJTI"
  <2>1. CASE VerifyFails(c)
    BY <2>1 DEF VerifyFails, Decoded, Return, shared, ProvenanceInv, TypeOK
  <2>2. CASE Reject(c)
    <3>1. Checked(c) # "DuplicateJTI"
      BY DEF Checked, Verdict
    <3> QED
      BY <2>2, <3>1 DEF Reject, Return, shared, ProvenanceInv, TypeOK
  <2>3. CASE DecodeHeader(c) \/ Cancel(c) \/ FetchFails(c)
    BY <2>3 DEF DecodeHeader, Cancel, FetchFails, Goto, Return, shared,
          ProvenanceInv, TypeOK, CallInv
  <2>4. CASE LookupPanics(c) \/ PoisonedCache(c)
    BY <2>4 DEF LookupPanics, PoisonedCache, Return, shared, ProvenanceInv, TypeOK
  <2> QED
    BY <1>1, <2>1, <2>2, <2>3, <2>4
<1>2. ASSUME NEW c \in Calls,
             \/ LookupHit(c) \/ LookupStale(c) \/ LookupMiss(c) \/ FetchOk(c) \/ Verify(c)
             \/ JtiFresh(c) \/ JtiRecord(c)
      PROVE  /\ UNCHANGED <<req, everPublished, result>>
             /\ \A d \in Calls : d # c => pc'[d] = pc[d]
             /\ pc[c] \notin {"check", "done"}
             /\ jti_seen' = jti_seen \/ JtiRecord(c)
  BY <1>2 DEF LookupHit, LookupStale, LookupMiss, FetchOk, Verify, JtiFresh, JtiRecord,
        Goto, shared, ProvenanceInv, TypeOK
<1>3. ASSUME NEW c \in Calls, JtiDuplicate(c) \/ Accept(c)
      PROVE  /\ UNCHANGED <<req, jti_seen, everPublished>>
             /\ \A d \in Calls : d # c => UNCHANGED <<pc[d], result[d]>>
             /\ pc'[c] = "done" /\ (result'[c] = "DuplicateJTI" => JtiDuplicate(c))
  BY <1>3 DEF JtiDuplicate, Accept, Return, shared, ProvenanceInv, TypeOK
<1>4. ASSUME Tick \/ StepBack \/ (\E kid \in Kids : Publish(kid)) \/ UNCHANGED vars
      PROVE  /\ UNCHANGED <<req, pc, result, jti_seen>>
             /\ everPublished \subseteq everPublished'
  BY <1>4 DEF Tick, StepBack, Publish, vars, shared, locals
<1>5. ASSUME NEW c \in Calls, DecodeHeader(c) \/ Cancel(c) \/ LookupPanics(c) \/ Step(c)
      PROVE  /\ req' = req /\ everPublished' = everPublished
             /\ \A d \in Calls :
                  pc[d] \in {"check", "done"} => pc'[d] \in {"check", "done"}
             /\ \A d \in Calls : result'[d] = "DuplicateJTI" =>
                  result[d] = "DuplicateJTI" \/ JtiDuplicate(d)
             /\ jti_seen' = jti_seen \/ JtiRecord(c)
  BY <1>1, <1>2, <1>3, <1>5 DEF Step
<1> QED
  BY <1>4, <1>5 DEF Next

LEMMA OriginStep == ProvenanceInv /\ OriginInv /\ [Next]_vars => OriginInv'
<1> SUFFICES ASSUME ProvenanceInv, OriginInv, [Next]_vars PROVE OriginInv'
  OBVIOUS
<1>1. \A d \in Calls : /\ UNCHANGED <<Body(d), Jti(d), Kid(d), Signer(d)>>
                       /\ Original(d) => Original(d)'
  BY NonceFates DEF Original, Body, Jti, Kid, Signer
<1>2. ASSUME NEW c \in Calls, result'[c] = "DuplicateJTI"
      PROVE  \E d \in Calls \ {c} :
               /\ Body(d)' # None /\ Jti(d)' = Jti(c)'
               /\ <<Kid(d)', Signer(d)'>> \in everPublished'
  <2>1. CASE result[c] = "DuplicateJTI"
    <3>1. PICK d \in Calls \ {c} :
            /\ Body(d) # None /\ Jti(d) = Jti(c) /\ <<Kid(d), Signer(d)>> \in everPublished
      BY <2>1 DEF OriginInv, DuplicateHasAnOriginal
    <3> QED
      BY <1>1, <3>1, NonceFates
  <2>2. CASE JtiDuplicate(c)
    <3>1. PICK d \in Calls : Original(d) /\ Jti(d) = Jti(c)
      BY <2>2 DEF JtiDuplicate, OriginInv
    <3>2. d # c
      BY <2>2, <3>1 DEF JtiDuplicate, Original
    <3> QED
      BY <1>1, <3>1, <3>2 DEF Original
  <2> QED
    BY <1>2, <2>1, <2>2, NonceFates
<1>3. ASSUME NEW j \in jti_seen'
      PROVE  \E d \in Calls : Original(d)' /\ Jti(d)' = j
  <2>1. CASE j \in jti_seen
    BY <1>1, <2>1 DEF OriginInv
  <2>2. ASSUME NEW c \in Calls, JtiRecord(c), j = Jti(c)
        PROVE  Original(c)'
    <3>1. Body(c) # None /\ <<Kid(c), Signer(c)>> \in everPublished
      BY <2>2, DecodedToken DEF JtiRecord, ProvenanceInv, CallInv, HasKey, IsVerified
    <3>2. pc'[c] = "check"
      BY <2>2 DEF JtiRecord, Goto, ProvenanceInv, TypeOK
    <3> QED
      BY <1>1, <3>1, <3>2, NonceFates DEF Original
  <2>3. j \in jti_seen \/ \E c \in Calls : JtiRecord(c) /\ j = Jti(c)
    BY NonceFates DEF JtiRecord
  <2> QED
    BY <1>1, <2>1, <2>2, <2>3
<1> QED
  BY <1>2, <1>3 DEF OriginInv, DuplicateHasAnOriginal

\* A duplicate is never reported without a genuine token of the same nonce in
\* another call.
THEOREM DuplicatesAreGenuine == Spec => []DuplicateHasAnOriginal
<1>1. Init => OriginInv
  BY DEF Init, OriginInv, DuplicateHasAnOriginal
<1>2. OriginInv => DuplicateHasAnOriginal
  BY DEF OriginInv
<1> QED
  BY <1>1, <1>2, Provenance, OriginStep, PTL DEF Spec

\* Every nonce kept came from a genuine token, so forged ones never make the set grow.
THEOREM NoncesComeFromGenuineTokens == Spec => []NoncesAreGenuine
<1>1. Init => OriginInv
  BY DEF Init, OriginInv, DuplicateHasAnOriginal
<1>2. OriginInv => NoncesAreGenuine
  BY DEF OriginInv, NoncesAreGenuine, Original
<1> QED
  BY <1>1, <1>2, Provenance, OriginStep, PTL DEF Spec

-------------------------------------------------------------------------------
(***************************************************************************)
(* An executor with one thread.  The only await of decode is that of the   *)
(* keyserver (validator.rs 433, 518), so from the moment a call has its    *)
(* key to its return no other call takes a step.                           *)
(***************************************************************************)
OneAtATime ==
  \A c, d \in Calls : c # d /\ pc[c] \in HasKey => pc'[d] = pc[d]

SingleThreaded == [][OneAtATime]_vars

\* What is recorded of overlapping calls then stays empty.
NoOverlap == outlived = {} /\ \A c \in Calls : racers[c] = {}

LEMMA AloneNoOverlap == Spec /\ SingleThreaded => []NoOverlap
<1>1. Init => NoOverlap
  BY DEF Init, NoOverlap
<1>2. ProvenanceInv /\ NoOverlap /\ [Next]_vars /\ [OneAtATime]_vars => NoOverlap'
  <2> SUFFICES ASSUME ProvenanceInv, NoOverlap, [Next]_vars, OneAtATime \/ UNCHANGED vars
               PROVE  NoOverlap'
    OBVIOUS
  <2> USE DEF ProvenanceInv, TypeOK, Goto
  <2>1. ASSUME UNCHANGED <<outlived, racers>> PROVE NoOverlap'
    BY <2>1 DEF NoOverlap
  <2>2. ASSUME NEW c \in Calls, LookupStale(c) PROVE NoOverlap'
    <3>1. pc'[c] # pc[c]
      BY <2>2 DEF LookupStale
    <3>2. Holders(Kid(c)) = {}
      BY <2>2, <3>1 DEF LookupStale, Holders, OneAtATime, HasKey, vars, locals
    <3> QED BY <2>2, <3>2 DEF LookupStale, NoOverlap
  <2>3. ASSUME NEW c \in Calls, JtiFresh(c) PROVE NoOverlap'
    <3>1. pc'[c] # pc[c]
      BY <2>3 DEF JtiFresh
    <3>2. AboutToRecord(Jti(c)) = {}
      BY <2>3, <3>1 DEF JtiFresh, AboutToRecord, OneAtATime, HasKey, vars, locals
    <3> QED BY <2>3, <3>2 DEF JtiFresh, NoOverlap
  <2>4. \/ UNCHANGED <<outlived, racers>>
        \/ \E c \in Calls : LookupStale(c) \/ JtiFresh(c)
    BY DEF Next, DecodeHeader, Cancel, Step, LookupHit, LookupPanics, LookupMiss, FetchOk,
           FetchFails, VerifyFails, Verify, JtiDuplicate, JtiRecord, Reject, Accept,
           PoisonedCache, Tick, StepBack, Publish, locals, vars
  <2> QED BY <2>1, <2>2, <2>3, <2>4
<1> QED BY <1>1, <1>2, Provenance, PTL DEF Spec, SingleThreaded

\* On one thread the documentation is right: no nonce is accepted twice, and every
\* key in the cache comes straight from the keyserver (validator.rs 90-91, 333).
THEOREM SingleThreadedNoReplay == Spec /\ SingleThreaded => []NoReplay
<1>1. ReplayNeedsOverlap /\ NoOverlap => NoReplay
  BY DEF ReplayNeedsOverlap, NoOverlap, NoReplay
<1> QED BY <1>1, ReplaysOverlap, AloneNoOverlap, PTL

\* The same of the cache: see SingleThreadedNoReplay.
THEOREM SingleThreadedFilledByFetch == Spec /\ SingleThreaded => CacheFilledByFetch
<1> DEFINE Refill == \A c \in Calls : Accept(c) /\ key_cache' # key_cache => c \in fetched \cup outlived
           Filled == \A c \in Calls : Accept(c) /\ key_cache' # key_cache => c \in fetched
<1>1. NoOverlap /\ [Refill]_vars => [Filled]_vars
  BY DEF NoOverlap
<1> QED BY <1>1, RefillsOverlap, AloneNoOverlap, PTL DEF RefillNeedsOverlap, CacheFilledByFetch

-------------------------------------------------------------------------------
\* A poisoned cache stays poisoned and as it is, and nobody is accepted any more.
THEOREM PoisonIsFinal == Spec => PoisonedFailsClosed
<1> DEFINE Closed == poisoned => /\ UNCHANGED <<poisoned, key_cache>>
                                 /\ \A c \in Calls : Accepted(c)' => Accepted(c)
<1>1. ProvenanceInv /\ [Next]_vars => [Closed]_vars
  <2> SUFFICES ASSUME ProvenanceInv, [Next]_vars, poisoned
               PROVE  /\ UNCHANGED <<poisoned, key_cache>>
                      /\ \A c \in Calls : Accepted(c)' => Accepted(c)
    OBVIOUS
  <2> USE DEF CacheUsable
  <2>1. ASSUME NEW c \in Calls,
               \/ DecodeHeader(c) \/ Cancel(c) \/ FetchFails(c) \/ VerifyFails(c)
               \/ JtiDuplicate(c) \/ Reject(c) \/ PoisonedCache(c)
        PROVE  /\ UNCHANGED <<poisoned, key_cache>>
               /\ \A d \in Calls : Accepted(d)' => Accepted(d)
    BY <2>1 DEF DecodeHeader, Cancel, FetchFails, VerifyFails, JtiDuplicate, Reject,
          PoisonedCache, Goto, Return, shared, Accepted, ProvenanceInv, TypeOK
  <2>2. ASSUME NEW c \in Calls,
               FetchOk(c) \/ Verify(c) \/ JtiFresh(c) \/ JtiRecord(c)
        PROVE  UNCHANGED <<poisoned, key_cache, result>>
    BY <2>2 DEF FetchOk, Verify, JtiFresh, JtiRecord, Goto, shared
  <2>3. ASSUME NEW c \in Calls
        PROVE  ~LookupHit(c) /\ ~LookupStale(c) /\ ~LookupPanics(c) /\ ~LookupMiss(c) /\ ~Accept(c)
    BY DEF LookupHit, LookupStale, LookupPanics, LookupMiss, Accept
  <2>4. CASE Tick \/ StepBack \/ (\E kid \in Kids : Publish(kid)) \/ UNCHANGED vars
    BY <2>4 DEF Tick, StepBack, Publish, locals, vars, shared, Accepted
  <2> QED
    BY <2>1, <2>2, <2>3, <2>4 DEF Next, Step, Accepted
<1> QED
  BY <1>1, Provenance, PTL DEF Spec, PoisonedFailsClosed

-------------------------------------------------------------------------------
(***************************************************************************)
(* The refinement of TokenGate.  Steps on the cache and on the keyserver   *)
(* are stutters of the gate; ProvenanceInv says that the key a call        *)
(* verifies with is one the gate trusts.                                   *)
(***************************************************************************)

\* The rules of the gate are those of the validator.
LEMMA GateVerdict ==
  ASSUME NEW kid, NEW c, NEW wl, NEW t
  PROVE  Gate!Verdict(kid, c, wl, t) = Verdict(kid, c, wl, t)
BY DEF Verdict, Gate!Verdict, NotBefore, Gate!NotBefore, Subject, Gate!Subject, Lifespan,
   Gate!Lifespan, Expired, Gate!Expired, max_lifespan, Gate!max_lifespan, RequestedLifespan,
   Gate!RequestedLifespan, Wrap, Gate!Wrap,
   Panics, Gate!Panics, I64, Gate!I64

LEMMA GateInit == Init => Gate!Init
<1> SUFFICES ASSUME Init PROVE Gate!Init
  OBVIOUS
<1>1. everPublished \subseteq Kids \X Keys
  BY ProvenanceInit DEF ProvenanceInv, TypeOK
<1> QED
  BY <1>1 DEF Init, Gate!Init, StageOf

\* A call that moves on moves its stage, and no other.
LEMMA GateReach ==
  ASSUME TypeOK, NEW c \in Calls, NEW label \in Labels, pc' = [pc EXCEPT ![c] = label]
  PROVE  Gate!Reach(c, StageOf[label])
BY DEF TypeOK, Gate!Reach

\* A call that returns answers, which the gate allows once.
LEMMA GateTell ==
  ASSUME TypeOK, NEW c \in Calls, NEW a, pc[c] # "done", Return(c, a),
         UNCHANGED <<clock, req, everPublished, jti_seen, now>>
  PROVE  Gate!Tell(c, a)
<1>1. Gate!Reach(c, StageOf["done"])
  BY GateReach DEF Return, Labels
<1>2. StageOf[pc[c]] # "answered"
  BY DEF TypeOK, Labels, StageOf
<1> QED
  BY <1>1, <1>2 DEF Return, Gate!Tell, StageOf

\* A step that changes neither stage, nonces nor answers.
LEMMA GateStutter ==
  ASSUME TypeOK, NEW c \in Calls, NEW label \in Labels, Goto(c, label),
         StageOf[label] = StageOf[pc[c]],
         UNCHANGED <<clock, req, everPublished, jti_seen, now>>
  PROVE  UNCHANGED Gate!vars
<1>1. [d \in Calls |-> StageOf[pc'[d]]] = [d \in Calls |-> StageOf[pc[d]]]
  BY DEF TypeOK, Goto
<1> QED
  BY <1>1 DEF Goto, Gate!vars

LEMMA GateStep == ProvenanceInv /\ [Next]_vars => [Gate!Next]_Gate!vars
<1> SUFFICES ASSUME ProvenanceInv, [Next]_vars PROVE [Gate!Next]_Gate!vars
  OBVIOUS
<1> USE DEF ProvenanceInv
<1>1. ASSUME NEW c \in Calls, DecodeHeader(c) PROVE [Gate!Next]_Gate!vars
  <2>1. CASE Goto(c, "lookup")
    BY <1>1, <2>1, GateStutter DEF DecodeHeader, shared, Labels, StageOf
  <2>2. ASSUME NEW a \in {"InvalidToken", "NoKIDFound"}, Return(c, a)
        PROVE  Gate!Refuse(c)
    BY <1>1, <2>2, GateTell DEF DecodeHeader, shared, Gate!Refuse, StageOf
  <2> QED
    BY <1>1, <2>1, <2>2 DEF DecodeHeader, Gate!Next
<1>2. ASSUME NEW c \in Calls, Cancel(c) PROVE Gate!Refuse(c)
  BY <1>2, GateTell DEF Cancel, shared, Gate!Refuse, StageOf
<1>3. ASSUME NEW c \in Calls, LookupPanics(c) PROVE Gate!Refuse(c)
  BY <1>3, GateTell DEF LookupPanics, Gate!Refuse, StageOf
<1>4. ASSUME NEW c \in Calls, Step(c) PROVE [Gate!Next]_Gate!vars
  <2>1. CASE LookupHit(c) \/ LookupStale(c) \/ LookupMiss(c)
    BY <2>1, GateStutter
       DEF LookupHit, LookupStale, LookupMiss, shared, Labels, StageOf
  <2>2. CASE FetchOk(c)
    BY <2>2, GateStutter DEF FetchOk, shared, Labels, StageOf
  <2>3. CASE FetchFails(c)
    <3>1. Gate!Refuse(c)
      BY <2>3, GateTell DEF FetchFails, shared, Gate!Refuse, StageOf
    <3> QED
      BY <3>1 DEF Gate!Next
  <2>4. CASE VerifyFails(c)
    <3>1. Decoded(req[c].token, public_key[c])
            \in {"InvalidAlgorithm", "InvalidSignature", "InvalidClaims"}
      BY <2>4 DEF VerifyFails, Decoded
    <3>2. Gate!Refuse(c)
      BY <2>4, <3>1, GateTell DEF VerifyFails, shared, Gate!Refuse, StageOf
    <3> QED
      BY <3>2 DEF Gate!Next
  <2>5. CASE Verify(c)
    <3>1. Body(c) # None /\ <<Kid(c), Signer(c)>> \in everPublished
      BY <2>5, DecodedToken DEF Verify, CallInv, HasKey
    <3>2. Gate!Reach(c, IF validate_jti THEN "genuine" ELSE "counted")
      BY <2>5, GateReach DEF Verify, Goto, Labels, StageOf
    <3>3. Gate!FindGenuine(c)
      BY <2>5, <3>1, <3>2
         DEF Verify, Goto, Gate!FindGenuine, Gate!Body, Gate!Kid, Body, Kid, Signer,
             shared, StageOf
    <3> QED
      BY <3>3 DEF Gate!Next
  <2>6. CASE JtiDuplicate(c)
    <3>1. Gate!Refuse(c)
      BY <2>6, GateTell
         DEF JtiDuplicate, shared, Gate!Refuse, Gate!Body, Jti, Body, StageOf
    <3> QED
      BY <3>1 DEF Gate!Next
  <2>7. CASE JtiFresh(c)
    <3>1. Gate!Reach(c, "unspent")
      BY <2>7, GateReach DEF JtiFresh, Goto, Labels, StageOf
    <3>2. Gate!Compare(c)
      BY <2>7, <3>1
         DEF JtiFresh, Goto, shared, Gate!Compare, Gate!Body, Jti, Body, StageOf
    <3> QED
      BY <3>2 DEF Gate!Next
  <2>8. CASE JtiRecord(c)
    <3>1. Gate!Reach(c, "counted")
      BY <2>8, GateReach DEF JtiRecord, Goto, Labels, StageOf
    <3>2. Gate!Spend(c)
      BY <2>8, <3>1 DEF JtiRecord, Goto, Gate!Spend, Gate!Body, Jti, Body, StageOf
    <3> QED
      BY <3>2 DEF Gate!Next
  <2>9. CASE Reject(c)
    <3>1. Checked(c) = Gate!Verdict(Gate!Kid(c), Gate!Body(c), req[c].wl, now[c])
      BY GateVerdict DEF Checked, Gate!Kid, Gate!Body, Kid, Body
    <3>2. Gate!Refuse(c)
      BY <2>9, <3>1, GateTell DEF Reject, shared, Gate!Refuse, StageOf
    <3> QED
      BY <3>2 DEF Gate!Next
  <2>10. CASE Accept(c)
    <3>1. Checked(c) = Gate!Verdict(Gate!Kid(c), Gate!Body(c), req[c].wl, now[c])
      BY GateVerdict DEF Checked, Gate!Kid, Gate!Body, Kid, Body
    <3>2. Gate!Grant(c)
      BY <2>10, <3>1, GateTell DEF Accept, Gate!Grant, StageOf
    <3> QED
      BY <3>2 DEF Gate!Next
  <2>11. CASE PoisonedCache(c)
    <3>1. Gate!Refuse(c)
      BY <2>11, GateTell DEF PoisonedCache, shared, Gate!Refuse, StageOf
    <3> QED
      BY <3>1 DEF Gate!Next
  <2> QED
    BY <1>4, <2>1, <2>2, <2>3, <2>4, <2>5, <2>6, <2>7, <2>8, <2>9, <2>10, <2>11 DEF Step
<1>5. CASE Tick \/ StepBack
  <2>1. clock' \in {clock - 1, clock + 1} \cap Nat
    BY <1>5 DEF Tick, StepBack, TypeOK
  <2> QED
    BY <1>5, <2>1 DEF Tick, StepBack, locals, Gate!Move, Gate!Next
<1>6. ASSUME NEW kid \in Kids, Publish(kid) PROVE Gate!Trust
  <2>1. everPublished' \subseteq Kids \X Keys
    BY ProvenanceStep DEF TypeOK
  <2> QED
    BY <1>6, <2>1 DEF Publish, locals, Gate!Trust
<1>7. CASE UNCHANGED vars
  BY <1>7 DEF vars, shared, locals, Gate!vars
<1> QED
  BY <1>1, <1>2, <1>3, <1>4, <1>5, <1>6, <1>7 DEF Next, Gate!Next

\* Whatever the cache, the keyserver, the locks and the clock do, the answers are
\* those the gate may give.
THEOREM GateImplemented == Spec => ImplementsGate
BY GateInit, GateStep, Provenance, PTL DEF Spec, ImplementsGate, Gate!Spec
===============================================================================
