-------------------------- MODULE HttpKeyserverProofs --------------------------
(***************************************************************************)
(* For any list of URLs, any keys and any timeout: the types, the order of *)
(* the requests, the bound on the time a lookup takes, and that it         *)
(* implements KeyLookup.                                                   *)
(***************************************************************************)
EXTENDS HttpKeyserver, FiniteSetTheorems, TLAPS

USE HttpKeyserverAssumption

\* Every URL the loop has gone past failed the lookup.
PassedFailed == \A i \in DOMAIN urls : i < pos => urls[i] \in failed

\* While the lookup runs, what its servers hold now has been on offer, and so was
\* the key on its way.
OfferCurrent ==
  /\ phase = "trying" => Held \subseteq offered
  /\ reply \in Keys => reply \in offered

\* The requests before this one took at most a timeout each.
WaitSoFar ==
  /\ elapsed <= (pos - 1) * Timeout + age
  /\ pos > Len(urls) => age = 0

\* Nothing happens to a lookup before it has begun.
Untouched ==
  /\ phase \in {"configuring", "idle"} =>
       /\ pos = 1 /\ elapsed = 0 /\ age = 0
       /\ failed = {} /\ settled = {} /\ lost = {}
  /\ phase \notin {"trying", "found", "failed"} => reply = None
  /\ phase = "found" => pos <= Len(urls)
  /\ given = urls

UrlFacts ==
  /\ Len(urls) \in Nat \ {0} /\ DOMAIN urls = 1 .. Len(urls)
  /\ \A i \in 1 .. Len(urls) : urls[i] \in Urls
  /\ Timeout \in Nat \ {0}

LEMMA UrlTypes == TypeOK => UrlFacts
BY DEF TypeOK, Timeout, UrlFacts

LEMMA TimesMonotone ==
  ASSUME NEW m \in Nat, NEW n \in Nat, NEW t \in Nat, m <= n
  PROVE  m * t <= n * t
<1>1. (n - m) * t \in Nat
  OBVIOUS
<1>2. n * t = m * t + (n - m) * t
  OBVIOUS
<1> QED BY <1>1, <1>2

-------------------------------------------------------------------------------
\* What the types rest on: a lookup that has not begun, a URL that answered.
LEMMA Invariant == Spec => [](TypeOK /\ Untouched)
<1>1. Init => TypeOK /\ Untouched
  <2> SUFFICES ASSUME Init PROVE TypeOK /\ Untouched
    OBVIOUS
  <2>1. PICK u \in Urls : urls = <<u>> /\ given = <<u>>
    BY DEF Init
  <2>2. urls \in Seq(Urls) /\ Len(urls) = 1
    BY <2>1
  <2> QED
    BY <2>1, <2>2 DEF Init, TypeOK, Untouched, UrlSet, Timeout
<1>2. TypeOK /\ Untouched /\ [Next]_vars => (TypeOK /\ Untouched)'
  <2> SUFFICES ASSUME TypeOK, Untouched, [Next]_vars PROVE TypeOK' /\ Untouched'
    OBVIOUS
  <2>0. UrlFacts
    BY UrlTypes
  <2> USE <2>0 DEF Untouched, UrlFacts
  <2>1. ASSUME NEW u \in Urls, append_url(u) PROVE TypeOK' /\ Untouched'
    <3>1. urls' \in Seq(Urls) /\ given' \in Seq(Urls) /\ Len(urls') \in 1 .. MaxUrls
      BY <2>1 DEF append_url, TypeOK
    <3> QED
      BY <2>1, <3>1 DEF TypeOK, append_url, counters, lookup, Timeout
  <2>2. ASSUME NEW t \in Timeouts, set_timeout(t) PROVE TypeOK' /\ Untouched'
    <3>1. timeout' \in (Nat \ {0}) \cup {None}
      BY <2>2 DEF set_timeout
    <3>2. Timeout' \in Nat \ {0}
      BY <3>1 DEF Timeout
    <3> QED
      BY <2>2, <3>1, <3>2 DEF TypeOK, set_timeout, counters, lookup, UrlSet
  <2>3. CASE build \/ Exhausted
    BY <2>3 DEF TypeOK, build, Exhausted, counters, config, UrlSet, Timeout
  <2>4. CASE get_public_key
    <3>1. Held \subseteq Keys
      BY DEF Held, Content, UrlSet
    <3> QED
      BY <2>4, <3>1 DEF TypeOK, get_public_key, counters, config, UrlSet, Timeout
  <2>5. ASSUME TryNext, Trying, settled' \subseteq 1 .. Len(urls), lost' \subseteq 1 .. Len(urls)
        PROVE  TypeOK' /\ Untouched'
    <3>1. Url \in UrlSet /\ UrlSet' = UrlSet /\ Timeout' = Timeout
      BY <2>5 DEF TypeOK, TryNext, Trying, Url, config, UrlSet, Timeout
    <3>2. age' \in 0 .. Timeout' /\ pos' \in 1 .. (Len(urls) + 1) /\ failed' \subseteq UrlSet'
      BY <2>5, <3>1 DEF TypeOK, TryNext, Trying
    <3> QED
      BY <2>5, <3>2 DEF TypeOK, TryNext, Trying, counters, config
  <2>6. CASE InvalidConfig \/ ErrorReceived
    BY <2>5, <2>6 DEF TypeOK, InvalidConfig, ErrorReceived, Sent
  <2>7. CASE TimedOut \/ ExchangeBroken
    <3>1. pos \in 1 .. Len(urls)
      BY <2>7 DEF TypeOK, TimedOut, ExchangeBroken, Sent, Trying
    <3>2. settled' \subseteq 1 .. Len(urls) /\ lost' \subseteq 1 .. Len(urls)
      BY <2>7, <3>1 DEF TypeOK, TimedOut, ExchangeBroken
    <3> QED BY <2>5, <2>7, <3>2 DEF TimedOut, ExchangeBroken, Sent
  <2>8. CASE KeyReceived
    BY <2>8 DEF TypeOK, KeyReceived, Sent, Trying, counters, config, UrlSet, Timeout
  <2>9. CASE Tick
    BY <2>9 DEF TypeOK, Tick, Sent, Trying, counters, config, UrlSet, Timeout
  <2>10. ASSUME NEW i \in 1 .. MaxUrls, service(i) PROVE TypeOK' /\ Untouched'
    <3>1. urls[i] \in Servers /\ serves[urls[i]] \in Answers
      BY <2>10 DEF service, TypeOK
    <3>2. count' \in [Servers -> Nat]
      BY <2>10, <3>1 DEF service, TypeOK, Counted
    <3>3. settled' \subseteq 1 .. Len(urls) /\ reply' \in Answers \cup {None}
      BY <2>10, <3>1 DEF service, TypeOK
    <3> QED
      BY <2>10, <3>2, <3>3 DEF service, TypeOK, lookup, config, UrlSet, Timeout
  <2>11. ASSUME NEW s \in Servers, Change(s) PROVE TypeOK' /\ Untouched'
    <3>1. serves' \in [Servers -> Answers \cup {Down}]
      BY <2>11 DEF TypeOK, Change
    <3>2. UrlSet' \subseteq Urls
      BY <2>11 DEF Change, UrlSet, config
    <3>3. Held' \subseteq Keys
      BY <3>2 DEF Held, Content
    <3>4. offered' \subseteq Keys
      BY <2>11, <3>3 DEF TypeOK, Change
    <3>5. count' \in [Servers -> Nat] /\ restarted' \subseteq Servers
      BY <2>11 DEF TypeOK, Change, Counter, counters
    <3>6. settled' \subseteq 1 .. Len(urls) /\ (pos = 1 => settled' = settled)
      <4>1. 1 .. (pos - 1) \subseteq 1 .. Len(urls) /\ (pos = 1 => 1 .. (pos - 1) = {})
        BY DEF TypeOK
      <4>2. settled' \subseteq settled \cup 1 .. (pos - 1) /\ settled \subseteq settled'
        BY <2>11 DEF Change
      <4> QED BY <4>1, <4>2 DEF TypeOK
    <3> QED
      BY <2>11, <3>1, <3>4, <3>5, <3>6 DEF TypeOK, Change, lookup, config, UrlSet, Timeout
  <2>12. CASE UNCHANGED vars
    BY <2>12 DEF TypeOK, vars, counters, lookup, config, UrlSet, Timeout
  <2> QED
    BY <2>1, <2>2, <2>3, <2>4, <2>6, <2>7, <2>8, <2>9, <2>10, <2>11, <2>12 DEF Next
<1> QED BY <1>1, <1>2, PTL DEF Spec

\* Types, for every list of URLs (the state of HttpKeyserver and of the servers).
THEOREM TypeCorrect == Spec => []TypeOK
BY Invariant, PTL

LEMMA WaitInvariant == Spec => [](TypeOK /\ Untouched /\ WaitSoFar)
<1>1. Init => WaitSoFar
  BY DEF Init, WaitSoFar, Timeout
<1>2. TypeOK /\ Untouched /\ TypeOK' /\ WaitSoFar /\ [Next]_vars => WaitSoFar'
  <2> SUFFICES ASSUME TypeOK, Untouched, TypeOK', WaitSoFar, [Next]_vars PROVE WaitSoFar'
    OBVIOUS
  <2>0. UrlFacts
    BY UrlTypes
  <2> USE <2>0 DEF UrlFacts
  <2>1. ASSUME TryNext PROVE WaitSoFar'
    <3>1. elapsed <= (pos - 1) * Timeout + Timeout
      <4>1. elapsed \in Nat /\ age \in 0 .. Timeout /\ pos - 1 \in Int
        BY DEF TypeOK
      <4>2. \A n \in Int : elapsed <= n + age => elapsed <= n + Timeout
        BY <4>1
      <4>3. (pos - 1) * Timeout \in Int
        BY <4>1
      <4> QED BY <4>2, <4>3 DEF WaitSoFar
    <3>2. (pos + 1 - 1) * Timeout = (pos - 1) * Timeout + Timeout
      BY DEF TypeOK
    <3> QED BY <2>1, <3>1, <3>2 DEF TypeOK, WaitSoFar, TryNext, Timeout, config
  <2>2. CASE Tick
    BY <2>2 DEF TypeOK, WaitSoFar, Tick, Sent, Trying, Timeout, config
  <2>3. CASE UNCHANGED <<pos, age, elapsed, urls, timeout>>
    BY <2>3 DEF WaitSoFar, Timeout
  <2>4. ASSUME phase = "configuring", UNCHANGED lookup, Timeout' \in Nat PROVE WaitSoFar'
    <3>1. pos' = 1 /\ age' = 0 /\ elapsed' = 0
      BY <2>4 DEF Untouched, lookup
    <3>2. \A t \in Nat : (1 - 1) * t = 0
      OBVIOUS
    <3>3. (pos' - 1) * Timeout' = 0
      BY <2>4, <3>1, <3>2
    <3> QED BY <3>1, <3>3 DEF WaitSoFar
  <2>5. Timeout' \in Nat
    BY DEF TypeOK, Timeout
  <2>6. \/ TryNext \/ Tick \/ UNCHANGED <<pos, age, elapsed, urls, timeout>>
        \/ phase = "configuring" /\ UNCHANGED lookup
    BY DEF Next, append_url, set_timeout, build, get_public_key, InvalidConfig, KeyReceived,
           ErrorReceived, ExchangeBroken, TimedOut, Exhausted, service, Change, lookup, config, vars
  <2> QED BY <2>1, <2>2, <2>3, <2>4, <2>5, <2>6
<1> QED BY <1>1, <1>2, Invariant, PTL DEF Spec

(***************************************************************************)
(* A lookup takes at most one timeout per URL, whatever the servers do     *)
(* (keyserver.rs 148-156).                                                 *)
(***************************************************************************)
THEOREM WaitIsBounded == Spec => []BoundedWait
<1>1. TypeOK /\ WaitSoFar => BoundedWait
  <2> SUFFICES ASSUME TypeOK, WaitSoFar PROVE BoundedWait
    OBVIOUS
  <2>0. UrlFacts
    BY UrlTypes
  <2> USE <2>0 DEF UrlFacts
  <2>1. CASE pos > Len(urls)
    <3>1. pos - 1 = Len(urls) /\ age = 0
      BY <2>1 DEF TypeOK, WaitSoFar
    <3>2. Len(urls) * Timeout \in Int /\ elapsed \in Int
      BY DEF TypeOK
    <3> QED BY <3>1, <3>2 DEF WaitSoFar, BoundedWait
  <2>2. CASE pos <= Len(urls)
    <3>1. elapsed <= pos * Timeout
      BY DEF TypeOK, WaitSoFar
    <3>2. pos \in Nat /\ Len(urls) \in Nat /\ Timeout \in Nat
      BY DEF TypeOK
    <3>4. pos * Timeout <= Len(urls) * Timeout
      BY <2>2, <3>2, TimesMonotone
    <3>3. pos * Timeout \in Int /\ Len(urls) * Timeout \in Int /\ elapsed \in Int
      BY DEF TypeOK
    <3> QED BY <3>1, <3>3, <3>4 DEF BoundedWait
  <2> QED BY <2>1, <2>2 DEF TypeOK
<1> QED BY <1>1, WaitInvariant, PTL

\* What the loop has left: a timeout, and the step that follows it, for every URL that
\* has not been tried.
Left == (Len(urls) + 1 - pos) * (Timeout + 1) - age

LEMMA LeftTypes == ASSUME TypeOK, WaitSoFar PROVE Left \in Nat
<1>1. UrlFacts
  BY UrlTypes
<1>2. pos \in 1 .. (Len(urls) + 1) /\ age \in 0 .. Timeout /\ Len(urls) \in Nat /\ Timeout \in Nat
  BY <1>1 DEF TypeOK, UrlFacts
<1>3. CASE pos > Len(urls)
  <2>1. Len(urls) + 1 - pos = 0 /\ age = 0
    BY <1>2, <1>3 DEF WaitSoFar
  <2> QED BY <1>2, <2>1 DEF Left
<1>4. CASE pos <= Len(urls)
  <2> DEFINE n == Len(urls) + 1 - pos
             t == Timeout + 1
  <2>1. n \in Nat /\ t \in Nat /\ 1 <= n /\ age < t
    BY <1>2, <1>4
  <2> HIDE DEF n, t
  <2>2. 1 * t <= n * t
    BY <2>1, TimesMonotone
  <2>3. n * t \in Int
    BY <2>1
  <2>4. n * t - age \in Nat
    BY <1>2, <2>1, <2>2, <2>3
  <2> QED BY <2>4 DEF Left, n, t
<1> QED BY <1>2, <1>3, <1>4

LEMMA OneTimesLess ==
  ASSUME NEW n \in Int, NEW t \in Int
  PROVE  (n - 1) * t = n * t - t
OBVIOUS

(***************************************************************************)
(* What the loop does brings its end nearer, whatever the servers do at    *)
(* the same time: LookupEnds can only fail for want of a step (keyserver.rs*)
(* 148-156).                                                               *)
(***************************************************************************)
LookupNeverGoesBack ==
  [][phase = "trying" /\ phase' = "trying" =>
       Left' \in Nat /\ (UNCHANGED <<pos, age>> \/ Left' < Left)]_vars

THEOREM LookupAdvances == Spec => LookupNeverGoesBack
<1> DEFINE Advance == phase = "trying" /\ phase' = "trying" =>
                        Left' \in Nat /\ (UNCHANGED <<pos, age>> \/ Left' < Left)
<1> DEFINE LeftIsNat == Left \in Nat
<1>1. TypeOK /\ WaitSoFar => LeftIsNat
  BY LeftTypes
<1>2. TypeOK /\ WaitSoFar /\ LeftIsNat /\ LeftIsNat' /\ [Next]_vars => [Advance]_vars
  <2> SUFFICES ASSUME TypeOK, WaitSoFar, Left \in Nat, (Left \in Nat)', [Next]_vars, phase = "trying"
               PROVE  UNCHANGED <<pos, age>> \/ Left' < Left
    OBVIOUS
  <2>0. UrlFacts
    BY UrlTypes
  <2> USE <2>0 DEF UrlFacts
  <2>t. pos \in Nat /\ age \in 0 .. Timeout
    BY DEF TypeOK
  <2>1. ASSUME TryNext PROVE Left' < Left
    <3> DEFINE n == Len(urls) + 1 - pos
               t == Timeout + 1
    <3>1. pos' = pos + 1 /\ age' = 0 /\ Len(urls') = Len(urls) /\ Timeout' = Timeout
      BY <2>1 DEF TryNext, config, Timeout
    <3>2. n \in Int /\ t \in Nat \ {0} /\ Len(urls) + 1 - (pos + 1) = n - 1 /\ age < t
      BY <2>t
    <3>3. Left' = (Len(urls) + 1 - (pos + 1)) * t - 0
      BY <3>1 DEF Left
    <3>4. Left = n * t - age
      BY DEF Left
    <3> HIDE DEF n, t
    <3>5. (n - 1) * t = n * t - t
      BY <3>2, OneTimesLess
    <3>6. n * t \in Int
      BY <3>2
    <3> QED BY <2>t, <3>2, <3>3, <3>4, <3>5, <3>6
  <2>2. CASE Tick
    <3>1. pos' = pos /\ age' = age + 1 /\ Len(urls') = Len(urls) /\ Timeout' = Timeout
      BY <2>2 DEF Tick, config, Timeout
    <3>2. (Len(urls) + 1 - pos) * (Timeout + 1) \in Int
      BY <2>t
    <3> QED BY <2>t, <3>1, <3>2 DEF Left
  <2>3. TryNext \/ Tick \/ UNCHANGED <<pos, age>>
    BY DEF Next, append_url, set_timeout, build, get_public_key, InvalidConfig, KeyReceived,
           ErrorReceived, ExchangeBroken, TimedOut, Exhausted, service, Change, lookup, vars
  <2> QED BY <2>1, <2>2, <2>3
<1>3. LookupNeverGoesBack <=> [][Advance]_vars
  BY DEF LookupNeverGoesBack
<1> HIDE DEF Advance, LeftIsNat
<1> QED BY <1>1, <1>2, <1>3, WaitInvariant, PTL DEF Spec

-------------------------------------------------------------------------------
LEMMA LoopInvariant == Spec => [](PassedFailed /\ OfferCurrent)
<1>1. Init => PassedFailed /\ OfferCurrent
  BY DEF Init, PassedFailed, OfferCurrent
<1>2. TypeOK /\ Untouched /\ PassedFailed /\ OfferCurrent /\ [Next]_vars
        => (PassedFailed /\ OfferCurrent)'
  <2> SUFFICES ASSUME TypeOK, Untouched, PassedFailed, OfferCurrent, [Next]_vars
               PROVE  PassedFailed' /\ OfferCurrent'
    OBVIOUS
  <2>0. UrlFacts
    BY UrlTypes
  <2> USE <2>0 DEF UrlFacts
  <2>1. ASSUME TryNext, UNCHANGED urls PROVE PassedFailed' /\ OfferCurrent'
    <3>1. PassedFailed'
      BY <2>1 DEF TypeOK, PassedFailed, TryNext, Url
    <3>2. OfferCurrent'
      BY <2>1 DEF OfferCurrent, TryNext, Held, Content, UrlSet
    <3> QED BY <3>1, <3>2
  <2>2. ASSUME NEW u \in Urls, append_url(u) PROVE PassedFailed' /\ OfferCurrent'
    BY <2>2 DEF append_url, lookup, Untouched, PassedFailed, OfferCurrent
  <2>3. ASSUME NEW t \in Timeouts, set_timeout(t) PROVE PassedFailed' /\ OfferCurrent'
    BY <2>3 DEF set_timeout, lookup, PassedFailed, OfferCurrent, Held, Content, UrlSet
  <2>4. CASE get_public_key
    BY <2>4 DEF get_public_key, config, Untouched, PassedFailed, OfferCurrent, Held, Content,
                UrlSet
  <2>5. CASE build \/ KeyReceived \/ Exhausted
    BY <2>5 DEF build, KeyReceived, Exhausted, config, PassedFailed, OfferCurrent
  <2>6. CASE Tick
    BY <2>6 DEF Tick, config, PassedFailed, OfferCurrent, Held, Content, UrlSet
  <2>7. ASSUME NEW i \in 1 .. MaxUrls, service(i) PROVE PassedFailed' /\ OfferCurrent'
    <3>1. PassedFailed'
      BY <2>7 DEF service, lookup, config, PassedFailed
    <3>2. CASE i = pos /\ phase = "trying" /\ serves[urls[i]] \in Keys
      <4>1. Content[urls[i]] = serves[urls[i]] /\ urls[i] \in UrlSet
        BY <2>7, <3>2 DEF service, Content, Urls, UrlSet
      <4>2. serves[urls[i]] \in Held
        BY <3>2, <4>1 DEF Held
      <4> QED
        BY <2>7, <3>1, <3>2, <4>2
           DEF service, lookup, config, OfferCurrent, Held, Content, UrlSet
    <3> QED
      BY <2>7, <3>1, <3>2 DEF service, lookup, config, OfferCurrent, Held, Content, UrlSet
  <2>8. ASSUME NEW s \in Servers, Change(s) PROVE PassedFailed' /\ OfferCurrent'
    BY <2>8 DEF Change, lookup, config, PassedFailed, OfferCurrent
  <2>9. CASE UNCHANGED vars
    BY <2>9 DEF vars, lookup, config, PassedFailed, OfferCurrent, Held, Content, UrlSet
  <2> QED
    BY <2>1, <2>2, <2>3, <2>4, <2>5, <2>6, <2>7, <2>8, <2>9
       DEF Next, InvalidConfig, ErrorReceived, ExchangeBroken, TimedOut, TryNext, config
<1> QED BY <1>1, <1>2, Invariant, PTL DEF Spec

\* A key is returned from the first URL, in the order in which they were
\* configured, that did not fail the lookup (validator.rs 131).
THEOREM TriedInTheirOrder == Spec => []TriedInOrder
<1>1. TypeOK /\ Untouched /\ PassedFailed => TriedInOrder
  <2> SUFFICES ASSUME TypeOK, Untouched, PassedFailed, phase = "found" PROVE TriedInOrder
    BY DEF TriedInOrder
  <2>1. pos \in DOMAIN given /\ given[pos] = Url
    BY DEF TypeOK, Untouched, Url
  <2>2. \A j \in 1 .. (pos - 1) : given[j] \in failed
    BY DEF TypeOK, Untouched, PassedFailed
  <2> QED BY <2>1, <2>2 DEF TriedInOrder
<1> QED BY <1>1, Invariant, LoopInvariant, PTL

(***************************************************************************)
(* HttpKeyserver implements KeyLookup: the key it returns was held by one  *)
(* of its servers during the lookup, and it fails only after all of its    *)
(* URLs have failed it (keyserver.rs 131-144, 148-156).                    *)
(***************************************************************************)
THEOREM LookupImplemented == Spec => ImplementsLookup
<1>1. Init => Lookup!Init
  <2> SUFFICES ASSUME Init PROVE Lookup!Init
    OBVIOUS
  <2>1. Content \in [Urls -> Keys \cup {None}]
    BY DEF Content
  <2>2. UrlSet \subseteq Urls
    BY DEF Init, UrlSet
  <2> QED BY <2>1, <2>2 DEF Init, Lookup!Init
<1>2. /\ TypeOK /\ Untouched /\ PassedFailed /\ OfferCurrent
      /\ TypeOK' /\ [Next]_vars
      => [Lookup!Next]_Lookup!vars
  <2> SUFFICES ASSUME TypeOK, Untouched, PassedFailed, OfferCurrent, TypeOK', [Next]_vars
               PROVE  [Lookup!Next]_Lookup!vars
    OBVIOUS
  <2>0. UrlFacts
    BY UrlTypes
  <2> USE <2>0 DEF UrlFacts, Lookup!vars
  <2>1. ASSUME TryNext, Trying PROVE Lookup!Next
    <3>1. Url \in UrlSet
      BY <2>1 DEF Trying, TypeOK, Url, UrlSet
    <3>2. Lookup!Miss(Url)
      BY <2>1 DEF TryNext, Trying, config, Content, UrlSet, Lookup!Miss
    <3> QED BY <3>1, <3>2 DEF Lookup!Next
  <2>2. CASE InvalidConfig \/ ErrorReceived \/ ExchangeBroken \/ TimedOut
    BY <2>1, <2>2 DEF InvalidConfig, ErrorReceived, ExchangeBroken, TimedOut, Sent
  <2>3. CASE (\E u \in Urls : append_url(u)) \/ (\E t \in Timeouts : set_timeout(t)) \/ build
    <3>1. UrlSet' \subseteq Urls
      BY DEF TypeOK, UrlSet
    <3>2. Lookup!Choose
      BY <2>3, <3>1
         DEF append_url, set_timeout, build, lookup, Content, Lookup!Choose
    <3> QED BY <3>2 DEF Lookup!Next
  <2>4. CASE get_public_key
    <3>1. Lookup!Ask
      BY <2>4 DEF get_public_key, config, Held, Content, UrlSet, Lookup!Ask, Lookup!Held
    <3> QED BY <3>1 DEF Lookup!Next
  <2>5. CASE KeyReceived
    <3>1. Lookup!Find
      BY <2>5 DEF KeyReceived, Sent, Trying, config, OfferCurrent, Content, UrlSet, Lookup!Find
    <3> QED BY <3>1 DEF Lookup!Next
  <2>6. CASE Exhausted
    <3>1. failed = UrlSet
      BY <2>6 DEF Exhausted, TypeOK, PassedFailed, UrlSet
    <3>2. Lookup!Fail
      BY <2>6, <3>1 DEF Exhausted, config, Content, UrlSet, Lookup!Fail
    <3> QED BY <3>2 DEF Lookup!Next
  <2>7. CASE Tick \/ UNCHANGED vars \/ \E i \in 1 .. MaxUrls : service(i)
    BY <2>7 DEF Tick, vars, service, lookup, config, Content, UrlSet
  <2>8. ASSUME NEW s \in Servers, Change(s) PROVE Lookup!Change(s)
    <3>1. Content' = [Content EXCEPT ![s] = Content'[s]]
      <4>1. \E a : serves' = [serves EXCEPT ![s] = a]
        BY <2>8 DEF Change
      <4>2. \A t \in Servers \ {s} : serves'[t] = serves[t]
        BY <4>1 DEF TypeOK
      <4>3. \A u \in Urls \ {s} : Content'[u] = Content[u]
        BY <4>2 DEF Content
      <4> QED BY <4>3 DEF Content
    <3>2. Content'[s] \in Keys \cup {None}
      BY DEF Content, Urls
    <3>3. UrlSet' = UrlSet
      BY <2>8 DEF Change, config, UrlSet
    <3> QED
      BY <2>8, <3>1, <3>2, <3>3 DEF Change, lookup, Held, Lookup!Change, Lookup!Held
  <2>9. ASSUME NEW s \in Servers, Change(s) PROVE Lookup!Next
    BY <2>8, <2>9 DEF Lookup!Next, Urls
  <2> QED BY <2>2, <2>3, <2>4, <2>5, <2>6, <2>7, <2>9 DEF Next
<1> QED
  BY <1>1, <1>2, Invariant, LoopInvariant, PTL DEF Spec, ImplementsLookup, Lookup!Spec

-------------------------------------------------------------------------------
\* The requests a server has read without their answer being heard.
ReadUnheard(s) == { i \in lost \cap settled : urls[i] = s }

\* Only a server answers, and a request is read once: those the loop has gone past
\* have been read or went unheard.
RequestsInv ==
  /\ lost \subseteq 1 .. (pos - 1)
  /\ \A i \in 1 .. (pos - 1) : i \in settled \cup lost \/ urls[i] \in Mistyped
  /\ reply # None => pos <= Len(urls) /\ Url \in Servers /\ pos \in settled
  /\ phase = "found" => reply \in Keys
  /\ phase = "failed" => pos > Len(urls)

\* What a server has counted was read for the lookup, and is known to it or unheard.
CountInv ==
  \A s \in Servers :
    /\ s \notin restarted => Fetched(s) <= count[s]
    /\ count[s] <= Fetched(s) + Cardinality(ReadUnheard(s))

LEMMA UnheardFinite ==
  ASSUME TypeOK, NEW s
  PROVE  /\ IsFiniteSet(Unheard(s)) /\ Cardinality(Unheard(s)) \in Nat
         /\ IsFiniteSet(ReadUnheard(s)) /\ Cardinality(ReadUnheard(s)) \in Nat
         /\ Cardinality(ReadUnheard(s)) <= Cardinality(Unheard(s))
<1>1. IsFiniteSet(1 .. Len(urls))
  BY FS_Interval DEF TypeOK
<1>2. Unheard(s) \subseteq 1 .. Len(urls) /\ ReadUnheard(s) \subseteq Unheard(s)
  BY DEF TypeOK, Unheard, ReadUnheard
<1>3. IsFiniteSet(Unheard(s))
  BY <1>1, <1>2, FS_Subset
<1> QED BY <1>2, <1>3, FS_Subset, FS_CardinalityType

LEMMA UnheardFiniteNext ==
  ASSUME TypeOK', NEW s
  PROVE  IsFiniteSet(ReadUnheard(s)') /\ Cardinality(ReadUnheard(s)') \in Nat
<1>1. IsFiniteSet((1 .. Len(urls))')
  BY FS_Interval DEF TypeOK
<1>2. ReadUnheard(s)' \subseteq (1 .. Len(urls))'
  BY DEF TypeOK, ReadUnheard
<1> QED BY <1>1, <1>2, FS_Subset, FS_CardinalityType

\* A set of requests that grows counts for no less.
LEMMA MoreUnheard ==
  ASSUME TypeOK', NEW s, ReadUnheard(s) \subseteq ReadUnheard(s)'
  PROVE  Cardinality(ReadUnheard(s)) <= Cardinality(ReadUnheard(s)')
BY UnheardFiniteNext, FS_Subset

LEMMA OneMoreUnheard ==
  ASSUME TypeOK, NEW s, NEW i, i \notin ReadUnheard(s),
         ReadUnheard(s)' = ReadUnheard(s) \cup {i}
  PROVE  Cardinality(ReadUnheard(s)') = Cardinality(ReadUnheard(s)) + 1
BY UnheardFinite, FS_AddElement

LEMMA CountsKept ==
  ASSUME TypeOK, TypeOK', CountInv,
         \A s \in Servers :
           /\ count'[s] = count[s] /\ (s \in restarted => s \in restarted')
           /\ Fetched(s)' = Fetched(s) /\ ReadUnheard(s) \subseteq ReadUnheard(s)'
  PROVE  CountInv'
<1>1. ASSUME NEW s \in Servers
      PROVE  /\ s \notin restarted' => Fetched(s)' <= count'[s]
             /\ count'[s] <= Fetched(s)' + Cardinality(ReadUnheard(s)')
  <2>1. Cardinality(ReadUnheard(s)) \in Nat /\ Cardinality(ReadUnheard(s)') \in Nat
    BY UnheardFinite, UnheardFiniteNext
  <2>2. Cardinality(ReadUnheard(s)) <= Cardinality(ReadUnheard(s)')
    BY MoreUnheard
  <2>3. Fetched(s) \in {0, 1} /\ count[s] \in Nat
    BY DEF Fetched, TypeOK
  <2> QED BY <2>1, <2>2, <2>3 DEF CountInv
<1> QED BY <1>1 DEF CountInv

\* The loop goes on to the next URL: the answer, if any, went unheard or was no key.
LEMMA CountsTryNext ==
  ASSUME TypeOK, TypeOK', Untouched, RequestsInv, CountInv, TryNext, Trying,
         \/ reply \notin Keys /\ (reply # None \/ Url \in Mistyped) /\ UNCHANGED <<lost, settled>>
         \/ lost' = lost \cup {pos} /\ settled \subseteq settled'
  PROVE  RequestsInv' /\ CountInv'
<1>0. UrlFacts
  BY UrlTypes
<1> USE <1>0 DEF UrlFacts
<1>1. pos \in 1 .. Len(urls) /\ pos' = pos + 1 /\ reply' = None /\ phase' = "trying"
      /\ urls' = urls /\ UNCHANGED <<count, restarted>> /\ phase = "trying"
  BY DEF TryNext, Trying, config, counters, TypeOK
<1>2. lost' \subseteq 1 .. (pos' - 1)
  <2>1. 1 .. (pos' - 1) = 1 .. (pos - 1) \cup {pos} /\ lost \subseteq 1 .. (pos - 1)
    BY <1>1 DEF RequestsInv
  <2>2. lost' \subseteq lost \cup {pos}
    OBVIOUS
  <2> QED BY <2>1, <2>2
<1>3. \A i \in 1 .. (pos' - 1) : i \in settled' \cup lost' \/ urls'[i] \in Mistyped
  BY <1>1 DEF RequestsInv, Url
<1>4. RequestsInv'
  BY <1>1, <1>2, <1>3 DEF RequestsInv
<1>5. ASSUME NEW s \in Servers
      PROVE  /\ s \notin restarted' => Fetched(s)' <= count'[s]
             /\ count'[s] <= Fetched(s)' + Cardinality(ReadUnheard(s)')
  <2>1. Cardinality(ReadUnheard(s)) \in Nat /\ Cardinality(ReadUnheard(s)') \in Nat
    BY UnheardFinite, UnheardFiniteNext
  <2>2. Fetched(s)' = 0 /\ count[s] \in Nat
    BY <1>1 DEF Fetched, TypeOK
  <2>3. ReadUnheard(s) \subseteq ReadUnheard(s)'
    BY <1>1 DEF ReadUnheard
  <2>4. Cardinality(ReadUnheard(s)) <= Cardinality(ReadUnheard(s)')
    BY <2>3, MoreUnheard
  <2>5. CASE reply \in Keys /\ s = Url
    <3>1. pos \in settled /\ lost' = lost \cup {pos} /\ pos \notin lost
      BY <1>1, <2>5 DEF RequestsInv
    <3>2. ReadUnheard(s) \cup {pos} \subseteq ReadUnheard(s)' /\ pos \notin ReadUnheard(s)
      BY <1>1, <2>3, <2>5, <3>1 DEF ReadUnheard, Url
    <3>3. Cardinality(ReadUnheard(s) \cup {pos}) = Cardinality(ReadUnheard(s)) + 1
      BY <3>2, UnheardFinite, FS_AddElement
    <3>4. Cardinality(ReadUnheard(s) \cup {pos}) <= Cardinality(ReadUnheard(s)')
      BY <3>2, UnheardFiniteNext, FS_Subset
    <3>5. count[s] <= 1 + Cardinality(ReadUnheard(s))
      BY <2>5 DEF CountInv, Fetched
    <3> QED BY <1>1, <2>1, <2>2, <3>3, <3>4, <3>5
  <2>6. CASE ~(reply \in Keys /\ s = Url)
    <3>1. count[s] <= 0 + Cardinality(ReadUnheard(s))
      BY <1>1, <2>6 DEF CountInv, Fetched
    <3> QED BY <1>1, <2>1, <2>2, <2>4, <3>1
  <2> QED BY <2>5, <2>6
<1> QED BY <1>4, <1>5 DEF CountInv

LEMMA CountsService ==
  ASSUME TypeOK, TypeOK', RequestsInv, CountInv, NEW i \in 1 .. MaxUrls, service(i)
  PROVE  RequestsInv' /\ CountInv'
<1>0. UrlFacts
  BY UrlTypes
<1> USE <1>0 DEF UrlFacts
<1>1. UNCHANGED <<urls, phase, pos, restarted, lost>> /\ settled' = settled \cup {i}
  BY DEF service, lookup, config
<1>2. PICK r \in Servers : r = urls[i]
  BY DEF service
<1>3. /\ i \in DOMAIN urls /\ i <= pos /\ i \notin settled /\ serves[r] \in Answers
      /\ count' = Counted(r, serves[r]) /\ None \notin Answers
  BY <1>2 DEF service, TypeOK, Answers
<1>4. CASE i = pos /\ phase = "trying"
  <2>1. reply' = serves[Url] /\ reply' # None /\ reply = None /\ Url = r /\ Url' = Url
    BY <1>1, <1>2, <1>3, <1>4 DEF service, RequestsInv, Url
  <2>2. RequestsInv'
    BY <1>1, <1>3, <1>4, <2>1 DEF RequestsInv
  <2>3. \A s \in Servers : ReadUnheard(s)' = ReadUnheard(s)
    BY <1>1, <1>4 DEF RequestsInv, ReadUnheard
  <2>4. ASSUME NEW s \in Servers
        PROVE  /\ s \notin restarted' => Fetched(s)' <= count'[s]
               /\ count'[s] <= Fetched(s)' + Cardinality(ReadUnheard(s)')
    <3>1. Fetched(s) = 0
      BY <1>4, <2>1 DEF Fetched
    <3>2. Cardinality(ReadUnheard(s)) \in Nat /\ count[s] \in Nat
      BY UnheardFinite DEF TypeOK
    <3>3. count[s] <= Cardinality(ReadUnheard(s))
      BY <3>1, <3>2 DEF CountInv
    <3>4. CASE s = r /\ serves[r] \in Keys
      <4>1. Fetched(s)' = 1 /\ count'[s] = count[s] + 1
        BY <1>3, <2>1, <3>4 DEF Fetched, Counted, TypeOK
      <4> QED BY <2>3, <3>2, <3>3, <4>1
    <3>5. CASE ~(s = r /\ serves[r] \in Keys)
      <4>1. Fetched(s)' = 0 /\ count'[s] = count[s]
        BY <1>1, <1>3, <1>4, <2>1, <3>5 DEF Fetched, Counted, TypeOK
      <4> QED BY <2>3, <3>2, <3>3, <4>1
    <3> QED BY <3>4, <3>5
  <2> QED BY <2>2, <2>4 DEF CountInv
<1>5. CASE ~(i = pos /\ phase = "trying")
  <2>1. reply' = reply
    BY <1>5 DEF service
  <2>2. i < pos /\ i \in lost
    <3>1. i # pos
      BY <1>3, <1>5 DEF service, RequestsInv
    <3>2. i \in 1 .. (pos - 1)
      BY <1>3, <3>1 DEF TypeOK
    <3>3. urls[i] \notin Mistyped
      BY <1>2
    <3> QED BY <1>3, <3>1, <3>2, <3>3 DEF RequestsInv, TypeOK
  <2>3. RequestsInv'
    BY <1>1, <2>1 DEF RequestsInv, Url
  <2>4. \A s \in Servers : Fetched(s)' = Fetched(s)
    BY <1>1, <2>1 DEF Fetched, Url
  <2>5. ASSUME NEW s \in Servers
        PROVE  /\ s \notin restarted' => Fetched(s)' <= count'[s]
               /\ count'[s] <= Fetched(s)' + Cardinality(ReadUnheard(s)')
    <3>1. Cardinality(ReadUnheard(s)) \in Nat /\ count[s] \in Nat /\ Fetched(s) \in {0, 1}
      BY UnheardFinite DEF TypeOK, Fetched
    <3>2. CASE s = r
      <4>1. ReadUnheard(s)' = ReadUnheard(s) \cup {i} /\ i \notin ReadUnheard(s)
        BY <1>1, <1>2, <1>3, <2>2, <3>2 DEF ReadUnheard
      <4>2. Cardinality(ReadUnheard(s)') = Cardinality(ReadUnheard(s)) + 1
        BY <4>1, OneMoreUnheard
      <4>3. count'[s] \in {count[s], count[s] + 1}
        BY <1>3, <3>2 DEF Counted, TypeOK
      <4> QED BY <1>1, <2>4, <3>1, <4>2, <4>3 DEF CountInv
    <3>3. CASE s # r
      <4>1. ReadUnheard(s)' = ReadUnheard(s) /\ count'[s] = count[s]
        BY <1>1, <1>2, <1>3, <3>3 DEF ReadUnheard, Counted, TypeOK
      <4> QED BY <1>1, <2>4, <4>1 DEF CountInv
    <3> QED BY <3>2, <3>3
  <2> QED BY <2>3, <2>5 DEF CountInv
<1> QED BY <1>4, <1>5

LEMMA CountsChange ==
  ASSUME TypeOK, TypeOK', Untouched, RequestsInv, CountInv, NEW s \in Servers, Change(s)
  PROVE  RequestsInv' /\ CountInv'
<1>1. /\ UNCHANGED <<urls, phase, pos, lost, reply>> /\ settled \subseteq settled'
      /\ \A t \in Servers : Fetched(t)' = Fetched(t)
  BY DEF Change, lookup, config, Fetched, Url
<1>2. RequestsInv'
  BY <1>1 DEF RequestsInv, Url
<1>3. \A t \in Servers : ReadUnheard(t) \subseteq ReadUnheard(t)'
  BY <1>1 DEF ReadUnheard
<1>4. CASE UNCHANGED counters
  BY <1>1, <1>2, <1>3, <1>4, CountsKept DEF counters
<1>5. CASE ~UNCHANGED counters
  <2>1. /\ count' = [count EXCEPT ![s] = 0]
        /\ restarted' = IF phase \in {"trying", "found", "failed"} THEN restarted \cup {s}
                                                                   ELSE restarted
    BY <1>5 DEF Change, Counter
  <2>2. ASSUME NEW t \in Servers
        PROVE  /\ t \notin restarted' => Fetched(t)' <= count'[t]
               /\ count'[t] <= Fetched(t)' + Cardinality(ReadUnheard(t)')
    <3>1. /\ Cardinality(ReadUnheard(t)) \in Nat /\ Cardinality(ReadUnheard(t)') \in Nat
          /\ count[t] \in Nat /\ Fetched(t) \in {0, 1}
      BY UnheardFinite, UnheardFiniteNext DEF TypeOK, Fetched
    <3>2. Cardinality(ReadUnheard(t)) <= Cardinality(ReadUnheard(t)')
      BY <1>3, MoreUnheard
    <3>3. CASE t # s
      <4>1. count'[t] = count[t] /\ (t \in restarted => t \in restarted')
        BY <2>1, <3>3 DEF TypeOK
      <4>2. /\ t \notin restarted => Fetched(t) <= count[t]
            /\ count[t] <= Fetched(t) + Cardinality(ReadUnheard(t))
        BY DEF CountInv
      <4> QED BY <1>1, <3>1, <3>2, <4>1, <4>2
    <3>4. CASE t = s
      <4>1. count'[t] = 0
        BY <2>1, <3>4 DEF TypeOK
      <4>2. t \notin restarted' => Fetched(t) = 0
        BY <2>1, <3>4 DEF Untouched, Fetched
      <4> QED BY <1>1, <3>1, <4>1, <4>2
    <3> QED BY <3>3, <3>4
  <2> QED BY <1>2, <2>2 DEF CountInv
<1> QED BY <1>4, <1>5

(***************************************************************************)
(* What a server has counted is the key the lookup found there, and at     *)
(* most one more for each request whose answer went unheard, for any URLs, *)
(* keys and timeout and whatever the servers and the network do            *)
(* (keyserver/src/lib.rs 59-76, 102-132).                                  *)
(***************************************************************************)
THEOREM CountsAreFetches == Spec => []CountIsFetches
<1>1. Init => RequestsInv /\ CountInv
  <2> SUFFICES ASSUME Init PROVE RequestsInv /\ CountInv
    OBVIOUS
  <2>1. \A s \in Servers : ReadUnheard(s) = {} /\ Fetched(s) = 0
    BY DEF Init, ReadUnheard, Fetched
  <2>2. \A s \in Servers : Cardinality(ReadUnheard(s)) = 0
    BY <2>1, FS_EmptySet
  <2> QED BY <2>1, <2>2 DEF Init, RequestsInv, CountInv
<1>2. TypeOK /\ Untouched /\ TypeOK' /\ RequestsInv /\ CountInv /\ [Next]_vars
        => (RequestsInv /\ CountInv)'
  <2> SUFFICES ASSUME TypeOK, Untouched, TypeOK', RequestsInv, CountInv, [Next]_vars
               PROVE  RequestsInv' /\ CountInv'
    OBVIOUS
  <2>0. UrlFacts
    BY UrlTypes
  <2> USE <2>0 DEF UrlFacts
  <2>1. CASE InvalidConfig
    <3>1. Url \in Mistyped /\ reply = None
      BY <2>1 DEF InvalidConfig, RequestsInv
    <3> QED BY <2>1, <3>1, CountsTryNext DEF InvalidConfig
  <2>2. CASE ErrorReceived
    BY <2>2, CountsTryNext DEF ErrorReceived, Sent
  <2>3. CASE ExchangeBroken \/ TimedOut
    BY <2>3, CountsTryNext DEF ExchangeBroken, TimedOut, Sent
  <2>4. CASE UNCHANGED <<urls, pos, reply, settled, lost, counters>>
             /\ (phase' = "found" <=> phase = "found" \/ (phase' = "found" /\ reply \in Keys))
             /\ (phase' = "failed" => phase = "failed" \/ pos > Len(urls))
    <3>1. \A s \in Servers : Fetched(s)' = Fetched(s) /\ ReadUnheard(s)' = ReadUnheard(s)
      BY <2>4 DEF Fetched, Url, ReadUnheard
    <3>2. RequestsInv'
      BY <2>4 DEF RequestsInv, Url
    <3> QED BY <2>4, <3>1, <3>2, CountsKept DEF counters
  <2>5. CASE build \/ get_public_key \/ KeyReceived \/ Exhausted \/ Tick \/ UNCHANGED vars
    BY <2>4, <2>5 DEF build, get_public_key, KeyReceived, Exhausted, Tick, Sent, Trying,
                      config, lookup, vars
  <2>6. ASSUME phase = "configuring", UNCHANGED <<counters, lookup, reply, settled>>
        PROVE  RequestsInv' /\ CountInv'
    <3>1. \A s \in Servers : /\ Fetched(s) = 0 /\ Fetched(s)' = 0
                             /\ ReadUnheard(s) = {} /\ ReadUnheard(s)' = {}
      BY <2>6 DEF Untouched, Fetched, ReadUnheard, lookup
    <3>2. RequestsInv'
      BY <2>6 DEF Untouched, RequestsInv, lookup
    <3> QED BY <2>6, <3>1, <3>2, CountsKept DEF counters
  <2>7. CASE (\E u \in Urls : append_url(u)) \/ (\E t \in Timeouts : set_timeout(t))
    BY <2>6, <2>7 DEF append_url, set_timeout
  <2>8. ASSUME NEW i \in 1 .. MaxUrls, service(i) PROVE RequestsInv' /\ CountInv'
    BY <2>8, CountsService
  <2>9. ASSUME NEW s \in Servers, Change(s) PROVE RequestsInv' /\ CountInv'
    BY <2>9, CountsChange
  <2> QED
    BY <2>1, <2>2, <2>3, <2>5, <2>7, <2>8, <2>9 DEF Next
<1>3. TypeOK /\ CountInv => CountIsFetches
  <2> SUFFICES ASSUME TypeOK, CountInv, NEW s \in Servers
               PROVE  /\ s \notin restarted => Fetched(s) <= count[s]
                      /\ count[s] <= Fetched(s) + Cardinality(Unheard(s))
    BY DEF CountIsFetches
  <2>1. Fetched(s) \in {0, 1} /\ count[s] \in Nat
    BY DEF Fetched, TypeOK
  <2> QED BY <2>1, UnheardFinite DEF CountInv
<1> QED BY <1>1, <1>2, <1>3, Invariant, PTL DEF Spec
===============================================================================
