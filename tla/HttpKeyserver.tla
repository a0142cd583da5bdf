----------------------------- MODULE HttpKeyserver -----------------------------
(***************************************************************************)
(* HttpKeyserver, the Keyserver of ValidatorBuilder, and the servers it    *)
(* asks: it is given its URLs and its timeout, moves into a validator, and *)
(* get_public_key sends one request after another, each under the timeout, *)
(* while the servers come, go, dawdle and change what they serve.  A       *)
(* server that hangs is one that takes no step; the network may break an   *)
(* exchange at any point of it.                                            *)
(*                                                                         *)
(* The servers are those of asap_deps_keyserver, which count what they     *)
(* serve.  The bytes of a 200 answer are a key whatever they are           *)
(* (from_rsa_der never fails), so Keys may hold noise.                     *)
(***************************************************************************)
EXTENDS Integers, Sequences, FiniteSets

CONSTANTS
  Servers,           \* servers, and their well-formed URLs
  Mistyped,          \* URLs with no slash at the end, or that cannot be joined
  Keys,
  NoKey,             \* the answer 404 or 500, which the loop does not tell apart
  Down,              \* a server that was shut down
  None,
  Timeouts,          \* the arguments set_timeout is given
  DEFAULT_TIMEOUT,
  MaxUrls            \* bound on the number of URLs

Urls    == Servers \cup Mistyped
Answers == Keys \cup {NoKey}

ASSUME HttpKeyserverAssumption ==
  /\ Servers \cap Mistyped = {}
  /\ {NoKey, Down, None} \cap Keys = {}
  /\ None \notin {NoKey, Down} /\ Down # NoKey
  /\ Timeouts \subseteq Nat /\ DEFAULT_TIMEOUT \in Nat \ {0}
  /\ MaxUrls \in Nat \ {0}

VARIABLES
  serves,    \* serves[s]: what reading the kid's file at server s gives
  count,     \* count[s]: the counter of server s
  urls, timeout,
  phase,     \* "configuring", "idle", "trying", "found" or "failed"
  pos,       \* index in urls of the request under way
  age,       \* time since that request was sent
  reply,     \* the server's answer to it, on its way
  elapsed,   \* time since the lookup began
  answer,    \* the key it returned
  settled,   \* the requests no server will read any more
  given,     \* history: the URLs in the order in which they were configured
  offered,   \* history: the keys one of its servers held since the lookup began
  failed,    \* history: the URLs that failed the lookup
  lost,      \* history: the requests that ended without their answer being heard
  restarted  \* history: the servers started again since the lookup began

config   == <<urls, timeout, given>>
lookup   == <<phase, pos, age, elapsed, answer, failed, lost>>
counters == <<count, restarted>>
vars     == <<serves, counters, config, lookup, reply, settled, offered>>

Url     == urls[pos]
UrlSet  == { urls[i] : i \in DOMAIN urls }
Timeout == IF timeout = None THEN DEFAULT_TIMEOUT ELSE timeout

\* What a server has for the kid.
Content == [u \in Urls |-> IF u \in Servers /\ serves[u] \in Keys THEN serves[u] ELSE None]
Held    == { Content[u] : u \in UrlSet } \ {None}

Init ==
  /\ serves \in [Servers -> Answers \cup {Down}]
  /\ count = [s \in Servers |-> 0]
  /\ \E u \in Urls : urls = <<u>> /\ given = <<u>>
  /\ timeout = None
  /\ phase = "configuring" /\ pos = 1 /\ age = 0 /\ elapsed = 0
  /\ reply = None /\ answer = None
  /\ settled = {} /\ offered = {} /\ failed = {} /\ lost = {} /\ restarted = {}

-------------------------------------------------------------------------------
\* Also ValidatorBuilder::fallback_keyserver, until build takes the keyserver.
\* Mutant: the fallback is put first.
append_urlFirst(u) ==
  /\ phase = "configuring" /\ Len(urls) < MaxUrls
  /\ urls' = <<u>> \o urls /\ given' = Append(given, u)
  /\ UNCHANGED <<serves, counters, timeout, lookup, reply, settled, offered>>

append_url(u) ==
  /\ phase = "configuring" /\ Len(urls) < MaxUrls
  /\ urls' = Append(urls, u) /\ given' = Append(given, u)
  /\ UNCHANGED <<serves, counters, timeout, lookup, reply, settled, offered>>

set_timeout(t) ==
  /\ phase = "configuring"
  /\ timeout' = IF t = 0 THEN None ELSE t
  /\ UNCHANGED <<serves, counters, urls, given, lookup, reply, settled, offered>>

\* ValidatorBuilder::build takes the keyserver out of the builder.
build ==
  /\ phase = "configuring" /\ phase' = "idle"
  /\ UNCHANGED <<serves, counters, config, pos, age, elapsed, answer, failed, lost>>
  /\ UNCHANGED <<reply, settled, offered>>

get_public_key ==
  /\ phase = "idle" /\ phase' = "trying"
  /\ offered' = Held
  /\ UNCHANGED <<serves, counters, config, pos, age, elapsed, answer, failed, lost, reply, settled>>

\* The loop goes on to the next URL, whatever the error.  Mutant: it steps over
\* one.
TryNextButOne ==
  /\ pos' = pos + 2 /\ age' = 0 /\ reply' = None
  /\ failed' = failed \cup {Url}
  /\ UNCHANGED <<serves, counters, config, phase, elapsed, answer, offered>>

TryNext ==
  /\ pos' = pos + 1 /\ age' = 0 /\ reply' = None
  /\ failed' = failed \cup {Url}
  /\ UNCHANGED <<serves, counters, config, phase, elapsed, answer, offered>>

Trying == phase = "trying" /\ pos <= Len(urls)

InvalidConfig ==
  /\ Trying /\ Url \in Mistyped
  /\ TryNext /\ UNCHANGED <<settled, lost>>

Sent == Trying /\ Url \in Servers

KeyReceived ==
  /\ Sent /\ reply \in Keys
  /\ phase' = "found" /\ answer' = reply
  /\ UNCHANGED <<serves, counters, config, pos, age, elapsed, failed, lost, reply, settled, offered>>

ErrorReceived ==
  /\ Sent /\ reply = NoKey
  /\ TryNext /\ UNCHANGED <<settled, lost>>

\* A connection refused, reset or closed in the middle of a body, whatever the
\* server has done or will still do for the request.
ExchangeBroken ==
  /\ Sent
  /\ TryNext /\ lost' = lost \cup {pos}
  /\ settled' \in {settled, settled \cup {pos}}

\* The timeout fires, be the server hung or its answer still under way.
\* Mutants: the request is sent again; a request whose answer was begun is not
\* timed.
TimedOutRetry ==
  /\ Sent /\ age = Timeout
  /\ age' = 0
  /\ UNCHANGED <<serves, counters, config, phase, pos, elapsed, answer, failed, lost>>
  /\ UNCHANGED <<reply, settled, offered>>

TimedOutIfAnswering ==
  /\ Sent /\ age = Timeout /\ reply # None
  /\ TryNext /\ lost' = lost \cup {pos} /\ UNCHANGED settled

TimedOut ==
  /\ Sent /\ age = Timeout
  /\ TryNext /\ lost' = lost \cup {pos} /\ UNCHANGED settled

\* The loop is over.  Mutant: the error of the first URL ends it.
ExhaustedEarly ==
  /\ phase = "trying" /\ pos > 1
  /\ phase' = "failed"
  /\ UNCHANGED <<serves, counters, config, pos, age, elapsed, answer, failed, lost>>
  /\ UNCHANGED <<reply, settled, offered>>

Exhausted ==
  /\ phase = "trying" /\ pos > Len(urls)
  /\ phase' = "failed"
  /\ UNCHANGED <<serves, counters, config, pos, age, elapsed, answer, failed, lost>>
  /\ UNCHANGED <<reply, settled, offered>>

Tick ==
  /\ Sent /\ age < Timeout
  /\ age' = age + 1 /\ elapsed' = elapsed + 1
  /\ UNCHANGED <<serves, counters, config, phase, pos, answer, failed, lost, reply, settled, offered>>

-------------------------------------------------------------------------------
\* The counter after a request for what(s) gave r.  Mutant: all are counted.
CountedAll(s, r) == [count EXCEPT ![s] = @ + 1]
Counted(s, r)    == IF r \in Keys THEN [count EXCEPT ![s] = @ + 1] ELSE count

\* The server's handler reads the file and answers the i-th request, which its
\* client may have given up.
service(i) ==
  /\ phase \in {"trying", "found", "failed"}
  /\ i \in DOMAIN urls /\ i <= pos /\ i \notin settled
  /\ urls[i] \in Servers /\ serves[urls[i]] # Down
  /\ settled' = settled \cup {i}
  /\ count' = Counted(urls[i], serves[urls[i]])
  /\ reply' = IF i = pos /\ phase = "trying" THEN serves[urls[i]] ELSE reply
  /\ UNCHANGED <<serves, restarted, config, lookup, offered>>

\* The operators of a server change what it holds, shut it down or start it.  It
\* starts with a new counter, and does not know the requests given up before.
Counter(s, a) ==
  IF serves[s] = Down /\ a # Down
    THEN /\ count' = [count EXCEPT ![s] = 0]
         /\ restarted' = IF phase \in {"trying", "found", "failed"}
                           THEN restarted \cup {s} ELSE restarted
    ELSE UNCHANGED counters

Change(s) ==
  /\ \E a \in Answers \cup {Down} : serves' = [serves EXCEPT ![s] = a] /\ Counter(s, a)
  /\ settled' = IF serves[s] = Down
                  THEN settled \cup { i \in 1 .. (pos - 1) : urls[i] = s } ELSE settled
  /\ UNCHANGED <<config, lookup, reply>>
  /\ offered' = IF phase = "trying" THEN offered \cup Held' ELSE offered

Next ==
  \/ \E u \in Urls : append_url(u)
  \/ \E t \in Timeouts : set_timeout(t)
  \/ build \/ get_public_key
  \/ InvalidConfig \/ KeyReceived \/ ErrorReceived \/ ExchangeBroken \/ TimedOut
  \/ Exhausted \/ Tick
  \/ \E i \in 1 .. MaxUrls : service(i)
  \/ \E s \in Servers : Change(s)

Spec == Init /\ [][Next]_vars

\* A request under way sees its answer, its error or its timeout; no server has
\* to answer or to recover, and no exchange has to break.
FairSpec ==
  Spec /\ WF_vars(InvalidConfig \/ KeyReceived \/ ErrorReceived \/ TimedOut \/ Exhausted \/ Tick)

-------------------------------------------------------------------------------
TypeOK ==
  /\ serves \in [Servers -> Answers \cup {Down}]
  /\ count \in [Servers -> Nat]
  /\ urls \in Seq(Urls) /\ Len(urls) \in 1 .. MaxUrls
  /\ timeout \in (Nat \ {0}) \cup {None}
  /\ phase \in {"configuring", "idle", "trying", "found", "failed"}
  /\ pos \in 1 .. (Len(urls) + 1)
  /\ age \in 0 .. Timeout /\ elapsed \in Nat
  /\ reply \in Answers \cup {None}
  /\ answer \in Keys \cup {None}
  /\ settled \subseteq 1 .. Len(urls)
  /\ given \in Seq(Urls)
  /\ offered \subseteq Keys /\ failed \subseteq UrlSet
  /\ lost \subseteq 1 .. Len(urls) /\ restarted \subseteq Servers

(***************************************************************************)
(* "These keyservers are tried in order until a key is successfully        *)
(* returned" (validator.rs 131): the server whose key was returned was     *)
(* asked after every URL configured before it had failed.                  *)
(***************************************************************************)
TriedInOrder ==
  phase = "found" =>
    \E i \in DOMAIN given :
      given[i] = Url /\ \A j \in 1 .. (i - 1) : given[j] \in failed

(***************************************************************************)
(* A lookup takes no longer than one timeout per URL, so a caller that     *)
(* knows the number of keyservers can bound its own wait, hung servers     *)
(* and a zero timeout setting included (keyserver.rs 84-113, 148-156).     *)
(***************************************************************************)
BoundedWait == elapsed <= Len(urls) * Timeout

(***************************************************************************)
(* What the tests infer from the count of a keyserver about the lookups    *)
(* of a validator: a server has counted the key fetched from it, unless it *)
(* was started again since, and beyond that no more than the requests      *)
(* whose answer went unheard, given up at their timeout or broken, be they *)
(* served before or after that.  A count tells nothing else, whatever the  *)
(* servers and the network do (keyserver/src/lib.rs 59-76, 102-132;        *)
(* api.rs 493-524).                                                        *)
(***************************************************************************)
Fetched(s) == IF (phase = "found" \/ reply \in Keys) /\ s = Url THEN 1 ELSE 0
Unheard(s) == { i \in lost : urls[i] = s }

CountIsFetches ==
  \A s \in Servers :
    /\ s \notin restarted => Fetched(s) <= count[s]
    /\ count[s] <= Fetched(s) + Cardinality(Unheard(s))

(***************************************************************************)
(* The lookup implements KeyLookup: whatever the servers do meanwhile, its *)
(* key was held by one of them during the lookup, and it gives up only     *)
(* after every one of them has failed it (keyserver.rs 148-156).           *)
(***************************************************************************)
Lookup == INSTANCE KeyLookup WITH
  Sources <- Urls,
  content <- Content,
  chosen  <- UrlSet,
  phase   <- IF phase = "configuring" THEN "idle" ELSE phase

ImplementsLookup == Lookup!Spec

(***************************************************************************)
(* Every lookup ends, even if all servers hang for good.                   *)
(***************************************************************************)
LookupEnds == phase = "trying" ~> phase \in {"found", "failed"}
===============================================================================
