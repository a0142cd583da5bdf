------------------------------- MODULE KeyLookup -------------------------------
(***************************************************************************)
(* What Keyserver::get_public_key promises for one kid: the key is one     *)
(* that some source was handing out while the lookup was under way, and an *)
(* error means that every source failed the lookup.                        *)
(***************************************************************************)
CONSTANTS Sources, Keys, None

VARIABLES
  content,   \* content[s]: the key source s holds under the kid, or None
  chosen,    \* the sources this lookup may ask
  phase,     \* "idle", "trying", "found" or "failed"
  offered,   \* the keys held by a chosen source since the lookup began
  failed,    \* the sources that failed the lookup
  answer     \* the key it returned

vars == <<content, chosen, phase, offered, failed, answer>>

Held == { content[s] : s \in chosen } \ {None}

Init ==
  /\ content \in [Sources -> Keys \cup {None}]
  /\ chosen \subseteq Sources
  /\ phase = "idle" /\ offered = {} /\ failed = {} /\ answer = None

Choose ==
  /\ phase = "idle"
  /\ chosen' \subseteq Sources
  /\ UNCHANGED <<content, phase, offered, failed, answer>>

Ask ==
  /\ phase = "idle" /\ phase' = "trying"
  /\ offered' = Held
  /\ UNCHANGED <<content, chosen, failed, answer>>

Change(s) ==
  /\ \E key \in Keys \cup {None} : content' = [content EXCEPT ![s] = key]
  /\ offered' = IF phase = "trying" THEN offered \cup Held' ELSE offered
  /\ UNCHANGED <<chosen, phase, failed, answer>>

\* A source lets the lookup down.
Miss(s) ==
  /\ phase = "trying"
  /\ failed' = failed \cup {s}
  /\ UNCHANGED <<content, chosen, phase, offered, answer>>

Find ==
  /\ phase = "trying" /\ phase' = "found"
  /\ answer' \in offered
  /\ UNCHANGED <<content, chosen, offered, failed>>

Fail ==
  /\ phase = "trying" /\ phase' = "failed"
  /\ failed = chosen
  /\ UNCHANGED <<content, chosen, offered, failed, answer>>

Next ==
  \/ Choose \/ Ask \/ Find \/ Fail
  \/ \E s \in chosen : Miss(s)
  \/ \E s \in Sources : Change(s)

Spec == Init /\ [][Next]_vars
===============================================================================
