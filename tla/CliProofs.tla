-------------------------------- MODULE CliProofs --------------------------------
(***************************************************************************)
(* For any number of invocations and any number of pieces: the types of    *)
(* Cli, when a file may be torn, what the silence of an init means, and    *)
(* which configuration a command works with.                               *)
(***************************************************************************)
EXTENDS Cli, TLAPS

USE CliAssumption

\* Where an init may be, and the file it is writing.
InitInv(i) ==
  /\ pc[i] \in {"ask", "create", "write", "done"}
  /\ pc[i] # "done" => outcome[i] = "pending"
  /\ pc[i] \in {"ask", "create"} => piece[i] = 1
  /\ pc[i] \in {"create", "write"} \/ outcome[i] = "ok" => path[i] \in Paths
  /\ pc[i] = "write" => files[path[i]] # None /\ piece[i] \in PieceNos

\* Where a command may be, and the file it is reading.
CommandInv(c) ==
  /\ pc[c] \in {"open", "read", "parse", "create_token", "deliver", "done"}
  /\ pc[c] # "done" => outcome[c] = "pending"
  /\ path[c] \in Paths
  /\ pc[c] = "read" => files[path[c]] # None /\ piece[c] \in PieceNos

PlacesInv ==
  /\ \A i \in Inits : InitInv(i)
  /\ \A c \in Commands : CommandInv(c)

\* A file that no two inits met in holds pieces of one, the one that is at it if
\* any is.
UnmixedInv ==
  \A f \in Paths \ mixed : files[f] # None =>
    \E w \in Written : Writers(f) \subseteq {w} /\ \A k \in PieceNos : files[f][k] \in {w, Missing}

\* A piece that is missing has not been reached by some init that is at the file.
MissingInv ==
  \A f \in Paths \ interrupted : \A k \in PieceNos :
    files[f] # None /\ files[f][k] = Missing => \E i \in Writers(f) : piece[i] <= k

FilesInv == UnmixedInv /\ MissingInv

InitStep(i) == Ask(i) \/ CreateFails(i) \/ Create(i) \/ Write(i) \/ WriteFails(i)
CommandStep(c) ==
  Open(c) \/ LoadFails(c) \/ Read(c) \/ Override(c) \/ create_token(c) \/ Deliver(c)

LEMMA Steps ==
  [Next]_vars =>
    \/ \E i \in Inits : InitStep(i)
    \/ \E c \in Commands : CommandStep(c)
    \/ \E p \in Invocations : Kill(p)
    \/ \E f \in Unstable : AccessChanges(f)
    \/ UNCHANGED vars
BY DEF Next, InitStep, CommandStep

\* An invocation leaves the others where they are.
LEMMA InitIsLocal ==
  ASSUME TypeOK, NEW i \in Inits, InitStep(i)
  PROVE  /\ UNCHANGED <<opt, config, nearest, places>>
         /\ \A p \in Invocations : p # i =>
              /\ pc'[p] = pc[p] /\ path'[p] = path[p]
              /\ piece'[p] = piece[p] /\ outcome'[p] = outcome[p]
<1> USE DEF TypeOK, history, Goto, End
<1>1. CASE Ask(i) \/ CreateFails(i) \/ WriteFails(i)
  BY <1>1 DEF Ask, CreateFails, WriteFails, Invocations
<1>2. CASE Create(i) \/ Write(i)
  BY <1>2 DEF Create, Write, Invocations
<1> QED BY <1>1, <1>2 DEF InitStep

LEMMA CommandIsLocal ==
  ASSUME TypeOK, NEW c \in Commands, CommandStep(c)
  PROVE  /\ UNCHANGED <<files, places, opt, interrupted, mixed>>
         /\ \A p \in Invocations : p # c =>
              /\ pc'[p] = pc[p] /\ path'[p] = path[p]
              /\ piece'[p] = piece[p] /\ outcome'[p] = outcome[p]
         /\ \A d \in Commands : d # c =>
              config'[d] = config[d] /\ nearest'[d] = nearest[d]
         /\ \A d \in disturbed : d \in disturbed'
<1> USE DEF TypeOK, history, Goto, End
<1>1. CASE Open(c) \/ LoadFails(c)
  BY <1>1 DEF Open, LoadFails, Invocations
<1>2. CASE Read(c) \/ Override(c)
  BY <1>2 DEF Read, Override, Invocations
<1>3. CASE create_token(c) \/ Deliver(c)
  BY <1>3 DEF create_token, Deliver, Invocations
<1> QED BY <1>1, <1>2, <1>3 DEF CommandStep

-------------------------------------------------------------------------------
\* One piece of one file is written.
LEMMA PieceWritten ==
  ASSUME TypeOK, PlacesInv, NEW i \in Inits, Write(i)
  PROVE  /\ path[i] \in Paths /\ piece[i] \in PieceNos /\ files[path[i]] \in Contents
         /\ files' = [files EXCEPT ![path[i]] = [files[path[i]] EXCEPT ![piece[i]] = i]]
         /\ files'[path[i]] \in Contents /\ files'[path[i]] # None
         /\ files' \in [Paths -> Contents \cup {None}]
<1>1. path[i] \in Paths /\ piece[i] \in PieceNos /\ files[path[i]] # None
  BY DEF PlacesInv, InitInv, Write
<1>2. files[path[i]] \in Contents
  BY <1>1 DEF TypeOK
<1>3. [files[path[i]] EXCEPT ![piece[i]] = i] \in Contents
  BY <1>1, <1>2 DEF Contents, Written
<1>4. files' = [files EXCEPT ![path[i]] = [files[path[i]] EXCEPT ![piece[i]] = i]]
  BY DEF Write
<1> QED BY <1>1, <1>2, <1>3, <1>4 DEF TypeOK

LEMMA Positions ==
  /\ 1 \in PieceNos /\ 1 \in 1 .. (Pieces + 1)
  /\ \A n \in PieceNos : n + 1 \in 1 .. (Pieces + 1)
BY DEF PieceNos

LEMMA WholeTypes ==
  /\ \A w \in Written : Whole(w) \in Contents /\ Whole(w) # None
  /\ Whole(Missing) \in Contents /\ Whole(Missing) # None
BY DEF Whole, Contents

\* Ends and steps of an invocation, as far as the types go.
CallTypes ==
  /\ pc \in [Invocations ->
       {"ask", "create", "write", "open", "read", "parse", "create_token", "deliver", "done"}]
  /\ outcome \in [Invocations ->
       {"pending", "ok", "reported", "not_found", "panic", "killed"}]

LEMMA EndTypes ==
  ASSUME TypeOK, NEW p,
         NEW how \in {"ok", "reported", "not_found", "panic", "killed"}, End(p, how)
  PROVE  CallTypes'
BY DEF TypeOK, End, CallTypes

LEMMA GotoTypes ==
  ASSUME TypeOK, NEW p,
         NEW label \in {"create", "write", "open", "read", "parse", "create_token", "deliver"},
         Goto(p, label)
  PROVE  CallTypes'
BY DEF TypeOK, Goto, CallTypes

LEMMA TypesHold ==
  ASSUME TypeOK, PlacesInv, [Next]_vars
  PROVE  TypeOK'
<1> USE DEF history, places, CallTypes
<1>1. ASSUME NEW i \in Inits, InitStep(i) PROVE TypeOK'
  <2>1. CASE Ask(i)
    <3>1. CallTypes'
      BY <2>1, EndTypes, GotoTypes DEF Ask
    <3> QED BY <2>1, <3>1 DEF TypeOK, Ask
  <2>2. CASE CreateFails(i)
    BY <2>2, EndTypes DEF TypeOK, CreateFails
  <2>3. CASE Create(i)
    <3>1. CallTypes' /\ path[i] \in Paths
      BY <2>3, GotoTypes DEF Create, PlacesInv, InitInv
    <3>2. files' \in [Paths -> Contents \cup {None}]
      BY <2>3, WholeTypes DEF TypeOK, Create
    <3>3. interrupted' \subseteq Paths /\ mixed' \subseteq Paths /\ disturbed' \subseteq Commands
      BY <2>3, <3>1 DEF TypeOK, Create, Readers
    <3> QED BY <2>3, <3>1, <3>2, <3>3 DEF TypeOK, Create
  <2>4. CASE Write(i)
    <3>1. CallTypes'
      BY <2>4, EndTypes, GotoTypes DEF Write
    <3>2. files' \in [Paths -> Contents \cup {None}] /\ piece[i] \in PieceNos
      BY <2>4, PieceWritten
    <3>3. disturbed' \subseteq Commands
      BY <2>4 DEF TypeOK, Write, Readers
    <3>4. piece' \in [Invocations -> 1 .. (Pieces + 1)]
      BY <2>4, <3>2, Positions DEF TypeOK, Write
    <3> QED BY <2>4, <3>1, <3>2, <3>3, <3>4 DEF TypeOK, Write
  <2>5. CASE WriteFails(i)
    <3>1. CallTypes' /\ path[i] \in Paths
      BY <2>5, EndTypes DEF WriteFails, PlacesInv, InitInv
    <3> QED BY <2>5, <3>1 DEF TypeOK, WriteFails
  <2> QED BY <1>1, <2>1, <2>2, <2>3, <2>4, <2>5 DEF InitStep
<1>2. ASSUME NEW c \in Commands, CommandStep(c) PROVE TypeOK'
  <2>1. /\ path[c] \in Paths /\ opt[c] \in Opts
        /\ pc[c] = "read" => files[path[c]] # None /\ piece[c] \in PieceNos
    BY DEF PlacesInv, CommandInv, TypeOK
  <2>2. Nearest(c) \in Paths \cup {"unsought", None}
    BY <2>1 DEF Nearest, Opts, Paths
  <2>3. CASE Open(c)
    <3>1. CallTypes'
      BY <2>3, GotoTypes DEF Open
    <3>2. piece' \in [Invocations -> 1 .. (Pieces + 1)]
      BY <2>3, Positions DEF TypeOK, Open
    <3>3. nearest' \in [Commands -> Paths \cup {"unsought", None}]
      BY <2>2, <2>3 DEF TypeOK, Open
    <3> QED BY <2>3, <3>1, <3>2, <3>3 DEF TypeOK, Open
  <2>4. CASE LoadFails(c)
    <3>1. CallTypes' /\ path' \in [Invocations -> Paths \cup {None}]
      BY <2>4, EndTypes, GotoTypes DEF LoadFails, TypeOK, Paths
    <3>2. nearest' \in [Commands -> Paths \cup {"unsought", None}]
      BY <2>2, <2>4 DEF TypeOK, LoadFails
    <3> QED BY <2>4, <3>1, <3>2 DEF TypeOK, LoadFails
  <2>5. CASE Read(c)
    <3>1. CallTypes'
      BY <2>5, GotoTypes DEF Read
    <3>2. files[path[c]][piece[c]] \in Written
      BY <2>1, <2>5 DEF Read, TypeOK, Contents
    <3>3. piece' \in [Invocations -> 1 .. (Pieces + 1)]
      BY <2>1, <2>5, Positions DEF TypeOK, Read
    <3>4. [config[c] EXCEPT ![piece[c]] = files[path[c]][piece[c]]]
            \in [PieceNos -> Written \cup {Missing, Option}]
      BY <2>1, <2>5, <3>2 DEF TypeOK, Read
    <3>5. config' \in [Commands -> [PieceNos -> Written \cup {Missing, Option}]]
      BY <2>5, <3>4 DEF TypeOK, Read
    <3> QED BY <2>5, <3>1, <3>3, <3>5 DEF TypeOK, Read
  <2>6. CASE Override(c)
    <3>1. CallTypes'
      BY <2>6, EndTypes, GotoTypes DEF Override
    <3>2. Overridden(c) \in [PieceNos -> Written \cup {Missing, Option}]
      BY DEF TypeOK, Overridden
    <3>3. config' \in [Commands -> [PieceNos -> Written \cup {Missing, Option}]]
      BY <2>6, <3>2 DEF TypeOK, Override
    <3> QED BY <2>6, <3>1, <3>3 DEF TypeOK, Override
  <2>7. CASE create_token(c) \/ Deliver(c)
    BY <2>7, EndTypes, GotoTypes DEF TypeOK, create_token, Deliver
  <2> QED BY <1>2, <2>3, <2>4, <2>5, <2>6, <2>7 DEF CommandStep
<1>3. ASSUME NEW p \in Invocations, Kill(p) PROVE TypeOK'
  <2>1. pc[p] = "write" => path[p] \in Paths
    BY DEF PlacesInv, InitInv, CommandInv, Invocations
  <2>2. interrupted' \subseteq Paths
    BY <1>3, <2>1 DEF Kill, TypeOK
  <2> QED BY <1>3, <2>2, EndTypes DEF TypeOK, Kill
<1>4. ASSUME NEW f \in Unstable, AccessChanges(f) PROVE TypeOK'
  BY <1>4 DEF TypeOK, AccessChanges, Readers
<1>5. CASE UNCHANGED vars
  BY <1>5 DEF TypeOK, vars
<1> QED BY <1>1, <1>2, <1>3, <1>4, <1>5, Steps

\* A file that is there stays.
LEMMA FilesStay ==
  ASSUME TypeOK, PlacesInv, [Next]_vars, NEW f \in Paths, files[f] # None
  PROVE  files'[f] # None
<1>1. ASSUME NEW i \in Inits, Write(i) PROVE files'[f] # None
  BY <1>1, PieceWritten DEF TypeOK
<1>2. ASSUME NEW i \in Inits, Create(i) PROVE files'[f] # None
  BY <1>2, WholeTypes DEF Create, TypeOK
<1>3. ASSUME NEW i \in Inits, InitStep(i) PROVE files'[f] # None
  BY <1>1, <1>2, <1>3 DEF InitStep, Ask, CreateFails, WriteFails
<1> QED BY <1>3, CommandIsLocal, Steps DEF Kill, AccessChanges, vars

LEMMA PlacesHold ==
  ASSUME TypeOK, PlacesInv, [Next]_vars
  PROVE  PlacesInv'
<1> USE DEF PlacesInv
<1>0. /\ \A i \in Inits : i \in Invocations /\ i \notin Commands
      /\ \A c \in Commands : c \in Invocations /\ c \notin Inits
  BY DEF Invocations
<1>1. ASSUME NEW i \in Inits, InitStep(i) PROVE PlacesInv'
  <2>1. ASSUME NEW j \in Inits, j # i PROVE InitInv(j)'
    BY <1>0, <1>1, <2>1, InitIsLocal, FilesStay DEF InitInv
  <2>2. ASSUME NEW c \in Commands PROVE CommandInv(c)'
    BY <1>0, <1>1, <2>2, InitIsLocal, FilesStay DEF CommandInv
  <2>3. InitInv(i)'
    <3>0. Write(i) =>
            path[i] \in Paths /\ piece[i] \in PieceNos /\ files'[path[i]] # None
      BY PieceWritten
    <3> USE <1>0 DEF InitInv, TypeOK, Goto, End, history
    <3>1. CASE Ask(i)
      BY <3>1 DEF Ask
    <3>2. CASE CreateFails(i) \/ WriteFails(i)
      BY <3>2 DEF CreateFails, WriteFails
    <3>3. CASE Create(i)
      BY <3>3, WholeTypes, Positions DEF Create
    <3>4. CASE Write(i)
      <4>1. path[i] \in Paths /\ piece[i] \in PieceNos /\ files'[path[i]] # None
        BY <3>0, <3>4
      <4>2. piece[i] # Pieces => piece[i] + 1 \in PieceNos
        BY <4>1 DEF PieceNos
      <4> QED BY <3>4, <4>1, <4>2 DEF Write, Flushed
    <3> QED BY <1>1, <3>1, <3>2, <3>3, <3>4 DEF InitStep
  <2> QED BY <2>1, <2>2, <2>3
<1>2. ASSUME NEW c \in Commands, CommandStep(c) PROVE PlacesInv'
  <2>1. ASSUME NEW i \in Inits PROVE InitInv(i)'
    BY <1>0, <1>2, <2>1, CommandIsLocal DEF InitInv
  <2>2. ASSUME NEW d \in Commands, d # c PROVE CommandInv(d)'
    BY <1>0, <1>2, <2>2, CommandIsLocal DEF CommandInv
  <2>3. CommandInv(c)'
    <3> USE <1>0 DEF CommandInv, TypeOK, Goto, End, history
    <3>1. CASE Open(c)
      BY <3>1, Positions DEF Open
    <3>2. CASE LoadFails(c)
      BY <3>2 DEF LoadFails, Paths
    <3>3. CASE Read(c)
      <4>1. piece[c] \in PieceNos /\ (piece[c] < Pieces => piece[c] + 1 \in PieceNos)
        BY <3>3 DEF Read, PieceNos
      <4> QED BY <3>3, <4>1 DEF Read
    <3>4. CASE Override(c) \/ create_token(c) \/ Deliver(c)
      BY <3>4 DEF Override, create_token, Deliver
    <3> QED BY <1>2, <3>1, <3>2, <3>3, <3>4 DEF CommandStep
  <2> QED BY <2>1, <2>2, <2>3
<1>3. ASSUME NEW p \in Invocations, Kill(p) PROVE PlacesInv'
  BY <1>0, <1>3 DEF InitInv, CommandInv, Kill, End, TypeOK
<1>4. CASE (\E f \in Unstable : AccessChanges(f)) \/ UNCHANGED vars
  BY <1>4 DEF InitInv, CommandInv, AccessChanges, vars
<1> QED BY <1>1, <1>2, <1>3, <1>4, Steps

LEMMA Invariant == Spec => [](TypeOK /\ PlacesInv)
<1>1. Init => TypeOK
  <2> SUFFICES ASSUME Init PROVE TypeOK
    OBVIOUS
  <2>1. files \in [Paths -> Contents \cup {None}]
    BY WholeTypes DEF Init, Written
  <2>2. path \in [Invocations -> Paths \cup {None}]
    BY DEF Init, First, Opts, Paths, Invocations
  <2>3. config \in [Commands -> [PieceNos -> Written \cup {Missing, Option}]]
    BY DEF Init, Whole
  <2> QED BY <2>1, <2>2, <2>3, Positions DEF Init, TypeOK
<1>2. Init => PlacesInv
  BY DEF Init, PlacesInv, InitInv, CommandInv, First, Opts, Paths, Invocations
<1> QED BY <1>1, <1>2, TypesHold, PlacesHold, PTL DEF Spec

\* The types of the files and of the invocations.
THEOREM TypeCorrect == Spec => []TypeOK
BY Invariant, PTL

-------------------------------------------------------------------------------
\* What an init does to the writers of a file.
LEMMA WritersAfterInit ==
  ASSUME TypeOK, PlacesInv, NEW i \in Inits, InitStep(i), NEW f \in Paths
  PROVE  LET was == pc[i] = "write" /\ path[i] = f
             is  == pc'[i] = "write" /\ path'[i] = f
         IN  /\ was => i \in Writers(f)
             /\ is => i \in Writers(f)' /\ Writers(f)' = Writers(f) \cup {i}
             /\ (was <=> is) => Writers(f)' = Writers(f)
<1>1. \A j \in Inits : j # i => pc'[j] = pc[j] /\ path'[j] = path[j]
  BY InitIsLocal DEF Invocations
<1> QED BY <1>1 DEF Writers

LEMMA WritersElsewhere ==
  ASSUME TypeOK, PlacesInv,
         \/ \E c \in Commands : CommandStep(c)
         \/ \E f \in Unstable : AccessChanges(f)
         \/ UNCHANGED vars
  PROVE  /\ UNCHANGED <<files, interrupted, mixed>>
         /\ \A f \in Paths : Writers(f)' = Writers(f)
         /\ \A i \in Inits : UNCHANGED <<pc[i], path[i], piece[i], outcome[i]>>
<1>1. \A i \in Inits : i \in Invocations /\ i \notin Commands
  BY DEF Invocations
<1>2. UNCHANGED <<files, interrupted, mixed>>
  BY CommandIsLocal DEF AccessChanges, vars, history
<1>3. \A i \in Inits : UNCHANGED <<pc[i], path[i], piece[i], outcome[i]>>
  BY <1>1, CommandIsLocal DEF AccessChanges, vars
<1> QED BY <1>2, <1>3 DEF Writers

\* The only writer of a file leaves it whole after the last piece.
LEMMA WriteCompletes ==
  ASSUME TypeOK, PlacesInv, FilesInv, NEW i \in Inits, Write(i),
         path[i] \notin interrupted \cup mixed, piece[i] = Pieces
  PROVE  files'[path[i]] = Whole(i)
<1>1. PICK f \in Paths : f = path[i]
  BY PieceWritten
<1>2. /\ files'[f] = [files[f] EXCEPT ![piece[i]] = i] /\ piece[i] \in PieceNos
      /\ files[f] \in Contents /\ files'[f] \in Contents /\ files[f] # None
  <2>1. /\ files' = [files EXCEPT ![path[i]] = [files[path[i]] EXCEPT ![piece[i]] = i]]
        /\ piece[i] \in PieceNos
        /\ files[path[i]] \in Contents /\ files'[path[i]] \in Contents
    BY PieceWritten
  <2> QED BY <1>1, <2>1 DEF TypeOK
<1>3. i \in Writers(f)
  BY <1>1 DEF Writers, Write
<1>4. Writers(f) = {i} /\ \A k \in PieceNos : files[f][k] \in {i, Missing}
  BY <1>1, <1>2, <1>3 DEF FilesInv, UnmixedInv
<1>5. \A k \in PieceNos : k # Pieces => files[f][k] = i
  <2>1. \A k \in PieceNos : k # Pieces => ~(Pieces <= k)
    BY DEF PieceNos
  <2> QED BY <1>1, <1>2, <1>4, <2>1 DEF FilesInv, MissingInv
<1>6. \A k \in PieceNos : files'[f][k] = i
  BY <1>2, <1>5 DEF Contents
<1> QED BY <1>1, <1>2, <1>6 DEF Whole, Contents

LEMMA FilesHold ==
  ASSUME TypeOK, PlacesInv, FilesInv, [Next]_vars
  PROVE  FilesInv'
<1> USE DEF FilesInv, history
<1>1. ASSUME NEW i \in Inits, InitStep(i) PROVE FilesInv'
  <2>0. \A j \in Inits : j # i => piece'[j] = piece[j]
    BY <1>1, InitIsLocal DEF Invocations
  <2>1. CASE Ask(i) \/ CreateFails(i)
    <3>1. UNCHANGED <<files, interrupted, mixed, piece>> /\ pc[i] # "write" /\ pc'[i] # "write"
      BY <2>1 DEF Ask, CreateFails, Goto, End, TypeOK, Invocations
    <3>2. \A f \in Paths : Writers(f)' = Writers(f)
      BY <1>1, <3>1, WritersAfterInit
    <3> QED BY <3>1, <3>2 DEF UnmixedInv, MissingInv
  <2>2. CASE Create(i)
    <3>0. PICK f \in Paths : f = path[i]
      BY <2>2 DEF PlacesInv, InitInv, Create
    <3>1. /\ pc[i] = "create" /\ pc'[i] = "write"
          /\ path' = path /\ piece' = piece /\ piece[i] = 1
          /\ files'[f] = Whole(Missing)
          /\ \A g \in Paths : g # f => files'[g] = files[g]
      BY <2>2, <3>0 DEF Create, Goto, TypeOK, Invocations, PlacesInv, InitInv
    <3>2. /\ Writers(f)' = Writers(f) \cup {i}
          /\ \A g \in Paths : g # f => Writers(g)' = Writers(g)
      BY <1>1, <3>1, <3>0, WritersAfterInit
    <3>3. /\ Writers(f) # {} => f \in mixed'
          /\ \A g \in Paths : g # f => (g \in mixed' <=> g \in mixed)
                                       /\ (g \in interrupted' <=> g \in interrupted)
      BY <2>2, <3>0 DEF Create
    <3>4. UnmixedInv'
      <4>1. ASSUME f \notin mixed'
            PROVE  \E w \in Written : /\ Writers(f)' \subseteq {w}
                                      /\ \A k \in PieceNos : files'[f][k] \in {w, Missing}
        BY <3>1, <3>2, <3>3, <4>1 DEF Whole, Written
      <4> QED BY <3>1, <3>2, <3>3, <4>1 DEF UnmixedInv
    <3>5. MissingInv'
      <4>1. \A k \in PieceNos : piece'[i] <= k
        BY <3>1 DEF PieceNos
      <4>2. i \in Writers(f)'
        BY <3>2
      <4> QED BY <3>1, <3>2, <3>3, <4>1, <4>2 DEF MissingInv
    <3> QED BY <3>4, <3>5
  <2>3. CASE Write(i)
    <3>0. PICK f \in Paths : f = path[i]
      BY <2>3, PieceWritten
    <3>1. /\ pc[i] = "write" /\ piece[i] \in PieceNos
          /\ path' = path /\ interrupted' = interrupted /\ mixed' = mixed
          /\ piece'[i] = piece[i] + 1
          /\ files' = [files EXCEPT ![f] = [files[f] EXCEPT ![piece[i]] = i]]
          /\ files[f] \in Contents /\ files[f] # None
      <4>1. /\ piece[i] \in PieceNos /\ files[path[i]] \in Contents
            /\ files' = [files EXCEPT ![path[i]] = [files[path[i]] EXCEPT ![piece[i]] = i]]
        BY <2>3, PieceWritten
      <4>2. /\ pc[i] = "write" /\ piece'[i] = piece[i] + 1
            /\ UNCHANGED <<path, interrupted, mixed>>
        BY <2>3 DEF Write, TypeOK, Invocations
      <4> QED BY <3>0, <4>1, <4>2
    <3>7. /\ \A g \in Paths : g # f => files'[g] = files[g]
          /\ files'[f] = [files[f] EXCEPT ![piece[i]] = i]
      BY <3>1 DEF TypeOK
    <3>2. pc'[i] = "write" \/ (pc'[i] = "done" /\ piece[i] = Pieces)
      BY <2>3 DEF Write, Goto, End, Flushed, TypeOK, Invocations
    <3>3. /\ i \in Writers(f) /\ Writers(f)' \subseteq Writers(f)
          /\ \A g \in Paths : g # f => Writers(g)' = Writers(g) /\ i \notin Writers(g)
          /\ \A j \in Writers(f) : j # i => j \in Writers(f)'
          /\ pc'[i] = "write" => i \in Writers(f)'
      <4>1. \A j \in Inits : j # i => pc'[j] = pc[j]
        BY <1>1, InitIsLocal DEF Invocations
      <4> QED BY <3>0, <3>1, <4>1 DEF Writers
    <3>4. \A k \in PieceNos : files'[f][k] = IF k = piece[i] THEN i ELSE files[f][k]
      BY <3>1, <3>7 DEF Contents
    <3>5. UnmixedInv'
      <4>1. ASSUME f \notin mixed'
            PROVE  \E w \in Written : /\ Writers(f)' \subseteq {w}
                                      /\ \A k \in PieceNos : files'[f][k] \in {w, Missing}
        <5>1. Writers(f) \subseteq {i} /\ \A k \in PieceNos : files[f][k] \in {i, Missing}
          BY <3>1, <3>3, <4>1 DEF UnmixedInv
        <5> QED BY <3>3, <3>4, <5>1 DEF Written
      <4>2. ASSUME NEW g \in Paths \ mixed, g # f, files'[g] # None
            PROVE  \E w \in Written : /\ Writers(g)' \subseteq {w}
                                      /\ \A k \in PieceNos : files'[g][k] \in {w, Missing}
        BY <3>3, <3>7, <4>2 DEF UnmixedInv
      <4> QED BY <3>1, <4>1, <4>2 DEF UnmixedInv
    <3>6. MissingInv'
      <4>1. ASSUME f \notin interrupted, NEW k \in PieceNos, files'[f][k] = Missing
            PROVE  \E j \in Writers(f)' : piece'[j] <= k
        <5>1. k # piece[i] /\ files[f][k] = Missing
          BY <3>4, <4>1 DEF Written
        <5>2. PICK j \in Writers(f) : piece[j] <= k
          BY <3>1, <4>1, <5>1 DEF MissingInv
        <5>3. CASE j # i
          BY <2>0, <3>3, <5>2, <5>3 DEF Writers
        <5>4. CASE j = i
          <6>1. piece[i] + 1 <= k /\ piece[i] # Pieces
            BY <3>1, <5>1, <5>2, <5>4 DEF PieceNos
          <6> QED BY <3>1, <3>2, <3>3, <6>1
        <5> QED BY <5>3, <5>4
      <4>2. ASSUME NEW g \in Paths \ interrupted, g # f, NEW k \in PieceNos,
                   files'[g] # None, files'[g][k] = Missing
            PROVE  \E j \in Writers(g)' : piece'[j] <= k
        <5>1. PICK j \in Writers(g) : piece[j] <= k
          BY <3>7, <4>2 DEF MissingInv
        <5>2. j # i /\ j \in Writers(g)'
          BY <3>3, <4>2
        <5> QED BY <2>0, <5>1, <5>2 DEF Writers
      <4> QED BY <3>1, <4>1, <4>2 DEF MissingInv
    <3> QED BY <3>5, <3>6
  <2>4. CASE WriteFails(i)
    <3>1. /\ UNCHANGED <<files, piece, path, mixed>>
          /\ interrupted' = interrupted \cup {path[i]}
          /\ pc[i] = "write" /\ pc'[i] = "done"
      BY <2>4 DEF WriteFails, End, TypeOK, Invocations
    <3>2. \A g \in Paths : /\ Writers(g)' \subseteq Writers(g)
                           /\ g # path[i] => Writers(g)' = Writers(g)
      <4>1. \A j \in Inits : j # i => pc'[j] = pc[j]
        BY <1>1, InitIsLocal DEF Invocations
      <4> QED BY <3>1, <4>1 DEF Writers
    <3> QED BY <3>1, <3>2 DEF UnmixedInv, MissingInv
  <2> QED BY <1>1, <2>1, <2>2, <2>3, <2>4 DEF InitStep
<1>2. ASSUME NEW p \in Invocations, Kill(p) PROVE FilesInv'
  <2>1. /\ UNCHANGED <<files, piece, path, mixed>> /\ pc'[p] = "done"
        /\ \A q \in Invocations : q # p => pc'[q] = pc[q]
        /\ interrupted' = IF pc[p] = "write" THEN interrupted \cup {path[p]} ELSE interrupted
    BY <1>2 DEF Kill, End, TypeOK
  <2>2. \A g \in Paths : /\ Writers(g)' \subseteq Writers(g)
                         /\ g \notin interrupted' => Writers(g)' = Writers(g)
    BY <2>1 DEF Writers, Invocations
  <2> QED BY <2>1, <2>2 DEF UnmixedInv, MissingInv
<1>3. ASSUME \/ \E c \in Commands : CommandStep(c)
             \/ \E f \in Unstable : AccessChanges(f)
             \/ UNCHANGED vars
      PROVE  FilesInv'
  <2>1. \A f \in Paths : Writers(f)' = Writers(f) /\ Writers(f) \subseteq Inits
    BY <1>3, WritersElsewhere DEF Writers
  <2> QED BY <1>3, <2>1, WritersElsewhere DEF UnmixedInv, MissingInv
<1> QED BY <1>1, <1>2, <1>3, Steps

LEMMA FilesInvariant == Spec => [](TypeOK /\ PlacesInv /\ FilesInv)
<1>1. Init => FilesInv
  <2> SUFFICES ASSUME Init PROVE FilesInv
    OBVIOUS
  <2>1. \A f \in Paths : Writers(f) = {}
    BY DEF Init, Writers, Invocations
  <2>2. \A f \in Paths : files[f] # None => \E w \in Written : files[f] = Whole(w)
    BY DEF Init, Written
  <2>3. \A w \in Written : w # Missing /\ \A k \in PieceNos : Whole(w)[k] = w
    BY DEF Whole
  <2>4. UnmixedInv
    BY <2>1, <2>2, <2>3 DEF UnmixedInv
  <2>5. MissingInv
    BY <2>2, <2>3 DEF MissingInv
  <2> QED BY <2>4, <2>5 DEF FilesInv
<1> QED BY <1>1, FilesHold, Invariant, PTL DEF Spec

(***************************************************************************)
(* A file misses a piece only while an init writes it, or after one was    *)
(* stopped there: two that both get to the end leave none missing          *)
(* (init.rs 45-57).                                                        *)
(***************************************************************************)
THEOREM OnlyWritersTear == Spec => []TornNeedsWriter
<1>1. FilesInv => TornNeedsWriter
  BY DEF FilesInv, MissingInv, TornNeedsWriter
<1> QED BY <1>1, FilesInvariant, PTL

-------------------------------------------------------------------------------
\* The files an init was stopped in or two were at together.
Damaged == interrupted \cup mixed

\* What an init that says nothing has left in its file, and whoever came after it.
KeptBy(f) ==
  \/ Writers(f) # {} \/ f \in Damaged
  \/ \E j \in Inits : path[j] = f /\ outcome[j] = "ok" /\ files[f] = Whole(j)

SavedInv ==
  \A f \in Paths : (\E i \in Inits : path[i] = f /\ outcome[i] = "ok") => KeptBy(f)

LEMMA SavedHolds ==
  ASSUME TypeOK, PlacesInv, FilesInv, SavedInv, [Next]_vars
  PROVE  SavedInv'
<1> USE DEF history, Damaged
<1>0. SUFFICES ASSUME NEW f \in Paths, NEW i \in Inits, (path[i] = f /\ outcome[i] = "ok")'
               PROVE  KeptBy(f)'
  BY DEF SavedInv
<1>1. ASSUME UNCHANGED files[f], Writers(f)' = Writers(f), f \in Damaged => f \in Damaged',
             \A j \in Inits : outcome[j] = "ok" => path'[j] = path[j] /\ outcome'[j] = "ok",
             path[i] = f, outcome[i] = "ok"
      PROVE  KeptBy(f)'
  <2>1. KeptBy(f)
    BY <1>1 DEF SavedInv
  <2> QED BY <1>1, <2>1 DEF KeptBy
<1>2. ASSUME NEW n \in Inits, InitStep(n) PROVE KeptBy(f)'
  <2>1. /\ outcome[n] = "pending"
        /\ \A j \in Inits : j # n => path'[j] = path[j] /\ outcome'[j] = outcome[j]
    <3>1. pc[n] # "done"
      BY <1>2 DEF InitStep, Ask, CreateFails, Create, Write, WriteFails
    <3> QED BY <1>2, <3>1, InitIsLocal DEF PlacesInv, InitInv, Invocations
  <2>2. CASE Ask(n) \/ CreateFails(n)
    <3>1. /\ UNCHANGED <<files, interrupted, mixed>> /\ pc[n] # "write" /\ pc'[n] # "write"
          /\ outcome'[n] # "ok"
      BY <2>1, <2>2 DEF Ask, CreateFails, Goto, End, TypeOK, Invocations
    <3>2. Writers(f)' = Writers(f)
      BY <1>2, <3>1, WritersAfterInit
    <3> QED BY <1>0, <1>1, <2>1, <3>1, <3>2
  <2>3. CASE path[n] # f /\ (Create(n) \/ Write(n) \/ WriteFails(n))
    <3>1. /\ UNCHANGED <<files[f], path>> /\ (f \in Damaged => f \in Damaged')
      BY <2>3 DEF Create, Write, WriteFails, TypeOK
    <3>2. Writers(f)' = Writers(f)
      BY <1>2, <2>3, <3>1, WritersAfterInit
    <3>3. i # n
      BY <1>0, <2>3, <3>1
    <3> QED BY <1>0, <1>1, <2>1, <3>1, <3>2, <3>3
  <2>4. CASE path[n] = f /\ WriteFails(n)
    BY <2>4 DEF WriteFails, KeptBy
  <2>5. CASE path[n] = f /\ (Create(n) \/ (Write(n) /\ piece[n] # Pieces))
    <3>1. pc'[n] = "write" /\ path'[n] = f
      BY <2>5 DEF Create, Write, Flushed, Goto, TypeOK, Invocations
    <3> QED BY <1>2, <3>1, WritersAfterInit DEF KeptBy
  <2>6. CASE path[n] = f /\ Write(n) /\ piece[n] = Pieces
    <3>1. outcome'[n] = "ok" /\ path'[n] = f /\ Damaged' = Damaged
      BY <2>6 DEF Write, Flushed, End, TypeOK, Invocations
    <3>2. f \notin Damaged => files'[f] = Whole(n)
      BY <2>6, WriteCompletes
    <3> QED BY <3>1, <3>2 DEF KeptBy
  <2>7. Ask(n) \/ CreateFails(n) \/ Create(n) \/ Write(n) \/ WriteFails(n)
    BY <1>2 DEF InitStep
  <2>8. CASE path[n] # f
    BY <2>2, <2>3, <2>7, <2>8
  <2>9. CASE path[n] = f
    BY <2>2, <2>4, <2>5, <2>6, <2>7, <2>9
  <2> QED BY <2>8, <2>9
<1>3. ASSUME NEW p \in Invocations, Kill(p) PROVE KeptBy(f)'
  <2>1. /\ UNCHANGED <<files, path>> /\ pc'[p] = "done" /\ outcome'[p] = "killed"
        /\ \A q \in Invocations : q # p => pc'[q] = pc[q] /\ outcome'[q] = outcome[q]
        /\ interrupted' = IF pc[p] = "write" THEN interrupted \cup {path[p]} ELSE interrupted
        /\ mixed' = mixed
        /\ pc[p] # "done"
    BY <1>3 DEF Kill, End, TypeOK
  <2>2. \A j \in Inits : outcome[j] = "ok" => j # p
    BY <2>1 DEF PlacesInv, InitInv
  <2>3. f \notin Damaged' => Writers(f)' = Writers(f)
    BY <2>1 DEF Writers, Invocations
  <2>4. CASE f \in Damaged'
    BY <2>4 DEF KeptBy
  <2>5. i # p /\ outcome[i] = "ok"
    BY <1>0, <2>1 DEF Invocations
  <2> QED BY <1>0, <1>1, <2>1, <2>2, <2>3, <2>4, <2>5 DEF Invocations
<1>4. ASSUME \/ \E c \in Commands : CommandStep(c)
             \/ \E g \in Unstable : AccessChanges(g)
             \/ UNCHANGED vars
      PROVE  KeptBy(f)'
  BY <1>0, <1>1, <1>4, WritersElsewhere
<1> QED BY <1>2, <1>3, <1>4, Steps

(***************************************************************************)
(* An init that ends without a message has saved a whole configuration,    *)
(* or another one is at the file or was interrupted there (init.rs 45-56,  *)
(* main.rs 26-31).                                                         *)
(***************************************************************************)
THEOREM SilenceIsHonest == Spec => []SilenceMeansSaved
<1>1. Init => SavedInv
  BY DEF Init, SavedInv, Invocations
<1>2. PlacesInv /\ SavedInv => SilenceMeansSaved
  BY DEF PlacesInv, InitInv, SavedInv, KeptBy, Damaged, SilenceMeansSaved, Saved
<1> QED BY <1>1, <1>2, SavedHolds, FilesInvariant, PTL DEF Spec

-------------------------------------------------------------------------------
\* Where the search of a command has come to, one that was given no file.
SearchInv(c) ==
  opt[c].config_path = None =>
    /\ nearest[c] \in {"cwd", "home", "unsought", None} /\ (nearest[c] = "home" => home_known)
    /\ path[c] \in {"cwd", "home"} /\ (path[c] = "home" => home_known)
    /\ pc[c] # "open" /\ outcome[c] = "pending" => nearest[c] # "unsought"
    /\ pc[c] = "open" /\ path[c] = "cwd" => nearest[c] = "unsought"
    /\ outcome[c] = "pending" /\ path[c] = "home" => nearest[c] \notin {"cwd", "unsought"}

\* It has come to the nearest file just when that is the one it is at.
FoundInv(c) ==
  /\ opt[c].config_path = None =>
       /\ pc[c] = "read" => (nearest[c] = path[c] <=> Usable(path[c]))
       /\ pc[c] = "parse" =>
            (nearest[c] = path[c] <=> \E w \in Wellformed : config[c] = Whole(w))
  /\ opt[c].config_path # None =>
       /\ path[c] = opt[c].config_path
       /\ pc[c] \in {"read", "parse"} => nearest[c] = path[c]
  /\ pc[c] \in {"create_token", "deliver"} \/ outcome[c] = "ok" => nearest[c] = path[c]
  /\ outcome[c] = "not_found" => nearest[c] = None \/ ~cwd_known

\* What it has loaded: the file it reads stays as it is until it is done with it.
ContentInv(c) ==
  /\ pc[c] = "read" =>
       /\ path[c] \notin mixed
       /\ \A k \in PieceNos : k < piece[c] =>
            config[c][k] = files[path[c]][k] /\ files[path[c]][k] # Missing
  /\ pc[c] = "parse" => \E w \in Written : config[c] = Whole(w)
  /\ pc[c] \in {"create_token", "deliver"} \/ outcome[c] = "ok" =>
       \E w \in Wellformed : \A k \in PieceNos :
         config[c][k] = IF k \in opt[c].replaced THEN Option ELSE w

CommandLoad(c) == SearchInv(c) /\ FoundInv(c) /\ ContentInv(c)

LoadInv == \A c \in Commands \ disturbed : CommandLoad(c)

LEMMA WholeIsOne ==
  ASSUME NEW v, NEW w, Whole(v) = Whole(w)
  PROVE  v = w
<1>1. Whole(v)[1] = v /\ Whole(w)[1] = w
  BY Positions DEF Whole
<1> QED BY <1>1

\* Nothing touches the file an undisturbed command is reading.
LEMMA ReadersKeepFile ==
  ASSUME TypeOK, PlacesInv, [Next]_vars, NEW c \in Commands \ disturbed', pc[c] = "read",
         NEW f \in Paths, path[c] = f, f \notin mixed
  PROVE  files'[f] = files[f] /\ f \notin mixed' /\ Usable(f)' = Usable(f)
<1>1. files'[f] = files[f] /\ f \notin mixed' /\ (f \in unreadable' <=> f \in unreadable)
  <2> USE DEF history, places
  <2>1. ASSUME NEW i \in Inits, InitStep(i)
        PROVE  files'[f] = files[f] /\ f \notin mixed'
    <3>1. CASE Ask(i) \/ CreateFails(i) \/ WriteFails(i)
      BY <3>1 DEF Ask, CreateFails, WriteFails
    <3>2. CASE Create(i) \/ Write(i)
      <4>1. path[i] # f
        BY <3>2 DEF Create, Write, Readers
      <4> QED BY <3>2, <4>1 DEF Create, Write, TypeOK
    <3> QED BY <2>1, <3>1, <3>2 DEF InitStep
  <2>2. ASSUME NEW i \in Inits, InitStep(i) PROVE unreadable' = unreadable
    BY <2>2, InitIsLocal
  <2>3. ASSUME NEW d \in Commands, CommandStep(d)
        PROVE  UNCHANGED <<files, mixed, unreadable>>
    BY <2>3, CommandIsLocal
  <2>4. ASSUME NEW g \in Unstable, AccessChanges(g)
        PROVE  /\ UNCHANGED <<files, mixed>>
               /\ f \in unreadable' <=> f \in unreadable
    <3>1. g # f
      BY <2>4 DEF AccessChanges, Readers
    <3> QED BY <2>4, <3>1 DEF AccessChanges
  <2> QED BY <2>1, <2>2, <2>3, <2>4, Steps DEF Kill, vars
<1> QED BY <1>1 DEF Usable

LEMMA LoadHoldsForOthers ==
  ASSUME TypeOK, PlacesInv, [Next]_vars, NEW c \in Commands \ disturbed', CommandLoad(c),
         pc'[c] = pc[c], path'[c] = path[c], piece'[c] = piece[c], outcome'[c] = outcome[c],
         opt' = opt, config'[c] = config[c], nearest'[c] = nearest[c],
         cwd_known' = cwd_known, home_known' = home_known
  PROVE  CommandLoad(c)'
<1>1. PICK f \in Paths : f = path[c]
  BY DEF PlacesInv, CommandInv
<1>2. SearchInv(c) /\ FoundInv(c) /\ ContentInv(c)
  BY DEF CommandLoad
<1>3. SearchInv(c)'
  BY <1>2 DEF SearchInv
<1>4. ASSUME pc[c] = "read"
      PROVE  files'[f] = files[f] /\ f \notin mixed' /\ Usable(f)' = Usable(f)
  BY <1>1, <1>2, <1>4, ReadersKeepFile DEF ContentInv
<1>5. ContentInv(c)'
  BY <1>1, <1>2, <1>4 DEF ContentInv, Whole
<1>6. Usable(path[c])' = Usable(f)'
  BY <1>1 DEF Usable
<1>7. (\E w \in Wellformed : config[c] = Whole(w))' = (\E w \in Wellformed : config[c] = Whole(w))
  BY DEF Whole
<1>8. FoundInv(c)'
  BY <1>1, <1>2, <1>4, <1>6, <1>7 DEF FoundInv
<1> QED BY <1>3, <1>5, <1>8 DEF CommandLoad

\* A file is opened: whether it is the nearest is known now.
LEMMA LoadOpens ==
  ASSUME TypeOK, PlacesInv, NEW c \in Commands \ disturbed', CommandLoad(c), Open(c)
  PROVE  CommandLoad(c)'
<1>1. /\ c \in Invocations /\ opt[c] \in Opts /\ path[c] \in Paths /\ outcome[c] = "pending"
      /\ SearchInv(c) /\ FoundInv(c)
  BY DEF CommandLoad, PlacesInv, CommandInv, TypeOK, Invocations, Open
<1>2. /\ pc[c] = "open" /\ pc'[c] = "read" /\ outcome' = outcome /\ path' = path /\ opt' = opt
      /\ piece'[c] = 1 /\ nearest'[c] = Nearest(c) /\ mixed' = mixed /\ ~Lost(c)
      /\ UNCHANGED <<files, unreadable, cwd_known, home_known>>
      /\ path[c] \notin mixed
  BY <1>1 DEF Open, Goto, TypeOK, places
<1>3. Usable(path[c])' = Usable(path[c])
  BY <1>2 DEF Usable
<1>4. \A k \in PieceNos : ~(k < piece'[c])
  BY <1>2 DEF PieceNos
<1>5. ContentInv(c)'
  BY <1>1, <1>2, <1>4 DEF ContentInv
<1>6. CASE opt[c].config_path = None
  <2>1. Nearest(c) = IF nearest[c] = "cwd" \/ (nearest[c] = "unsought" /\ Usable("cwd")) THEN "cwd"
                     ELSE IF home_known /\ Usable("home") THEN "home" ELSE None
    BY <1>6 DEF Nearest
  <2>2. None \notin Paths \cup {"unsought"}
    BY DEF CliAssumption
  <2>3. nearest'[c] = path[c] <=> Usable(path[c])
    BY <1>1, <1>2, <1>6, <2>1, <2>2 DEF SearchInv, Paths
  <2>4. SearchInv(c)'
    BY <1>1, <1>2, <1>6, <2>1, <2>2 DEF SearchInv, Paths
  <2>5. FoundInv(c)'
    BY <1>1, <1>2, <1>3, <1>6, <2>3 DEF FoundInv
  <2> QED BY <1>5, <2>4, <2>5 DEF CommandLoad
<1>7. CASE opt[c].config_path # None
  BY <1>1, <1>2, <1>5, <1>7 DEF CommandLoad, SearchInv, FoundInv, Nearest
<1> QED BY <1>6, <1>7

\* A file cannot be loaded: it was not usable, so it is not the nearest.
LEMMA LoadGoesOn ==
  ASSUME TypeOK, PlacesInv, NEW c \in Commands \ disturbed', CommandLoad(c), LoadFails(c)
  PROVE  CommandLoad(c)'
<1>1. /\ c \in Invocations /\ opt[c] \in Opts /\ path[c] \in Paths /\ outcome[c] = "pending"
      /\ SearchInv(c) /\ FoundInv(c) /\ ContentInv(c)
      /\ pc[c] = "read" => piece[c] \in PieceNos
  BY DEF CommandLoad, PlacesInv, CommandInv, TypeOK, Invocations, LoadFails
<1>2. /\ pc[c] \in {"open", "read", "parse"} /\ opt' = opt
      /\ UNCHANGED <<cwd_known, home_known>>
      /\ nearest'[c] = IF pc[c] = "open" THEN Nearest(c) ELSE nearest[c]
  BY <1>1 DEF LoadFails, TypeOK, places
<1>3. None \notin Paths \cup {"unsought"}
  BY DEF CliAssumption
<1>4. pc[c] = "open" => Lost(c) \/ ~Usable(path[c])
  <2>1. \A w \in Wellformed : Whole(w) # None
    BY WholeTypes DEF Wellformed
  <2> QED BY <2>1 DEF LoadFails, Usable
<1>5. pc[c] = "read" => ~Usable(path[c])
  <2>1. \A w \in Wellformed : Whole(w)[piece[c]] # Missing \/ pc[c] # "read"
    BY <1>1 DEF Whole, Wellformed
  <2> QED BY <2>1 DEF LoadFails, Usable
<1>6. pc[c] = "parse" => ~\E w \in Wellformed : config[c] = Whole(w)
  BY DEF LoadFails
<1>7. CASE opt[c].config_path # None
  <2>1. pc'[c] = "done" /\ outcome'[c] = "reported" /\ path' = path
    BY <1>1, <1>7 DEF LoadFails, FallsBack, End, TypeOK
  <2> QED BY <1>1, <1>2, <1>7, <2>1 DEF CommandLoad, SearchInv, FoundInv, ContentInv
<1>8. CASE opt[c].config_path = None
  <2>1. Nearest(c) = IF nearest[c] = "cwd" \/ (nearest[c] = "unsought" /\ Usable("cwd")) THEN "cwd"
                     ELSE IF home_known /\ Usable("home") THEN "home" ELSE None
    BY <1>8 DEF Nearest
  <2>2. /\ nearest'[c] \in {"cwd", "home", None}
        /\ nearest'[c] = "home" => home_known
        /\ nearest'[c] # path[c] \/ ~cwd_known
    <3>1. CASE pc[c] \in {"read", "parse"}
      BY <1>1, <1>2, <1>5, <1>6, <1>8, <3>1 DEF SearchInv, FoundInv
    <3>2. CASE pc[c] = "open" /\ path[c] = "cwd"
      BY <1>1, <1>2, <1>3, <1>4, <1>8, <2>1, <3>2 DEF SearchInv, Lost, Paths
    <3>3. CASE pc[c] = "open" /\ path[c] = "home"
      BY <1>1, <1>2, <1>3, <1>4, <1>8, <2>1, <3>3 DEF SearchInv, Lost, Paths
    <3> QED BY <1>1, <1>2, <1>8, <3>1, <3>2, <3>3 DEF SearchInv
  <2>3. path[c] = "home" => nearest'[c] # "cwd"
    BY <1>1, <1>2, <1>3, <1>8, <2>1 DEF SearchInv, Paths
  <2>4. CASE FallsBack(c)
    <3>1. /\ pc'[c] = "open" /\ outcome' = outcome /\ path'[c] = "home"
          /\ path[c] = "cwd" /\ cwd_known /\ home_known
      BY <1>1, <2>4 DEF LoadFails, FallsBack, Goto, TypeOK
    <3> QED
      BY <1>1, <1>2, <1>8, <2>2, <3>1 DEF CommandLoad, SearchInv, FoundInv, ContentInv
  <2>5. CASE ~FallsBack(c)
    <3>1. pc'[c] = "done" /\ outcome'[c] = "not_found" /\ path' = path
      BY <1>1, <1>8, <2>5 DEF LoadFails, End, TypeOK
    <3>2. nearest'[c] = None \/ ~cwd_known
      BY <1>1, <1>8, <2>2, <2>3, <2>5 DEF SearchInv, FallsBack
    <3> QED
      BY <1>1, <1>2, <1>8, <2>2, <3>1, <3>2 DEF CommandLoad, SearchInv, FoundInv, ContentInv
  <2> QED BY <2>4, <2>5
<1> QED BY <1>7, <1>8

\* A piece is read: after the last one, what was read is the file.
LEMMA LoadReads ==
  ASSUME TypeOK, TypeOK', PlacesInv, FilesInv, [Next]_vars,
         NEW c \in Commands \ disturbed', CommandLoad(c), Read(c)
  PROVE  CommandLoad(c)'
<1>1. /\ c \in Invocations /\ opt[c] \in Opts /\ outcome[c] = "pending"
      /\ SearchInv(c) /\ FoundInv(c) /\ ContentInv(c)
      /\ pc[c] = "read" /\ piece[c] \in PieceNos
  BY DEF CommandLoad, PlacesInv, CommandInv, TypeOK, Invocations, Read
<1>2. PICK f \in Paths : f = path[c]
  BY DEF PlacesInv, CommandInv
<1>3. /\ pc'[c] = (IF piece[c] < Pieces THEN "read" ELSE "parse")
      /\ piece'[c] = piece[c] + 1 /\ outcome' = outcome
      /\ UNCHANGED <<files, unreadable, cwd_known, home_known, path, opt, nearest, mixed>>
      /\ files[f][piece[c]] # Missing /\ f \notin unreadable
      /\ \A k \in PieceNos : config'[c][k] =
           IF k = piece[c] THEN files[f][piece[c]] ELSE config[c][k]
  BY <1>1, <1>2 DEF Read, Goto, TypeOK, history, places
<1>4. \A k \in PieceNos : k < piece[c] + 1 =>
        config'[c][k] = files[f][k] /\ files[f][k] # Missing
  <2>1. \A k \in PieceNos : k < piece[c] + 1 => k < piece[c] \/ k = piece[c]
    BY <1>1 DEF PieceNos
  <2> QED BY <1>1, <1>2, <1>3, <2>1 DEF ContentInv
<1>5. f \notin mixed /\ files[f] # None
  BY <1>1, <1>2 DEF ContentInv, PlacesInv, CommandInv
<1>6. SearchInv(c)'
  BY <1>1, <1>3 DEF SearchInv
<1>7. Usable(path[c])' = Usable(path[c])
  BY <1>3 DEF Usable
<1>8. CASE piece[c] < Pieces
  <2>1. pc'[c] = "read"
    BY <1>3, <1>8
  <2>2. FoundInv(c)'
    BY <1>1, <1>3, <1>7, <2>1 DEF FoundInv
  <2>3. ContentInv(c)'
    BY <1>1, <1>2, <1>3, <1>4, <1>5, <2>1 DEF ContentInv
  <2> QED BY <1>6, <2>2, <2>3 DEF CommandLoad
<1>9. CASE ~(piece[c] < Pieces)
  <2>1. pc'[c] = "parse"
    BY <1>3, <1>9
  <2>2. PICK w \in Written : \A k \in PieceNos : files[f][k] \in {w, Missing}
    BY <1>5 DEF FilesInv, UnmixedInv
  <2>3. \A k \in PieceNos : k < piece[c] + 1
    BY <1>1, <1>9 DEF PieceNos
  <2>4. \A k \in PieceNos : config'[c][k] = w /\ files[f][k] = w
    BY <1>4, <2>2, <2>3
  <2>5. config'[c] = Whole(w) /\ files[f] = Whole(w)
    <3>1. /\ config'[c] \in [PieceNos -> Written \cup {Missing, Option}]
          /\ files[f] \in Contents
      BY <1>5 DEF TypeOK
    <3> QED BY <2>4, <3>1 DEF Whole, Contents
  <2>6. Usable(f) <=> \E v \in Wellformed : config'[c] = Whole(v)
    BY <1>3, <2>5 DEF Usable
  <2>7. (\E v \in Wellformed : config[c] = Whole(v))' <=> \E v \in Wellformed : config'[c] = Whole(v)
    BY DEF Whole
  <2>8. FoundInv(c)'
    BY <1>1, <1>2, <1>3, <2>1, <2>6, <2>7 DEF FoundInv
  <2>9. ContentInv(c)'
    BY <1>1, <1>3, <2>1, <2>5 DEF ContentInv, Whole
  <2> QED BY <1>6, <2>8, <2>9 DEF CommandLoad
<1> QED BY <1>8, <1>9

\* What was loaded parses only if it is the nearest.
LEMMA LoadParses ==
  ASSUME TypeOK, PlacesInv, NEW c \in Commands \ disturbed', CommandLoad(c), Override(c)
  PROVE  CommandLoad(c)'
<1>1. /\ c \in Invocations /\ outcome[c] = "pending" /\ pc[c] = "parse"
      /\ SearchInv(c) /\ FoundInv(c) /\ ContentInv(c)
      /\ UNCHANGED <<path, opt, nearest, cwd_known, home_known>>
  BY DEF CommandLoad, PlacesInv, CommandInv, Invocations, Override, history, places
<1>2. CASE config' = [config EXCEPT ![c] = Overridden(c)] /\ Goto(c, "create_token")
  <2>1. pc'[c] = "create_token" /\ outcome' = outcome /\ config'[c] = Overridden(c)
    BY <1>1, <1>2 DEF Goto, TypeOK
  <2>2. PICK w \in Written : config[c] = Whole(w)
    BY <1>1 DEF ContentInv
  <2>3. w \in Wellformed
    BY <2>2 DEF Override, Wellformed
  <2>4. \A k \in PieceNos : config'[c][k] = IF k \in opt[c].replaced THEN Option ELSE w
    BY <2>1, <2>2 DEF Overridden, Whole
  <2>5. nearest[c] = path[c]
    BY <1>1, <2>2, <2>3 DEF FoundInv
  <2> QED
    BY <1>1, <2>1, <2>3, <2>4, <2>5 DEF CommandLoad, SearchInv, FoundInv, ContentInv
<1>3. CASE End(c, "panic")
  BY <1>1, <1>3 DEF End, TypeOK, CommandLoad, SearchInv, FoundInv, ContentInv
<1> QED BY <1>2, <1>3 DEF Override

LEMMA LoadHolds ==
  ASSUME TypeOK, PlacesInv, FilesInv, LoadInv, [Next]_vars, TypeOK'
  PROVE  LoadInv'
<1> USE DEF history, places
<1>0. SUFFICES ASSUME NEW c \in Commands \ disturbed' PROVE CommandLoad(c)'
  BY DEF LoadInv
<1>1. c \notin disturbed /\ c \in Invocations
  BY CommandIsLocal, Steps DEF InitStep, Ask, CreateFails, Create, Write, WriteFails, Kill,
     AccessChanges, vars, Invocations
<1>2. CommandLoad(c) /\ CommandInv(c)
  BY <1>1 DEF LoadInv, PlacesInv
<1>3. ASSUME NEW i \in Inits, InitStep(i) PROVE CommandLoad(c)'
  BY <1>1, <1>2, <1>3, InitIsLocal, LoadHoldsForOthers DEF Invocations
<1>4. ASSUME NEW p \in Invocations, Kill(p) PROVE CommandLoad(c)'
  <2>1. CASE p = c
    BY <1>1, <1>2, <1>4, <2>1
       DEF Kill, End, CommandLoad, SearchInv, FoundInv, ContentInv, TypeOK
  <2>2. CASE p # c
    BY <1>1, <1>2, <1>4, <2>2, LoadHoldsForOthers DEF Kill, End, TypeOK
  <2> QED BY <2>1, <2>2
<1>5. ASSUME (\E f \in Unstable : AccessChanges(f)) \/ UNCHANGED vars PROVE CommandLoad(c)'
  BY <1>1, <1>2, <1>5, LoadHoldsForOthers DEF AccessChanges, vars
<1>6. ASSUME NEW d \in Commands, CommandStep(d), d # c PROVE CommandLoad(c)'
  BY <1>1, <1>2, <1>6, CommandIsLocal, LoadHoldsForOthers
<1>7. CASE create_token(c) \/ Deliver(c)
  <2>1. /\ pc[c] \in {"create_token", "deliver"} /\ outcome[c] = "pending"
        /\ UNCHANGED <<path, opt, nearest, config, cwd_known, home_known>>
        /\ \/ pc'[c] = "deliver" /\ outcome'[c] = "pending"
           \/ pc'[c] = "done" /\ outcome'[c] \in {"ok", "panic"}
    BY <1>1, <1>2, <1>7 DEF create_token, Deliver, Goto, End, TypeOK, CommandInv
  <2> QED BY <1>2, <2>1 DEF CommandLoad, SearchInv, FoundInv, ContentInv
<1>8. CASE CommandStep(c)
  BY <1>2, <1>7, <1>8, LoadOpens, LoadGoesOn, LoadReads, LoadParses DEF CommandStep
<1> QED BY <1>3, <1>4, <1>5, <1>6, <1>8, Steps

LEMMA LoadInvariant == Spec => [](TypeOK /\ PlacesInv /\ LoadInv)
<1>1. Init => LoadInv
  <2> SUFFICES ASSUME Init, NEW c \in Commands PROVE CommandLoad(c)
    BY DEF LoadInv
  <2>1. /\ c \in Invocations /\ c \notin Inits /\ pc[c] = "open" /\ outcome[c] = "pending"
        /\ nearest[c] = "unsought" /\ path[c] = First(opt[c])
    BY DEF Init, Invocations
  <2> QED BY <2>1 DEF CommandLoad, SearchInv, FoundInv, ContentInv, First
<1> QED BY <1>1, LoadHolds, FilesInvariant, PTL DEF Spec

(***************************************************************************)
(* A command whose file did not change under it works with the file it was *)
(* given or the first that could be loaded, with the pieces of one init:   *)
(* what is torn, unreadable or malformed is passed over (config.rs 36-77). *)
(***************************************************************************)
THEOREM NearestIsUsed == Spec => []UsesNearestConfig
<1>1. LoadInv => UsesNearestConfig
  BY DEF LoadInv, CommandLoad, FoundInv, ContentInv, UsesNearestConfig
<1> QED BY <1>1, LoadInvariant, PTL

(***************************************************************************)
(* It is told that there is no configuration only if neither default file  *)
(* could be loaded when it looked, or the working directory is not known   *)
(* (config.rs 74-77, main.rs 42-52).                                       *)
(***************************************************************************)
THEOREM NotFoundIsTrue == Spec => []NotFoundIsHonest
<1>1. LoadInv => NotFoundIsHonest
  BY DEF LoadInv, CommandLoad, FoundInv, NotFoundIsHonest
<1> QED BY <1>1, LoadInvariant, PTL
===================================================================================
