----------------------------------- MODULE Cli -----------------------------------
(***************************************************************************)
(* Invocations of the `asap` command line that share configuration files:  *)
(* `init` asks for a configuration and writes it, `token` and `curl` load  *)
(* one and make a token with it.  Nothing locks a file.  serde_json writes *)
(* to and reads from a bare File, a little at a time, so that each         *)
(* invocation goes through a file piece by piece; one may be killed        *)
(* between two pieces, and a write may fail.  A file may be there and not  *)
(* open, not be readable, or not parse.                                    *)
(***************************************************************************)
EXTENDS Naturals

CONSTANTS
  Inits, Commands,   \* invocations of init, and of token or curl
  Pieces,            \* the number of pieces a configuration is written in
  Earlier,           \* an invocation of init from before
  Malformed,         \* what wrote a file that does not parse, by hand or an init
                     \* interrupted before
  Options,           \* bound on the options of a command
  Unstable,          \* bound on the files whose access may change
  Option,            \* what an option of the command line says of a piece
  Missing,           \* a piece that was not written, or truncated
  None

Invocations == Inits \cup Commands
Paths       == {"cwd", "home", "other"}
PieceNos    == 1 .. Pieces

\* A configuration piece by piece, each named after the init that wrote it.
Written    == Inits \cup {Earlier, Malformed}
Wellformed == Written \ {Malformed}
Contents   == [PieceNos -> Written \cup {Missing}]
Whole(w)   == [k \in PieceNos |-> w]

\* Opt: --config, and the pieces that other options replace.
Opts == [config_path : Paths \cup {None}, replaced : SUBSET PieceNos]

ASSUME CliAssumption ==
  /\ Pieces \in Nat \ {0}
  /\ Inits \cap Commands = {} /\ Malformed \notin Inits \cup {Earlier}
  /\ Options \subseteq Opts /\ Unstable \subseteq Paths
  /\ Missing \notin Written \cup {Option}
  /\ None \notin Paths \cup {"unsought"} \cup Contents

VARIABLES
  files,       \* files[path]: its contents, None if there is no file
  unreadable,  \* paths that cannot be opened or read: permissions, a directory,
               \* a failing disk
  cwd_known,   \* env::current_dir() works
  home_known,  \* ProjectDirs finds a config directory: default_config_path()
  pc,          \* pc[p]: what invocation p does next
  path,        \* path[p]: the file it works on
  piece,       \* piece[p]: the number of the piece it is at
  outcome,     \* outcome[p]: how it ended
  opt,         \* opt[c]: the options of command c
  config,      \* config[c]: the configuration it has loaded so far
  nearest,     \* history: the file it should use, given what it could have read
               \* when it looked, None if there was none
  interrupted, \* history: the files an init stopped in before it was done
  mixed,       \* history: the files two inits were at together
  disturbed    \* history: the commands whose file changed while they read it, or
               \* was a mixture

places  == <<unreadable, cwd_known, home_known>>
history == <<nearest, interrupted, mixed, disturbed>>
vars    == <<files, places, pc, path, piece, outcome, opt, config, history>>

\* The first file that from_opt tries.
First(o) == IF o.config_path # None THEN o.config_path ELSE "cwd"

Init ==
  /\ files \in [Paths -> {None, Whole(Earlier), Whole(Malformed)}]
  /\ unreadable \in SUBSET Unstable
  /\ cwd_known \in BOOLEAN /\ home_known \in BOOLEAN
  /\ opt \in [Commands -> Options]
  /\ pc = [p \in Invocations |-> IF p \in Inits THEN "ask" ELSE "open"]
  /\ path = [p \in Invocations |-> IF p \in Inits THEN None ELSE First(opt[p])]
  /\ piece = [p \in Invocations |-> 1]
  /\ outcome = [p \in Invocations |-> "pending"]
  /\ config = [c \in Commands |-> Whole(Missing)]
  /\ nearest = [c \in Commands |-> "unsought"]
  /\ interrupted = {} /\ mixed = {} /\ disturbed = {}

Goto(p, label) == pc' = [pc EXCEPT ![p] = label] /\ UNCHANGED outcome
End(p, how)    == pc' = [pc EXCEPT ![p] = "done"] /\ outcome' = [outcome EXCEPT ![p] = how]

Writers(f) == { i \in Inits : pc[i] = "write" /\ path[i] = f }
Readers(f) == { c \in Commands : pc[c] = "read" /\ path[c] = f }

-------------------------------------------------------------------------------
\* The prompts; a PEM file or JSON that does not parse panics.  Mutant: the file
\* is created as soon as its path is known, before the rest is parsed.
AskAndCreate(i) ==
  /\ pc[i] = "ask"
  /\ \E f \in Paths : /\ path' = [path EXCEPT ![i] = f]
                      /\ files' = [files EXCEPT ![f] = Whole(Missing)]
  /\ Goto(i, "create") \/ End(i, "panic")
  /\ UNCHANGED <<places, piece, opt, config, history>>

Ask(i) ==
  /\ pc[i] = "ask"
  /\ \/ End(i, "panic") /\ UNCHANGED path
     \/ Goto(i, "create") /\ \E f \in Paths : path' = [path EXCEPT ![i] = f]
  /\ UNCHANGED <<files, places, piece, opt, config, history>>

\* No parent directory, or create_dir_all or File::create fails.
CreateFails(i) ==
  /\ pc[i] = "create"
  /\ End(i, "reported")
  /\ UNCHANGED <<files, places, path, piece, opt, config, history>>

\* File::create truncates.
Create(i) ==
  /\ pc[i] = "create"
  /\ files' = [files EXCEPT ![path[i]] = Whole(Missing)]
  /\ interrupted' = interrupted \ {path[i]}
  /\ mixed' = IF Writers(path[i]) = {} THEN mixed \ {path[i]} ELSE mixed \cup {path[i]}
  /\ disturbed' = disturbed \cup Readers(path[i])
  /\ Goto(i, "write")
  /\ UNCHANGED <<places, path, piece, opt, config, nearest>>

\* Mutant: the writer goes on after the last piece.
FlushedLate(i) == piece[i] > Pieces
Flushed(i)     == piece[i] = Pieces

\* to_writer, at the offset of this File.
Write(i) ==
  /\ pc[i] = "write"
  /\ files' = [files EXCEPT ![path[i]][piece[i]] = i]
  /\ disturbed' = disturbed \cup Readers(path[i])
  /\ piece' = [piece EXCEPT ![i] = @ + 1]
  /\ IF Flushed(i) THEN End(i, "ok") ELSE Goto(i, "write")
  /\ UNCHANGED <<places, path, opt, config, nearest, interrupted, mixed>>

\* check_result prints the error.  Mutant: it is not noticed.
WriteFailsUnnoticed(i) ==
  /\ pc[i] = "write"
  /\ End(i, "ok")
  /\ UNCHANGED <<files, places, path, piece, opt, config, history>>

WriteFails(i) ==
  /\ pc[i] = "write"
  /\ End(i, "reported")
  /\ interrupted' = interrupted \cup {path[i]}
  /\ UNCHANGED <<files, places, path, piece, opt, config, nearest, mixed, disturbed>>

-------------------------------------------------------------------------------
\* The file a command should use: the one it was given, or the first of the two
\* that can be loaded at the moment it looks for it.
Usable(f) == f \notin unreadable /\ \E w \in Wellformed : files[f] = Whole(w)

Nearest(c) ==
  IF opt[c].config_path # None THEN opt[c].config_path
  ELSE IF nearest[c] = "cwd" \/ (nearest[c] = "unsought" /\ Usable("cwd")) THEN "cwd"
  ELSE IF home_known /\ Usable("home") THEN "home"
  ELSE None

\* The search in the working directory begins with current_dir().
Lost(c) == path[c] = "cwd" /\ opt[c].config_path = None /\ ~cwd_known

\* File::open; a directory, say, opens and cannot be read.
Open(c) ==
  /\ pc[c] = "open" /\ ~Lost(c) /\ files[path[c]] # None
  /\ Goto(c, "read")
  /\ piece' = [piece EXCEPT ![c] = 1]
  /\ nearest' = [nearest EXCEPT ![c] = Nearest(c)]
  /\ disturbed' = IF path[c] \in mixed THEN disturbed \cup {c} ELSE disturbed
  /\ UNCHANGED <<files, places, path, opt, config, interrupted, mixed>>

\* Any error of from_file sends from_dirs on to the default file; one of
\* current_dir does not.  Mutants: a custom file falls back too; nothing does.
FallsBackAnyway(c) == path[c] # "home" /\ home_known
FallsBackNever(c)  == FALSE
FallsBack(c) ==
  opt[c].config_path = None /\ path[c] = "cwd" /\ cwd_known /\ home_known

\* The errors of from_file and of current_dir.  "No ASAP configuration found" is
\* said of the search, an error with its path of a file that was given.
LoadFails(c) ==
  /\ \/ pc[c] = "open" /\ (Lost(c) \/ files[path[c]] = None \/ path[c] \in unreadable)
     \/ pc[c] = "read" /\ (files[path[c]][piece[c]] = Missing \/ path[c] \in unreadable)
     \/ pc[c] = "parse" /\ \A w \in Wellformed : config[c] # Whole(w)
  /\ IF FallsBack(c)
       THEN Goto(c, "open") /\ path' = [path EXCEPT ![c] = "home"]
       ELSE /\ End(c, IF opt[c].config_path = None THEN "not_found" ELSE "reported")
            /\ UNCHANGED path
  /\ nearest' = IF pc[c] = "open" THEN [nearest EXCEPT ![c] = Nearest(c)] ELSE nearest
  /\ UNCHANGED <<files, places, piece, opt, config, interrupted, mixed, disturbed>>

Read(c) ==
  /\ pc[c] = "read" /\ files[path[c]][piece[c]] # Missing /\ path[c] \notin unreadable
  /\ config' = [config EXCEPT ![c][piece[c]] = files[path[c]][piece[c]]]
  /\ piece' = [piece EXCEPT ![c] = @ + 1]
  /\ Goto(c, IF piece[c] < Pieces THEN "read" ELSE "parse")
  /\ UNCHANGED <<files, places, path, opt, history>>

Overridden(c) == [k \in PieceNos |-> IF k \in opt[c].replaced THEN Option ELSE config[c][k]]

\* Pieces of different configurations may happen to parse together.  An option
\* that does not parse panics.
Override(c) ==
  /\ pc[c] = "parse" /\ config[c] # Whole(Malformed)
  /\ \/ config' = [config EXCEPT ![c] = Overridden(c)] /\ Goto(c, "create_token")
     \/ opt[c].replaced # {} /\ End(c, "panic") /\ UNCHANGED config
  /\ UNCHANGED <<files, places, path, piece, opt, history>>

\* A Generator signs the token, or panics over the key.
create_token(c) ==
  /\ pc[c] = "create_token"
  /\ Goto(c, "deliver") \/ End(c, "panic")
  /\ UNCHANGED <<files, places, path, piece, opt, config, history>>

\* The token is printed, or handed to curl, which may be missing.  What becomes
\* of curl then is not looked at.
Deliver(c) ==
  /\ pc[c] = "deliver"
  /\ End(c, "ok") \/ End(c, "panic")
  /\ UNCHANGED <<files, places, path, piece, opt, config, history>>

-------------------------------------------------------------------------------
Kill(p) ==
  /\ pc[p] # "done"
  /\ End(p, "killed")
  /\ interrupted' = IF pc[p] = "write" THEN interrupted \cup {path[p]} ELSE interrupted
  /\ UNCHANGED <<files, places, path, piece, opt, config, nearest, mixed, disturbed>>

\* What the program does not do: permissions, a directory in the way, a disk.
AccessChanges(f) ==
  /\ unreadable' = IF f \in unreadable THEN unreadable \ {f} ELSE unreadable \cup {f}
  /\ disturbed' = disturbed \cup Readers(f)
  /\ UNCHANGED <<files, cwd_known, home_known, pc, path, piece, outcome, opt, config>>
  /\ UNCHANGED <<nearest, interrupted, mixed>>

Next ==
  \/ \E i \in Inits : Ask(i) \/ CreateFails(i) \/ Create(i) \/ Write(i) \/ WriteFails(i)
  \/ \E c \in Commands : Open(c) \/ LoadFails(c) \/ Read(c)
                        \/ Override(c) \/ create_token(c) \/ Deliver(c)
  \/ \E p \in Invocations : Kill(p)
  \/ \E f \in Unstable : AccessChanges(f)

Spec == Init /\ [][Next]_vars

-------------------------------------------------------------------------------
TypeOK ==
  /\ files \in [Paths -> Contents \cup {None}]
  /\ unreadable \subseteq Paths /\ cwd_known \in BOOLEAN /\ home_known \in BOOLEAN
  /\ pc \in [Invocations ->
       {"ask", "create", "write", "open", "read", "parse", "create_token", "deliver", "done"}]
  /\ path \in [Invocations -> Paths \cup {None}]
  /\ piece \in [Invocations -> 1 .. (Pieces + 1)]
  /\ outcome \in [Invocations ->
       {"pending", "ok", "reported", "not_found", "panic", "killed"}]
  /\ opt \in [Commands -> Opts]
  /\ config \in [Commands -> [PieceNos -> Written \cup {Missing, Option}]]
  /\ nearest \in [Commands -> Paths \cup {"unsought", None}]
  /\ interrupted \subseteq Paths /\ mixed \subseteq Paths /\ disturbed \subseteq Commands

(***************************************************************************)
(* The search order of config.rs 36-77: unless its file changed while it   *)
(* read it, or was a mixture of two inits, a command works with the file   *)
(* it was given, or with the first of the default two that could be loaded *)
(* when it looked, and apart from its options every piece of its           *)
(* configuration was written by one and the same init.  A file that an     *)
(* init is at, was killed in, that cannot be read or does not parse is     *)
(* never used, and never hides one that could be: the comment of from_dirs *)
(* (72-73) has the second directory searched "if not found" in the first,  *)
(* where the code goes on after any error of the file that is there.       *)
(***************************************************************************)
UsesNearestConfig ==
  \A c \in Commands \ disturbed : pc[c] \in {"create_token", "deliver"} \/ outcome[c] = "ok" =>
    /\ path[c] = nearest[c]
    /\ \E w \in Wellformed : \A k \in PieceNos :
         config[c][k] = IF k \in opt[c].replaced THEN Option ELSE w

(***************************************************************************)
(* "No ASAP configuration found" (main.rs 46) is said only when neither of *)
(* the default files could be loaded, each at the moment it was looked     *)
(* for, or when the working directory itself cannot be told (config.rs     *)
(* 75): no whole configuration is passed over.                             *)
(***************************************************************************)
NotFoundIsHonest ==
  \A c \in Commands \ disturbed :
    outcome[c] = "not_found" => nearest[c] = None \/ ~cwd_known

(***************************************************************************)
(* A configuration that was there is lost only to an init that got as far  *)
(* as writing: no answer that fails to parse, and no failure to create the *)
(* directory, costs a piece of it, and neither do two inits that both get  *)
(* to the end (init.rs 13-57).                                             *)
(***************************************************************************)
TornNeedsWriter ==
  \A f \in Paths : files[f] # None /\ (\E k \in PieceNos : files[f][k] = Missing)
    => Writers(f) # {} \/ f \in interrupted

(***************************************************************************)
(* An init that ended without a message has saved its configuration: its   *)
(* file holds, whole, what it or another such init wrote, unless one is at *)
(* it now, stopped in it, or met another there (init.rs 45-56, main.rs     *)
(* 26-31).                                                                 *)
(***************************************************************************)
Saved(i) == outcome[i] = "ok" /\ files[path[i]] = Whole(i)

SilenceMeansSaved ==
  \A i \in Inits : outcome[i] = "ok" =>
    \/ Writers(path[i]) # {} \/ path[i] \in interrupted \cup mixed
    \/ \E j \in Inits : path[j] = path[i] /\ Saved(j)
===============================================================================
