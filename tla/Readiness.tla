----------------------------- MODULE Readiness -----------------------------
(***************************************************************************)
(* /readyz: missing_executables (config.py) against the launches it is to  *)
(* predict (executor.py).  The probe looks with the server's PATH and      *)
(* working directory; the child looks with its endpoint's.                 *)
(*                                                                         *)
(* One command name is modelled: what is found under one name says nothing *)
(* about another.                                                          *)
(***************************************************************************)
EXTENDS Naturals, Sequences

CONSTANTS Dirs,         \* the directories that matter
          ServerDir,    \* the server's working directory
          ServerPath,   \* PATH in the server's environment
          Absolutes,    \* where an absolute `executable` may point
          OwnDirs,      \* what an endpoint's cwd can be
          OwnPaths,     \* what PATH in an endpoint's env can be
          NumEndpoints

ASSUME ReadinessAssumption ==
  /\ ServerDir \in Dirs /\ Absolutes \subseteq Dirs /\ OwnDirs \subseteq Dirs
  /\ ServerPath \in Seq(Dirs) /\ OwnPaths \subseteq Seq(Dirs)
  /\ NumEndpoints \in Nat

VARIABLES endpoints,  \* the commands of the configuration
          files,      \* what each directory has under the command's name
          missing,    \* <<names>>: the last answer of /readyz, until a change
          launched    \* the last launch, until a change

vars == <<endpoints, files, missing, launched>>

-----------------------------------------------------------------------------
(* An optional field is <<>>, or a sequence of one.                        *)
Optional(S) == {<<>>} \cup {<<x>> : x \in S}

OrElse(field, default) == IF field = <<>> THEN default ELSE field[1]

(* A bare name, a path from the working directory, or an absolute path.    *)
Executables == {<<"bare">>, <<"relative">>} \cup {<<"absolute", d>> : d \in Absolutes}

Commands == [executable : Executables, cwd : Optional(OwnDirs), path : Optional(OwnPaths)]

(* What a directory has under the name; a broken file has the execute bit  *)
(* and names an interpreter that is not there.                             *)
Kinds == {"no directory", "absent", "plain", "folder", "broken", "runnable"}

Systems == {system \in [Dirs -> Kinds] : system[ServerDir] # "no directory"}

Init ==
  /\ endpoints \in [1..NumEndpoints -> Commands]
  /\ files \in Systems
  /\ missing = <<>>
  /\ launched = <<>>

-----------------------------------------------------------------------------
(* A file with the execute bit, as os.path.isfile and os.access see it.    *)
Executable(d) == files[d] \in {"broken", "runnable"}

(* Mutation: the first entry that has the name decides.                    *)
Which_first(path) ==
  \E i \in 1..Len(path) :
    /\ Executable(path[i])
    /\ \A j \in 1..(i - 1) : files[path[j]] \in {"no directory", "absent"}

(* shutil.which: the first entry of the PATH with a runnable file.         *)
Which(path) == \E i \in 1..Len(path) : Executable(path[i])

(* Mutation: a path-like value only has to exist.                          *)
Resolves_exists(executable) ==
  \/ executable[1] = "bare" /\ Which(ServerPath)
  \/ executable[1] = "relative" /\ files[ServerDir] \notin {"no directory", "absent"}
  \/ executable[1] = "absolute" /\ files[executable[2]] \notin {"no directory", "absent"}

Resolves(executable) ==
  \/ executable[1] = "bare" /\ Which(ServerPath)
  \/ executable[1] = "relative" /\ Executable(ServerDir)
  \/ executable[1] = "absolute" /\ Executable(executable[2])

(* The names configured, each probed once.                                 *)
Distinct == {endpoints[i].executable : i \in 1..NumEndpoints}

(* Mutation: names that no endpoint uses are probed as well.               *)
Readyz_all ==
  /\ missing' = <<{executable \in Executables : ~Resolves(executable)}>>
  /\ UNCHANGED <<endpoints, files, launched>>

Readyz ==
  /\ missing' = <<{executable \in Distinct : ~Resolves(executable)}>>
  /\ UNCHANGED <<endpoints, files, launched>>

-----------------------------------------------------------------------------
(* The child: chdir, then execvp in its own environment, which goes on to  *)
(* the next entry of the PATH at anything it cannot execute.               *)
Starts(command) ==
  LET cwd  == OrElse(command.cwd, ServerDir)
      path == OrElse(command.path, ServerPath)
  IN  /\ files[cwd] # "no directory"
      /\ \/ command.executable[1] = "bare" /\ \E i \in 1..Len(path) : files[path[i]] = "runnable"
         \/ command.executable[1] = "relative" /\ files[cwd] = "runnable"
         \/ command.executable[1] = "absolute" /\ files[command.executable[2]] = "runnable"

Launch(i) ==
  /\ launched' = [endpoint |-> i, started |-> Starts(endpoints[i])]
  /\ UNCHANGED <<endpoints, files, missing>>

(* Somebody installs or removes something: older answers say nothing now.  *)
Change(d) ==
  /\ \E kind \in Kinds : files' = [files EXCEPT ![d] = kind]
  /\ files' \in Systems
  /\ missing' = <<>>
  /\ launched' = <<>>
  /\ UNCHANGED endpoints

Next ==
  \/ Readyz
  \/ \E i \in 1..NumEndpoints : Launch(i)
  \/ \E d \in Dirs : Change(d)

Spec == Init /\ [][Next]_vars

-----------------------------------------------------------------------------
(* Properties.                                                             *)

(* The types of the variables.                                             *)
TypeOK ==
  /\ endpoints \in [1..NumEndpoints -> Commands]
  /\ files \in Systems
  /\ missing \in Optional(SUBSET Distinct)
  /\ launched = <<>> \/ launched \in [endpoint : 1..NumEndpoints, started : BOOLEAN]

(* Where a name is looked for, with a PATH and from a directory: where the *)
(* probe has looked for a command, and where its child does.               *)
Places(executable, path, dir) ==
  {d \in Dirs : \/ executable[1] = "bare" /\ \E i \in 1..Len(path) : path[i] = d
                \/ executable[1] = "relative" /\ d = dir
                \/ executable = <<"absolute", d>>}

Probed(command) == Places(command.executable, ServerPath, ServerDir)

Sought(command) ==
  Places(command.executable, OrElse(command.path, ServerPath), OrElse(command.cwd, ServerDir))

(* A ready server can start every command: a launch after a ready answer   *)
(* fails only where the child, by the endpoint's own PATH or cwd, does not *)
(* look wherever the probe did, its cwd does not exist, or a file that the *)
(* probe may have taken for the command is broken.                         *)
ReadyMeansLaunches ==
  missing = <<{}>> /\ launched # <<>> /\ ~launched.started =>
    LET command == endpoints[launched.endpoint]
    IN  \/ ~(Probed(command) \subseteq Sought(command))
        \/ files[OrElse(command.cwd, ServerDir)] = "no directory"
        \/ \E d \in Probed(command) : files[d] = "broken"

(* No working command keeps the server out of rotation: one that /readyz   *)
(* has listed starts only if its child looks where the probe did not.      *)
MissingMeansFails ==
  missing # <<>> /\ launched # <<>> /\ launched.started =>
    LET command == endpoints[launched.endpoint]
    IN  \/ command.executable \notin missing[1]
        \/ ~(Sought(command) \subseteq Probed(command))
=============================================================================
