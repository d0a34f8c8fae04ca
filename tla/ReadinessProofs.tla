-------------------------- MODULE ReadinessProofs --------------------------
(***************************************************************************)
(* What holds of Readiness for any directories, PATHs and endpoints.       *)
(***************************************************************************)
EXTENDS Readiness, TLAPS

(* An answer of /readyz, and how a launch went, are those of the files as  *)
(* they are now: whoever changes one makes both void.                      *)
Fresh ==
  /\ missing # <<>> => missing = <<{executable \in Distinct : ~Resolves(executable)}>>
  /\ launched # <<>> =>
       \E i \in 1..NumEndpoints :
         launched = [endpoint |-> i, started |-> Starts(endpoints[i])]

LEMMA StartsBoolean == \A command : Starts(command) \in BOOLEAN
  BY DEF Starts

(* Every variable keeps its type, and an answer stays true until it is     *)
(* void.                                                                   *)
THEOREM TypeCorrect == Spec => []TypeOK
<1>1. Init => TypeOK
  BY DEF Init, TypeOK, Optional
<1>2. TypeOK /\ [Next]_vars => TypeOK'
  <2> SUFFICES ASSUME TypeOK, [Next]_vars PROVE TypeOK'
    OBVIOUS
  <2>1. CASE Readyz
    BY <2>1 DEF Readyz, TypeOK, Distinct, Optional
  <2>2. ASSUME NEW i \in 1..NumEndpoints, Launch(i) PROVE TypeOK'
    BY <2>2, StartsBoolean DEF Launch, TypeOK, Distinct, Optional
  <2>3. ASSUME NEW d \in Dirs, Change(d) PROVE TypeOK'
    BY <2>3 DEF Change, TypeOK, Distinct, Optional
  <2>4. CASE UNCHANGED vars
    BY <2>4 DEF vars, TypeOK, Distinct
  <2>5. QED
    BY <2>1, <2>2, <2>3, <2>4 DEF Next
<1>3. QED
  BY <1>1, <1>2, PTL DEF Spec

THEOREM AnswersAreFresh == Spec => []Fresh
<1>1. Init => Fresh
  BY DEF Init, Fresh
<1>2. Fresh /\ [Next]_vars => Fresh'
  <2> SUFFICES ASSUME Fresh, [Next]_vars PROVE Fresh'
    OBVIOUS
  <2>1. ASSUME UNCHANGED <<endpoints, files>>
        PROVE  /\ Distinct' = Distinct
               /\ \A executable : Resolves(executable)' = Resolves(executable)
               /\ \A command : Starts(command)' = Starts(command)
    BY <2>1 DEF Distinct, Resolves, Which, Executable, Starts
  <2>2. CASE Readyz
    BY <2>1, <2>2 DEF Readyz, Fresh
  <2>3. ASSUME NEW i \in 1..NumEndpoints, Launch(i) PROVE Fresh'
    BY <2>1, <2>3 DEF Launch, Fresh
  <2>4. ASSUME NEW d \in Dirs, Change(d) PROVE Fresh'
    BY <2>4 DEF Change, Fresh
  <2>5. CASE UNCHANGED vars
    BY <2>1, <2>5 DEF vars, Fresh
  <2>6. QED
    BY <2>2, <2>3, <2>4, <2>5 DEF Next
<1>3. QED
  BY <1>1, <1>2, PTL DEF Spec

-----------------------------------------------------------------------------
(* What the probe and the child find.                                      *)

LEMMA CommandsTyped ==
  ASSUME TypeOK, NEW i \in 1..NumEndpoints
  PROVE  /\ endpoints[i].executable \in Distinct
         /\ \/ endpoints[i].executable \in {<<"bare">>, <<"relative">>}
            \/ \E d \in Dirs : endpoints[i].executable = <<"absolute", d>>
         /\ OrElse(endpoints[i].cwd, ServerDir) \in Dirs
         /\ OrElse(endpoints[i].path, ServerPath) \in Seq(Dirs)
  BY ReadinessAssumption DEF TypeOK, Distinct, Commands, Executables, Optional, OrElse

(* The probe asks for an execute bit in one of its places.                 *)
LEMMA ProbeIs ==
  ASSUME TypeOK, NEW i \in 1..NumEndpoints
  PROVE  Resolves(endpoints[i].executable) <=>
           \E d \in Probed(endpoints[i]) : Executable(d)
<1> DEFINE command == endpoints[i]
<1>1. \A k \in 1..Len(ServerPath) : ServerPath[k] \in Dirs
  BY ReadinessAssumption
<1>2. CASE command.executable = <<"bare">>
  BY <1>1, <1>2 DEF Resolves, Which, Probed, Places
<1>3. CASE command.executable = <<"relative">>
  BY <1>3, ReadinessAssumption DEF Resolves, Probed, Places
<1>4. ASSUME NEW e \in Dirs, command.executable = <<"absolute", e>>
      PROVE  Resolves(command.executable) <=> \E d \in Probed(command) : Executable(d)
  <2>1. Probed(command) = {e}
    BY <1>4 DEF Probed, Places
  <2>2. QED
    BY <1>4, <2>1 DEF Resolves
<1>5. QED
  BY <1>2, <1>3, <1>4, CommandsTyped

(* The child takes what can be run in one of its places.                   *)
LEMMA ChildIs ==
  ASSUME TypeOK, NEW i \in 1..NumEndpoints
  PROVE  Starts(endpoints[i]) <=>
           /\ files[OrElse(endpoints[i].cwd, ServerDir)] # "no directory"
           /\ \E d \in Sought(endpoints[i]) : files[d] = "runnable"
<1> DEFINE command == endpoints[i]
           path == OrElse(command.path, ServerPath)
<1>1. \A k \in 1..Len(path) : path[k] \in Dirs
  BY CommandsTyped
<1>2. CASE command.executable = <<"bare">>
  <2>1. Sought(command) = {d \in Dirs : \E k \in 1..Len(path) : path[k] = d}
    BY <1>2 DEF Sought, Places
  <2>2. Starts(command) <=>
          /\ files[OrElse(command.cwd, ServerDir)] # "no directory"
          /\ \E k \in 1..Len(path) : files[path[k]] = "runnable"
    BY <1>2 DEF Starts
  <2> HIDE DEF path
  <2>3. QED
    BY <1>1, <2>1, <2>2
<1>3. CASE command.executable = <<"relative">>
  <2> DEFINE cwd == OrElse(command.cwd, ServerDir)
  <2>1. Starts(command) <=> files[cwd] # "no directory" /\ files[cwd] = "runnable"
    <3>1. command.executable[1] = "relative"
      BY <1>3
    <3>2. QED
      BY <3>1 DEF Starts
  <2>2. Sought(command) = {cwd}
    BY <1>3, CommandsTyped DEF Sought, Places
  <2> HIDE DEF cwd
  <2>3. QED
    BY <2>1, <2>2 DEF cwd
<1>4. ASSUME NEW e \in Dirs, command.executable = <<"absolute", e>>
      PROVE  Starts(command) <=>
               /\ files[OrElse(command.cwd, ServerDir)] # "no directory"
               /\ \E d \in Sought(command) : files[d] = "runnable"
  <2>1. Sought(command) = {e}
    BY <1>4 DEF Sought, Places
  <2>2. QED
    BY <1>4, <2>1 DEF Starts
<1>5. QED
  BY <1>2, <1>3, <1>4, CommandsTyped

(* Probe and child agree, as far as the one looks where the other does, but*)
(* for a broken file or a cwd that is not there.                           *)
LEMMA SharedView ==
  ASSUME TypeOK, NEW i \in 1..NumEndpoints
  PROVE  LET command == endpoints[i]
         IN  /\ Starts(command) =>
                  \/ Resolves(command.executable)
                  \/ ~(Sought(command) \subseteq Probed(command))
             /\ Resolves(command.executable) /\ ~Starts(command) =>
                  \/ ~(Probed(command) \subseteq Sought(command))
                  \/ files[OrElse(command.cwd, ServerDir)] = "no directory"
                  \/ \E d \in Probed(command) : files[d] = "broken"
  BY ProbeIs, ChildIs DEF Executable

(* After a ready answer a command fails to start only for the three        *)
(* reasons that the probe cannot see.                                      *)
THEOREM ReadyIsTrue == Spec => []ReadyMeansLaunches
<1>1. TypeOK /\ Fresh => ReadyMeansLaunches
  <2> SUFFICES ASSUME TypeOK, Fresh, missing = <<{}>>, launched # <<>>, ~launched.started
               PROVE  LET command == endpoints[launched.endpoint]
                      IN  \/ ~(Probed(command) \subseteq Sought(command))
                          \/ files[OrElse(command.cwd, ServerDir)] = "no directory"
                          \/ \E d \in Probed(command) : files[d] = "broken"
    BY DEF ReadyMeansLaunches
  <2>1. PICK i \in 1..NumEndpoints : launched = [endpoint |-> i, started |-> Starts(endpoints[i])]
    BY DEF Fresh
  <2>2. \A executable \in Distinct : Resolves(executable)
    <3>1. <<{executable \in Distinct : ~Resolves(executable)}>> = <<{}>>
      BY DEF Fresh
    <3>2. {executable \in Distinct : ~Resolves(executable)} = {}
      BY <3>1
    <3>3. QED
      BY <3>2
  <2>3. QED
    BY <2>1, <2>2, CommandsTyped, SharedView
<1>2. QED
  BY <1>1, TypeCorrect, AnswersAreFresh, PTL

(* A command that starts is not listed as missing, unless its child looks  *)
(* where the probe did not.                                                *)
THEOREM MissingIsTrue == Spec => []MissingMeansFails
<1>1. TypeOK /\ Fresh => MissingMeansFails
  <2> SUFFICES ASSUME TypeOK, Fresh, missing # <<>>, launched # <<>>, launched.started
               PROVE  LET command == endpoints[launched.endpoint]
                      IN  \/ command.executable \notin missing[1]
                          \/ ~(Sought(command) \subseteq Probed(command))
    BY DEF MissingMeansFails
  <2>1. PICK i \in 1..NumEndpoints : launched = [endpoint |-> i, started |-> Starts(endpoints[i])]
    BY DEF Fresh
  <2>2. \A executable \in missing[1] : ~Resolves(executable)
    BY DEF Fresh
  <2>3. QED
    BY <2>1, <2>2, SharedView
<1>2. QED
  BY <1>1, TypeCorrect, AnswersAreFresh, PTL
=============================================================================
