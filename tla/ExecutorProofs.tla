--------------------------- MODULE ExecutorProofs ---------------------------
(***************************************************************************)
(* What holds of Executor for any number of requests, uploads, names and   *)
(* outputs.                                                                *)
(***************************************************************************)
EXTENDS Executor, TLAPS

-----------------------------------------------------------------------------
(* Two paths are equal only if they are of one kind and for one owner.     *)
LEMMA PathsDistinct ==
  /\ \A r, f, s, g : TokenPath(r, f) = TokenPath(s, g) => r = s /\ f = g
  /\ \A r, o, s, p : OutputPath(r, o) = OutputPath(s, p) => r = s /\ o = p
  /\ \A r, f, n : TokenPath(r, f) # NamePath(n)
  /\ \A r, f, s, o : TokenPath(r, f) # OutputPath(s, o)
  /\ \A n, r, o : NamePath(n) # OutputPath(r, o)
  /\ \A r, f : NoPath # TokenPath(r, f)
  /\ \A n : NoPath # NamePath(n)
  /\ \A r, o : NoPath # OutputPath(r, o)
<1>1. \A a, b, c : <<a, b, c>> # <<>>
  OBVIOUS
<1>2. QED
  BY <1>1 DEF TokenPath, NamePath, OutputPath, NoPath

LEMMA OutputFileFields ==
  /\ \A file \in OutputFiles :
       \E o \in Outputs : file.path = OutputPath(file.by, o) /\ file.by \in Requests
  /\ \A file \in UploadFiles :
       file.path \in UploadPaths /\ file.by \in Requests
  BY DEF OutputFiles, UploadFiles, File

LEMMA UploadPathTyped ==
  ASSUME NEW r \in Requests, NEW given \in SUBSET Fields, NEW naming \in Namings
  PROVE  /\ PathsOf(r, given, naming) \in [Fields -> UploadPaths \cup {NoPath}]
         /\ \A f \in given : PathsOf(r, given, naming)[f] \in UploadPaths
  BY DEF PathsOf, UploadPath, UploadPaths, Namings

LEMMA WrittenTyped ==
  ASSUME NEW r \in Requests, NEW given \in SUBSET Fields, NEW paths,
         \A f \in given : paths[f] \in UploadPaths
  PROVE  /\ Written(r, given, paths) \subseteq UploadFiles
         /\ \A file \in Written(r, given, paths) :
              file.by = r /\ \E f \in given : file.path = paths[f]
<1>1. SUFFICES ASSUME NEW f \in given
               PROVE  /\ File(paths[f], r, f, "whole") \in UploadFiles
                      /\ File(paths[f], r, f, "whole").path = paths[f]
                      /\ File(paths[f], r, f, "whole").by = r
  BY DEF Written
<1>2. f \in Fields
  OBVIOUS
<1>3. QED
  BY <1>2 DEF UploadFiles, File

LEMMA OutcomeNames ==
  Outcomes = {"ok", "rejected", "outputs_failed", "prep_failed", "not_launched",
              "failed", "unparsed", "parser_crash", "timed_out", "kill_missed", "unlink_failed",
              "cancelled"}
  BY DEF Outcomes, StatusOf

LEMMA AnswerTyped ==
  ASSUME TypeOK, NEW r \in Requests, NEW outcome \in Outcomes, Answer(r, outcome)
  PROVE  phase' \in [Requests -> {"idle", "lost"} \cup InFlight \cup Outcomes]
  BY DEF TypeOK, Answer

LEMMA FinallyTyped ==
  ASSUME TypeOK, NEW r \in Requests, NEW lost, Finally(r, lost)
  PROVE  /\ open' \in [Requests -> SUBSET Fields]
         /\ disk' \subseteq UploadFiles \cup OutputFiles
  BY DEF TypeOK, Finally, Unlinked

Removed(k, paths, left) ==
  {file.path : file \in left} \cup {FirstPaths(k, paths)[f] : f \in Fields}

(* What an abandoned request leaves of the files: of its own, only `left`. *)
LEMMA AbandonFiles ==
  ASSUME NEW r \in Requests, NEW k \in Nat, NEW left \in SUBSET UploadFiles,
         NEW given \in SUBSET Fields, NEW naming \in Namings,
         Abandon(r, k, given, PathsOf(r, given, naming), left)
  PROVE  /\ upload_paths' =
              [upload_paths EXCEPT ![r] = FirstPaths(k, PathsOf(r, given, naming))]
         /\ open' = [open EXCEPT ![r] = {}]
         /\ UNCHANGED <<proc, helper>>
         /\ disk' \subseteq disk \cup left
         /\ \A file \in disk :
              file.path \notin Removed(k, PathsOf(r, given, naming), left) => file \in disk'
<1> DEFINE paths == PathsOf(r, given, naming)
           known == {FirstPaths(k, paths)[f] : f \in Fields}
           done  == {f \in given : f <= k}
<1>1. \A file \in Written(r, done, paths) : file.path \in known
  <2> SUFFICES ASSUME NEW file \in Written(r, done, paths)
               PROVE  file.path \in known
    OBVIOUS
  <2>1. done \in SUBSET Fields /\ \A f \in done : paths[f] \in UploadPaths
    BY UploadPathTyped
  <2>2. PICK f \in done : file.path = paths[f]
    BY <2>1, WrittenTyped
  <2>3. f \in Fields /\ FirstPaths(k, paths)[f] = paths[f]
    BY DEF FirstPaths
  <2>4. QED
    BY <2>2, <2>3
<1>2. /\ upload_paths' = [upload_paths EXCEPT ![r] = FirstPaths(k, paths)]
      /\ open' = [open EXCEPT ![r] = {}]
      /\ UNCHANGED <<proc, helper>>
      /\ disk' = Unlinked(Put(Put(disk, Written(r, done, paths)), left), known)
  BY DEF Abandon
<1> HIDE DEF paths, known, done
<1>3. disk' \subseteq disk \cup left
  BY <1>1, <1>2 DEF Put, Unlinked
<1>4. \A file \in disk : file.path \notin {f.path : f \in left} \cup known => file \in disk'
  BY <1>1, <1>2 DEF Put, Unlinked
<1>5. QED
  BY <1>2, <1>3, <1>4 DEF paths, known, Removed

LEMMA PutFiles ==
  ASSUME NEW files, NEW new, NEW paths, \A file \in new : file.path \in paths
  PROVE  /\ Put(files, new) \subseteq files \cup new
         /\ new \subseteq Put(files, new)
         /\ \A file \in files : file.path \notin paths => file \in Put(files, new)
  BY DEF Put, Unlinked

LEMMA AbandonTyped ==
  ASSUME TypeOK, NEW r \in Requests, NEW k \in Nat, NEW left \in SUBSET UploadFiles,
         NEW given \in SUBSET Fields, NEW naming \in Namings,
         Abandon(r, k, given, PathsOf(r, given, naming), left)
  PROVE  /\ upload_paths' \in [Requests -> [Fields -> UploadPaths \cup {NoPath}]]
         /\ open' \in [Requests -> SUBSET Fields]
         /\ disk' \subseteq UploadFiles \cup OutputFiles
         /\ UNCHANGED <<proc, helper>>
<1> DEFINE paths == PathsOf(r, given, naming)
           known == FirstPaths(k, paths)
<1>1. known \in [Fields -> UploadPaths \cup {NoPath}]
  BY UploadPathTyped DEF FirstPaths
<1>2. upload_paths' = [upload_paths EXCEPT ![r] = known]
  BY AbandonFiles
<1>3. open' = [open EXCEPT ![r] = {}]
  BY AbandonFiles
<1>4. disk' \subseteq disk \cup left
  BY AbandonFiles
<1>5. UNCHANGED <<proc, helper>>
  BY AbandonFiles
<1>6. QED
  BY <1>1, <1>2, <1>3, <1>4, <1>5 DEF TypeOK

(* However the preparation breaks, it is an Abandon that leaves a torn copy *)
(* at most.                                                                *)
LEMMA BreaksAbandon ==
  ASSUME NEW r \in Requests, BeginBreaks(r)
  PROVE  \E given \in SUBSET Fields, naming \in Namings, k \in Nat, left \in SUBSET UploadFiles :
           /\ \A file \in left :
                /\ file.copy = "torn" /\ file.by = r
                /\ \E f \in Fields : file.path = PathsOf(r, given, naming)[f]
           /\ Abandon(r, k, given, PathsOf(r, given, naming), left)
<1>1. PICK given \in SUBSET Fields, naming \in Namings, k \in 0..NumUploads :
        /\ k = NumUploads \/ k + 1 \in given
        /\ \E left \in {{}, Torn(r, k + 1, PathsOf(r, given, naming))} :
             Abandon(r, k, given, PathsOf(r, given, naming), left)
  BY DEF BeginBreaks
<1> DEFINE paths == PathsOf(r, given, naming)
<1>2. PICK left \in {{}, Torn(r, k + 1, paths)} : Abandon(r, k, given, paths, left)
  BY <1>1
<1>3. k \in Nat
  BY ExecutorAssumption
<1>4. \A g \in {k + 1} \cap Fields : paths[g] \in UploadPaths
  <2> SUFFICES ASSUME NEW g \in {k + 1} \cap Fields PROVE paths[g] \in UploadPaths
    OBVIOUS
  <2>1. g = k + 1 /\ k # NumUploads
    BY <1>3, ExecutorAssumption DEF Fields
  <2>2. g \in given
    BY <1>1, <2>1, Zenon
  <2>3. QED
    BY <2>2, UploadPathTyped, Zenon
<1>5. \A file \in left :
        \E g \in {k + 1} \cap Fields : file = File(paths[g], r, g, "torn")
  BY DEF Torn
<1> HIDE DEF paths
<1>6. \A file \in left :
        /\ file \in UploadFiles /\ file.copy = "torn" /\ file.by = r
        /\ \E f \in Fields : file.path = paths[f]
  BY <1>4, <1>5 DEF UploadFiles, File
<1>7. left \in SUBSET UploadFiles
  BY <1>6
<1>8. QED
  BY <1>2, <1>3, <1>6, <1>7 DEF paths

(* What a command's write leaves of the disk.                              *)
LEMMA CommandFiles ==
  ASSUME NEW r \in Requests, NEW o \in Outputs, CommandWrites(r, o)
  PROVE  /\ disk' \subseteq disk \cup {file \in OutputFiles : file.by = r}
         /\ \A file \in disk : file.path # OutputPath(r, o) => file \in disk'
         /\ \E file \in disk' : file.path = OutputPath(r, o)
<1> PICK copy \in {"whole", "folder"} :
      disk' = Put(disk, {File(OutputPath(r, o), r, o, copy)})
  BY DEF CommandWrites
<1>1. File(OutputPath(r, o), r, o, copy) \in OutputFiles
  BY DEF OutputFiles
<1>2. /\ File(OutputPath(r, o), r, o, copy).by = r
      /\ File(OutputPath(r, o), r, o, copy).path = OutputPath(r, o)
  BY DEF File
<1>3. QED
  BY <1>1, <1>2 DEF Put, Unlinked

(* Every variable keeps its type.                                          *)
THEOREM TypeCorrect == Spec => []TypeOK
<1>1. Init => TypeOK
  BY DEF Init, TypeOK
<1>2. TypeOK /\ [Next]_vars => TypeOK'
  <2> SUFFICES ASSUME TypeOK, [Next]_vars PROVE TypeOK'
    OBVIOUS
  <2> USE OutcomeNames
  <2>1. ASSUME NEW r \in Requests, BeginOutputsFail(r) PROVE TypeOK'
    BY <2>1, AnswerTyped DEF BeginOutputsFail, TypeOK
  <2>2. ASSUME NEW r \in Requests, BeginRejected(r) PROVE TypeOK'
    <3>1. PICK given \in SUBSET Fields, naming \in Namings, k \in 0..NumUploads :
            Abandon(r, k, given, PathsOf(r, given, naming), {})
      BY <2>2 DEF BeginRejected
    <3>2. k \in Nat
      BY ExecutorAssumption
    <3>3. QED
      BY <2>2, <3>1, <3>2, AbandonTyped, AnswerTyped DEF BeginRejected, TypeOK
  <2>3. ASSUME NEW r \in Requests, BeginBreaks(r) PROVE TypeOK'
    <3>1. PICK given \in SUBSET Fields, naming \in Namings, k \in Nat,
               left \in SUBSET UploadFiles :
            Abandon(r, k, given, PathsOf(r, given, naming), left)
      BY <2>3, BreaksAbandon
    <3>2. QED
      BY <2>3, <3>1, AbandonTyped, AnswerTyped DEF BeginBreaks, TypeOK
  <2>4. ASSUME NEW r \in Requests, Begin(r) PROVE TypeOK'
    <3>1. PICK given \in SUBSET Fields, naming \in Namings :
            LET paths == PathsOf(r, given, naming)
            IN  /\ upload_paths' = [upload_paths EXCEPT ![r] = paths]
                /\ disk' = Put(disk, Written(r, given, paths))
                /\ open' = [open EXCEPT ![r] = given]
      BY <2>4 DEF Begin
    <3>2. disk' \subseteq UploadFiles \cup OutputFiles
      <4>1. Written(r, given, PathsOf(r, given, naming)) \subseteq UploadFiles
        BY WrittenTyped, UploadPathTyped
      <4>2. QED
        BY <3>1, <4>1 DEF Put, Unlinked, TypeOK
    <3>3. phase' = [phase EXCEPT ![r] = "launch"] /\ UNCHANGED <<proc, helper>>
      BY <2>4 DEF Begin, Answer
    <3>4. QED
      BY <3>1, <3>2, <3>3, UploadPathTyped DEF TypeOK, InFlight
  <2>5. ASSUME NEW r \in Requests, Launch(r) PROVE TypeOK'
    BY <2>5 DEF Launch, TypeOK, InFlight
  <2>6. ASSUME NEW r \in Requests, LaunchFails(r) PROVE TypeOK'
    BY <2>6, FinallyTyped, AnswerTyped DEF LaunchFails, TypeOK
  <2>7. ASSUME NEW r \in Requests, NEW o \in Outputs, CommandWrites(r, o) PROVE TypeOK'
    BY <2>7, CommandFiles DEF CommandWrites, TypeOK
  <2>8. ASSUME NEW r \in Requests, CommandForks(r) PROVE TypeOK'
    BY <2>8 DEF CommandForks, TypeOK
  <2>9. ASSUME NEW r \in Requests, CommandExits(r) PROVE TypeOK'
    BY <2>9 DEF CommandExits, TypeOK
  <2>10. ASSUME NEW r \in Requests, HelperExits(r) PROVE TypeOK'
    BY <2>10 DEF HelperExits, TypeOK
  <2>11. ASSUME NEW r \in Requests, RunFails(r) PROVE TypeOK'
    BY <2>11, FinallyTyped, AnswerTyped DEF RunFails, TypeOK
  <2>12. ASSUME NEW r \in Requests, ParseFails(r) PROVE TypeOK'
    BY <2>12, FinallyTyped, AnswerTyped DEF ParseFails, TypeOK
  <2>13. ASSUME NEW r \in Requests, ParseCrashes(r) PROVE TypeOK'
    BY <2>13, FinallyTyped, AnswerTyped DEF ParseCrashes, TypeOK
  <2>14. ASSUME NEW r \in Requests, RunSucceeds(r) PROVE TypeOK'
    BY <2>14, FinallyTyped, AnswerTyped DEF RunSucceeds, TypeOK
  <2>15. ASSUME NEW r \in Requests, TimeoutKills(r) PROVE TypeOK'
    BY <2>15 DEF TimeoutKills, TypeOK, InFlight
  <2>16. ASSUME NEW r \in Requests, TimeoutKillMisses(r) PROVE TypeOK'
    BY <2>16, FinallyTyped, AnswerTyped DEF TimeoutKillMisses, TypeOK
  <2>17. ASSUME NEW r \in Requests, Reap(r) PROVE TypeOK'
    BY <2>17, FinallyTyped, AnswerTyped DEF Reap, TypeOK
  <2>18. ASSUME NEW r \in Requests, Cancel(r) PROVE TypeOK'
    BY <2>18, FinallyTyped, AnswerTyped DEF Cancel, TypeOK
  <2>22. ASSUME NEW r \in Requests, RemovalFails(r) PROVE TypeOK'
    BY <2>22, FinallyTyped, AnswerTyped DEF RemovalFails, TypeOK
  <2>19. CASE Crash
    BY <2>19 DEF Crash, TypeOK, InFlight
  <2>20. CASE UNCHANGED vars
    BY <2>20 DEF vars, TypeOK
  <2>21. QED
    BY <2>1, <2>2, <2>3, <2>4, <2>5, <2>6, <2>7, <2>8, <2>9, <2>10, <2>11, <2>12, <2>13,
       <2>14, <2>15, <2>16, <2>17, <2>18, <2>19, <2>20, <2>22
       DEF Next, Arrive, Handle, Command, Quiescent
<1>3. QED
  BY <1>1, <1>2, PTL DEF Spec
-----------------------------------------------------------------------------
(* The files under uploads/.                                               *)

NamePaths == {NamePath(n) : n \in Names}

(* An upload is recorded under its own token, or under some name.          *)
PathsOwned ==
  \A r \in Requests, f \in Fields :
    /\ upload_paths[r][f] \in {NoPath, TokenPath(r, f)} \cup NamePaths
    /\ f \notin Templated => upload_paths[r][f] \in {NoPath, TokenPath(r, f)}

(* A complete upload is one that its request, in flight or lost in a       *)
(* crash, has recorded.                                                    *)
Owning == InFlight \cup {"lost"}

UploadsRecorded ==
  \A file \in disk : file \in UploadFiles /\ file.copy = "whole" =>
    /\ phase[file.by] \in Owning
    /\ file.path \in UploadPathsOf(file.by)

FileInv == PathsOwned /\ UploadsRecorded /\ InputsIntact

LEMMA PathsOfOwned ==
  ASSUME NEW r \in Requests, NEW given \in SUBSET Fields, NEW naming \in Namings,
         NEW f \in Fields
  PROVE  /\ PathsOf(r, given, naming)[f] \in {NoPath, TokenPath(r, f)} \cup NamePaths
         /\ f \notin Templated => PathsOf(r, given, naming)[f] \in {NoPath, TokenPath(r, f)}
         /\ f \in given /\ f \in Templated => PathsOf(r, given, naming)[f] \in NamePaths
         /\ f \in given /\ f \notin Templated => PathsOf(r, given, naming)[f] = TokenPath(r, f)
         /\ f \notin given => PathsOf(r, given, naming)[f] = NoPath
  BY DEF PathsOf, UploadPath, NamePaths, Namings

LEMMA KindsDisjoint == \A file \in OutputFiles : file \notin UploadFiles
  BY PathsDistinct DEF OutputFiles, UploadFiles, UploadPaths, File

LEMMA UploadsNotOutputs ==
  \A file \in UploadFiles : \A r, o : file.path # OutputPath(r, o)
  BY PathsDistinct DEF UploadFiles, UploadPaths

LEMMA RemovedFirstTyped ==
  ASSUME NEW r PROVE RemovedFirst(r) \in SUBSET OutputPathsOf(r)
  BY DEF RemovedFirst, OutputPathsOf

(* A set of paths that are one request's tokens, names or outputs.         *)
Touches(r, paths) ==
  \A p \in paths : \/ p \in NamePaths \cup {NoPath}
                   \/ \E f \in Fields : p = TokenPath(r, f)
                   \/ \E o \in Outputs : p = OutputPath(r, o)

LEMMA TokensUntouched ==
  ASSUME NEW r \in Requests, NEW paths, Touches(r, paths),
         NEW s \in Requests, s # r, NEW f \in Fields
  PROVE  TokenPath(s, f) \notin paths
  BY PathsDistinct DEF Touches, NamePaths

(* A request's steps leave the inputs of the others alone as long as they  *)
(* only remove what Touches allows.                                        *)
LEMMA OthersIntact ==
  ASSUME FileInv, NEW r \in Requests, NEW paths, Touches(r, paths),
         \A file \in disk : file.path \notin paths => file \in disk',
         NEW s \in Requests, s # r, phase'[s] = phase[s],
         upload_paths'[s] = upload_paths[s], NEW f \in Fields \ Templated
  PROVE  Intact(s, f)'
<1> SUFFICES ASSUME phase[s] \in InFlight, upload_paths[s][f] # NoPath
             PROVE  File(upload_paths[s][f], s, f, "whole") \in disk'
  BY DEF Intact
<1>1. upload_paths[s][f] = TokenPath(s, f)
  BY DEF FileInv, PathsOwned
<1>2. File(TokenPath(s, f), s, f, "whole") \in disk
  BY <1>1 DEF FileInv, InputsIntact, Intact
<1>3. File(TokenPath(s, f), s, f, "whole").path \notin paths
  BY TokensUntouched DEF File
<1>4. QED
  BY <1>1, <1>2, <1>3

LEMMA PathsTouch ==
  ASSUME PathsOwned, NEW r \in Requests
  PROVE  Touches(r, UploadPathsOf(r) \cup OutputPathsOf(r))
  BY DEF PathsOwned, Touches, UploadPathsOf, OutputPathsOf

(* Every way a handler ends, once its uploads are written.                 *)
LEMMA EndKeepsFileInv ==
  ASSUME TypeOK, FileInv, NEW r \in Requests, NEW outcome \in Outcomes,
         NEW lost \in SUBSET OutputPathsOf(r),
         Finally(r, lost), Answer(r, outcome), UNCHANGED upload_paths
  PROVE  FileInv'
<1>1. PathsOwned'
  BY DEF FileInv, PathsOwned
<1>2. UploadsRecorded'
  <2> SUFFICES ASSUME NEW file \in disk', file \in UploadFiles, file.copy = "whole"
               PROVE  /\ phase'[file.by] \in Owning
                      /\ file.path \in UploadPathsOf(file.by)'
    BY DEF UploadsRecorded
  <2>1. /\ file \in disk
        /\ file.path \notin UploadPathsOf(r)
    BY DEF Finally, Unlinked
  <2>2. /\ phase[file.by] \in Owning
        /\ file.path \in UploadPathsOf(file.by)
    BY <2>1 DEF FileInv, UploadsRecorded
  <2>3. file.by # r /\ file.by \in Requests
    BY <2>1, <2>2, OutputFileFields
  <2>4. QED
    BY <2>2, <2>3 DEF Answer, TypeOK, UploadPathsOf
<1>3. InputsIntact'
  <2> SUFFICES ASSUME NEW s \in Requests, NEW f \in Fields \ Templated
               PROVE  Intact(s, f)'
    BY DEF InputsIntact
  <2>1. CASE s = r
    <3>1. phase'[s] \notin InFlight
      BY <2>1, OutcomeNames DEF Answer, TypeOK, InFlight
    <3>2. QED
      BY <3>1 DEF Intact
  <2>2. CASE s # r
    <3>1. Touches(r, UploadPathsOf(r) \cup lost)
      BY PathsTouch DEF FileInv, Touches
    <3>2. \A file \in disk : file.path \notin UploadPathsOf(r) \cup lost => file \in disk'
      BY DEF Finally, Unlinked
    <3>3. phase'[s] = phase[s] /\ upload_paths'[s] = upload_paths[s]
      BY <2>2 DEF Answer, TypeOK
    <3>4. QED
      BY <2>2, <3>1, <3>2, <3>3, OthersIntact
  <2>3. QED
    BY <2>1, <2>2
<1>4. QED
  BY <1>1, <1>2, <1>3 DEF FileInv

(* A request that is given up before its command: it had recorded nothing  *)
(* complete, and removes only what its first k uploads wrote.              *)
LEMMA AbandonKeepsFileInv ==
  ASSUME TypeOK, FileInv, NEW r \in Requests, NEW outcome \in Outcomes,
         phase[r] = "idle", Answer(r, outcome), NEW k \in Nat,
         NEW given \in SUBSET Fields, NEW naming \in Namings, NEW left \in SUBSET UploadFiles,
         \A file \in left :
           file.copy = "torn" /\ \E f \in Fields : file.path = PathsOf(r, given, naming)[f],
         Abandon(r, k, given, PathsOf(r, given, naming), left)
  PROVE  FileInv'
<1> DEFINE paths == PathsOf(r, given, naming)
           known == FirstPaths(k, paths)
           gone  == Removed(k, paths, left)
<1>1. /\ upload_paths' = [upload_paths EXCEPT ![r] = known]
      /\ \A file \in disk' : file \in disk \/ file \in left
      /\ \A file \in disk : file.path \notin gone => file \in disk'
  <2>1. upload_paths' = [upload_paths EXCEPT ![r] = known]
    BY AbandonFiles, ZenonT(60)
  <2>2. disk' \subseteq disk \cup left
    BY AbandonFiles
  <2>3. \A file \in disk : file.path \notin gone => file \in disk'
    BY AbandonFiles
  <2>4. QED
    BY <2>1, <2>2, <2>3
<1>2. \A f \in Fields : known[f] \in {NoPath, paths[f]}
  BY DEF FirstPaths
<1>3. PathsOwned'
  <2> SUFFICES ASSUME NEW s \in Requests, NEW f \in Fields
               PROVE  /\ upload_paths'[s][f] \in {NoPath, TokenPath(s, f)} \cup NamePaths
                      /\ f \notin Templated => upload_paths'[s][f] \in {NoPath, TokenPath(s, f)}
    BY DEF PathsOwned
  <2>1. CASE s = r
    <3>1. upload_paths'[s][f] \in {NoPath, paths[f]}
      BY <1>1, <1>2, <2>1 DEF TypeOK
    <3>2. QED
      BY <2>1, <3>1, PathsOfOwned
  <2>2. CASE s # r
    BY <1>1, <2>2 DEF FileInv, PathsOwned, TypeOK
  <2>3. QED
    BY <2>1, <2>2
<1>4. UploadsRecorded'
  <2> SUFFICES ASSUME NEW file \in disk', file \in UploadFiles, file.copy = "whole"
               PROVE  /\ phase'[file.by] \in Owning
                      /\ file.path \in UploadPathsOf(file.by)'
    BY DEF UploadsRecorded
  <2>1. file \in disk
    BY <1>1
  <2>2. /\ phase[file.by] \in Owning
        /\ file.path \in UploadPathsOf(file.by)
    BY <2>1 DEF FileInv, UploadsRecorded
  <2>3. file.by # r /\ file.by \in Requests
    BY <2>2, OutputFileFields DEF Owning, InFlight
  <2>4. QED
    BY <1>1, <2>2, <2>3 DEF Answer, TypeOK, UploadPathsOf
<1>5. InputsIntact'
  <2> SUFFICES ASSUME NEW s \in Requests, NEW f \in Fields \ Templated
               PROVE  Intact(s, f)'
    BY DEF InputsIntact
  <2>1. CASE s = r
    <3>1. phase'[s] \notin InFlight
      BY <2>1, OutcomeNames DEF Answer, TypeOK, InFlight
    <3>2. QED
      BY <3>1 DEF Intact
  <2>2. CASE s # r
    <3>1. \A p \in gone : p = NoPath \/ \E g \in Fields : p = paths[g]
      BY <1>2 DEF Removed
    <3>2. Touches(r, gone)
      BY <3>1, PathsOfOwned DEF Touches
    <3>3. phase'[s] = phase[s] /\ upload_paths'[s] = upload_paths[s]
      BY <1>1, <2>2 DEF Answer, TypeOK
    <3>4. QED
      BY <1>1, <2>2, <3>2, <3>3, OthersIntact
  <2>3. QED
    BY <2>1, <2>2
<1>6. QED
  BY <1>3, <1>4, <1>5 DEF FileInv

(* A request whose uploads are all written.                                *)
LEMMA BeginKeepsFileInv ==
  ASSUME TypeOK, FileInv, NEW r \in Requests, Begin(r)
  PROVE  FileInv'
<1>1. PICK given \in SUBSET Fields, naming \in Namings :
        LET paths == PathsOf(r, given, naming)
        IN  /\ upload_paths' = [upload_paths EXCEPT ![r] = paths]
            /\ disk' = Put(disk, Written(r, given, paths))
  BY DEF Begin
<1> DEFINE paths == PathsOf(r, given, naming)
<1>w. \A file \in Written(r, given, paths) :
        file.by = r /\ file.path \in {paths[g] : g \in given}
  BY WrittenTyped, UploadPathTyped
<1>d. /\ disk' \subseteq disk \cup Written(r, given, paths)
      /\ Written(r, given, paths) \subseteq disk'
      /\ \A file \in disk : file.path \notin {paths[g] : g \in given} => file \in disk'
  BY <1>1, <1>w, PutFiles
<1>2. phase[r] = "idle" /\ phase' = [phase EXCEPT ![r] = "launch"]
  BY DEF Begin, Answer
<1>3. PathsOwned'
  <2> SUFFICES ASSUME NEW s \in Requests, NEW f \in Fields
               PROVE  /\ upload_paths'[s][f] \in {NoPath, TokenPath(s, f)} \cup NamePaths
                      /\ f \notin Templated => upload_paths'[s][f] \in {NoPath, TokenPath(s, f)}
    BY DEF PathsOwned
  <2>1. CASE s = r
    <3>1. upload_paths'[s][f] = paths[f]
      BY <1>1, <2>1 DEF TypeOK
    <3>2. QED
      BY <2>1, <3>1, PathsOfOwned
  <2>2. CASE s # r
    BY <1>1, <2>2 DEF FileInv, PathsOwned, TypeOK
  <2>3. QED
    BY <2>1, <2>2
<1>4. UploadsRecorded'
  <2> SUFFICES ASSUME NEW file \in disk', file \in UploadFiles, file.copy = "whole"
               PROVE  /\ phase'[file.by] \in Owning
                      /\ file.path \in UploadPathsOf(file.by)'
    BY DEF UploadsRecorded
  <2>1. CASE file \in disk
    <3>1. /\ phase[file.by] \in Owning
          /\ file.path \in UploadPathsOf(file.by)
      BY <2>1 DEF FileInv, UploadsRecorded
    <3>2. file.by # r /\ file.by \in Requests
      BY <1>2, <3>1, OutputFileFields DEF Owning, InFlight
    <3>3. QED
      BY <1>1, <1>2, <3>1, <3>2 DEF TypeOK, UploadPathsOf
  <2>2. CASE file \in Written(r, given, paths)
    <3>1. file.by = r /\ \E f \in given : file.path = paths[f]
      BY <2>2, <1>w
    <3>2. QED
      BY <1>1, <1>2, <3>1 DEF TypeOK, Owning, InFlight, UploadPathsOf
  <2>3. QED
    BY <1>d, <2>1, <2>2
<1>5. InputsIntact'
  <2> SUFFICES ASSUME NEW s \in Requests, NEW f \in Fields \ Templated
               PROVE  Intact(s, f)'
    BY DEF InputsIntact
  <2>1. CASE s = r
    <3> SUFFICES ASSUME paths[f] # NoPath
                 PROVE  File(paths[f], r, f, "whole") \in Written(r, given, paths)
      BY <1>1, <1>d, <2>1 DEF Intact, TypeOK
    <3>1. f \in given /\ paths[f] = TokenPath(r, f)
      BY PathsOfOwned
    <3>2. \A g \in given : paths[g] = paths[f] => g = f
      BY <3>1, PathsOfOwned, PathsDistinct DEF NamePaths
    <3>3. \A g \in given : paths[g] = paths[f] => g <= f
      BY <3>2, ExecutorAssumption DEF Fields
    <3>4. QED
      BY <3>1, <3>3 DEF Written
  <2>2. CASE s # r
    <3>1. Touches(r, {paths[g] : g \in given})
      BY PathsOfOwned DEF Touches
    <3>2. \A file \in disk : file.path \notin {paths[g] : g \in given} => file \in disk'
      BY <1>d
    <3>3. phase'[s] = phase[s] /\ upload_paths'[s] = upload_paths[s]
      BY <1>1, <1>2, <2>2 DEF TypeOK
    <3>4. QED
      BY <2>2, <3>1, <3>2, <3>3, OthersIntact
  <2>3. QED
    BY <2>1, <2>2
<1>6. QED
  BY <1>3, <1>4, <1>5 DEF FileInv

(* A step that removes and writes no upload.                               *)
LEMMA RunningKeepsFileInv ==
  ASSUME TypeOK, FileInv, UNCHANGED upload_paths,
         \A file \in disk : file \in UploadFiles => file \in disk',
         disk' \subseteq disk \cup OutputFiles,
         \A r \in Requests : /\ phase[r] \in Owning => phase'[r] \in Owning
                             /\ phase'[r] \in InFlight => phase[r] \in InFlight
  PROVE  FileInv'
<1>1. PathsOwned'
  BY DEF FileInv, PathsOwned
<1>2. UploadsRecorded'
  BY KindsDisjoint, OutputFileFields DEF FileInv, UploadsRecorded, UploadPathsOf
<1>3. InputsIntact'
  <2> SUFFICES ASSUME NEW r \in Requests, NEW f \in Fields \ Templated,
                      phase[r] \in InFlight, upload_paths[r][f] # NoPath
               PROVE  File(upload_paths[r][f], r, f, "whole") \in disk'
    BY DEF InputsIntact, Intact
  <2>1. File(upload_paths[r][f], r, f, "whole") \in disk
    BY DEF FileInv, InputsIntact, Intact
  <2>2. upload_paths[r][f] \in UploadPaths
    BY DEF TypeOK
  <2>3. File(upload_paths[r][f], r, f, "whole") \in UploadFiles
    BY <2>2 DEF UploadFiles, File
  <2>4. QED
    BY <2>1, <2>3
<1>4. QED
  BY <1>1, <1>2, <1>3 DEF FileInv

(* The invariant of the files under uploads/.                              *)
THEOREM FilesCorrect == Spec => []FileInv
<1>1. Init => FileInv
  BY DEF Init, FileInv, PathsOwned, UploadsRecorded, InputsIntact, Intact, InFlight
<1>2. TypeOK /\ FileInv /\ [Next]_vars => FileInv'
  <2> SUFFICES ASSUME TypeOK, FileInv, [Next]_vars PROVE FileInv'
    OBVIOUS
  <2> USE OutcomeNames
  <2>1. ASSUME NEW r \in Requests, BeginOutputsFail(r) PROVE FileInv'
    BY <2>1, RunningKeepsFileInv DEF BeginOutputsFail, Answer, Owning, InFlight, TypeOK
  <2>2. ASSUME NEW r \in Requests, BeginRejected(r) PROVE FileInv'
    <3>1. PICK given \in SUBSET Fields, naming \in Namings, k \in 0..NumUploads :
            Abandon(r, k, given, PathsOf(r, given, naming), {})
      BY <2>2 DEF BeginRejected
    <3>2. phase[r] = "idle" /\ Answer(r, "rejected")
      BY <2>2 DEF BeginRejected
    <3>3. \A file \in {} :
            file.copy = "torn" /\ \E f \in Fields : file.path = PathsOf(r, given, naming)[f]
      OBVIOUS
    <3>4. k \in Nat /\ {} \in SUBSET UploadFiles
      BY ExecutorAssumption
    <3>5. QED
      BY <3>1, <3>2, <3>3, <3>4, AbandonKeepsFileInv
  <2>3. ASSUME NEW r \in Requests, BeginBreaks(r) PROVE FileInv'
    <3>1. PICK given \in SUBSET Fields, naming \in Namings, k \in Nat,
               left \in SUBSET UploadFiles :
            /\ \A file \in left :
                 file.copy = "torn" /\ \E f \in Fields : file.path = PathsOf(r, given, naming)[f]
            /\ Abandon(r, k, given, PathsOf(r, given, naming), left)
      BY <2>3, BreaksAbandon
    <3>2. phase[r] = "idle" /\ Answer(r, "prep_failed")
      BY <2>3 DEF BeginBreaks
    <3>3. QED
      BY <3>1, <3>2, AbandonKeepsFileInv
  <2>4. ASSUME NEW r \in Requests, Begin(r) PROVE FileInv'
    BY <2>4, BeginKeepsFileInv
  <2>5. ASSUME NEW r \in Requests, Launch(r) PROVE FileInv'
    BY <2>5, RunningKeepsFileInv DEF Launch, Owning, InFlight, TypeOK
  <2>6. ASSUME NEW r \in Requests, LaunchFails(r) PROVE FileInv'
    BY <2>6, EndKeepsFileInv DEF LaunchFails
  <2>7. ASSUME NEW r \in Requests, Command(r) PROVE FileInv'
    <3>1. /\ disk' \subseteq disk \cup OutputFiles
          /\ \A file \in disk : file \in UploadFiles => file \in disk'
      BY <2>7, CommandFiles, UploadsNotOutputs
         DEF Command, CommandForks, CommandExits, HelperExits
    <3>2. UNCHANGED <<phase, upload_paths>>
      BY <2>7 DEF Command, CommandWrites, CommandForks, CommandExits, HelperExits
    <3>3. QED
      BY <3>1, <3>2, RunningKeepsFileInv
  <2>8. ASSUME NEW r \in Requests, RunFails(r) PROVE FileInv'
    BY <2>8, EndKeepsFileInv DEF RunFails
  <2>9. ASSUME NEW r \in Requests, ParseFails(r) PROVE FileInv'
    BY <2>9, EndKeepsFileInv DEF ParseFails
  <2>10. ASSUME NEW r \in Requests, ParseCrashes(r) PROVE FileInv'
    BY <2>10, EndKeepsFileInv DEF ParseCrashes
  <2>11. ASSUME NEW r \in Requests, RunSucceeds(r) PROVE FileInv'
    BY <2>11, EndKeepsFileInv DEF RunSucceeds
  <2>12. ASSUME NEW r \in Requests, TimeoutKills(r) PROVE FileInv'
    BY <2>12, RunningKeepsFileInv DEF TimeoutKills, Owning, InFlight, TypeOK
  <2>13. ASSUME NEW r \in Requests, TimeoutKillMisses(r) PROVE FileInv'
    BY <2>13, EndKeepsFileInv DEF TimeoutKillMisses
  <2>14. ASSUME NEW r \in Requests, Reap(r) PROVE FileInv'
    BY <2>14, EndKeepsFileInv DEF Reap
  <2>15. ASSUME NEW r \in Requests, Cancel(r) PROVE FileInv'
    BY <2>15, EndKeepsFileInv DEF Cancel
  <2>19. ASSUME NEW r \in Requests, RemovalFails(r) PROVE FileInv'
    BY <2>19, EndKeepsFileInv, RemovedFirstTyped DEF RemovalFails
  <2>16. CASE Crash
    BY <2>16, RunningKeepsFileInv DEF Crash, Owning
  <2>17. CASE UNCHANGED vars
    BY <2>17, RunningKeepsFileInv DEF vars
  <2>18. QED
    BY <2>1, <2>2, <2>3, <2>4, <2>5, <2>6, <2>7, <2>8, <2>9, <2>10, <2>11, <2>12, <2>13,
       <2>14, <2>15, <2>16, <2>17, <2>19 DEF Next, Arrive, Handle, Quiescent
<1>3. QED
  BY <1>1, <1>2, TypeCorrect, PTL DEF Spec

(* While a request is in flight, its unnamed inputs are whole on disk,     *)
(* whatever the other requests and their clean-ups do.                     *)
THEOREM InputsStayIntact == Spec => []InputsIntact
<1>1. FileInv => InputsIntact
  BY DEF FileInv
<1>2. QED
  BY <1>1, FilesCorrect, PTL

(* No completely written upload outlives the answer to its request.        *)
THEOREM UploadsAreOwned == Spec => []UploadsHaveOwner
<1>1. FileInv => UploadsHaveOwner
  BY DEF FileInv, UploadsRecorded, UploadsHaveOwner, Owning
<1>2. QED
  BY <1>1, FilesCorrect, PTL

-----------------------------------------------------------------------------
(* Processes, and the files under outputs/.                                *)

(* Before its command and after an answer that waited for it, nothing of a *)
(* request runs.                                                           *)
Silent ==
  {"idle", "launch", "rejected", "outputs_failed", "prep_failed", "not_launched",
   "ok", "failed", "unparsed", "parser_crash"}

ProcessInv ==
  \A r \in Requests :
    /\ phase[r] \in Silent => ~Alive(r)
    /\ phase[r] \in {"reap", "timed_out", "kill_missed", "unlink_failed"} => proc[r] # "running"
    /\ phase[r] \in {"timed_out", "kill_missed", "unlink_failed"} /\ WaitForPipes => ~helper[r]

OutputInv ==
  \A file \in disk : file \in OutputFiles =>
    phase[file.by] \notin CleanOutcomes \cup {"idle", "launch"}

LEMMA EndKeepsOutputInv ==
  ASSUME TypeOK, OutputInv, NEW r \in Requests, NEW outcome \in Outcomes,
         NEW lost \in SUBSET OutputPathsOf(r), Finally(r, lost), Answer(r, outcome),
         \/ lost = OutputPathsOf(r)
         \/ outcome \notin CleanOutcomes \cup {"idle", "launch"}
  PROVE  OutputInv'
<1> SUFFICES ASSUME NEW file \in disk', file \in OutputFiles
             PROVE  phase'[file.by] \notin CleanOutcomes \cup {"idle", "launch"}
  BY DEF OutputInv
<1>1. file \in disk /\ file.path \notin lost
  BY DEF Finally, Unlinked
<1>2. PICK o \in Outputs : file.path = OutputPath(file.by, o) /\ file.by \in Requests
  BY OutputFileFields
<1>3. phase[file.by] \notin CleanOutcomes \cup {"idle", "launch"}
  BY <1>1 DEF OutputInv
<1>4. CASE file.by # r
  BY <1>2, <1>3, <1>4 DEF Answer, TypeOK
<1>5. CASE file.by = r
  BY <1>1, <1>2, <1>5 DEF Answer, TypeOK, OutputPathsOf
<1>6. QED
  BY <1>4, <1>5

(* A step of a request that had not started its command, or one that       *)
(* changes neither files nor the phases this invariant tells apart.        *)
LEMMA EarlyKeepsOutputInv ==
  ASSUME TypeOK, OutputInv, disk' \subseteq disk \cup UploadFiles,
         \A r \in Requests : \/ phase'[r] = phase[r]
                             \/ phase[r] \in {"idle", "launch"}
                             \/ phase'[r] \notin CleanOutcomes \cup {"idle", "launch"}
  PROVE  OutputInv'
<1> SUFFICES ASSUME NEW file \in disk', file \in OutputFiles
             PROVE  phase'[file.by] \notin CleanOutcomes \cup {"idle", "launch"}
  BY DEF OutputInv
<1>1. file \in disk /\ file.by \in Requests
  BY KindsDisjoint, OutputFileFields
<1>2. QED
  BY <1>1 DEF OutputInv

(* The invariant of the processes.                                         *)
THEOREM ProcessesCorrect == Spec => []ProcessInv
<1>1. Init => ProcessInv
  BY DEF Init, ProcessInv, Alive
<1>2. TypeOK /\ ProcessInv /\ [Next]_vars => ProcessInv'
  <2> SUFFICES ASSUME TypeOK, ProcessInv, [Next]_vars, NEW s \in Requests
               PROVE  /\ phase'[s] \in Silent => ~Alive(s)'
                      /\ phase'[s] \in {"reap", "timed_out", "kill_missed", "unlink_failed"}
                           => proc'[s] # "running"
                      /\ phase'[s] \in {"timed_out", "kill_missed", "unlink_failed"} /\ WaitForPipes
                           => ~helper'[s]
    BY DEF ProcessInv
  <2> USE DEF ProcessInv, TypeOK, Silent, Alive, Answer
  <2>1. ASSUME NEW r \in Requests, Arrive(r) PROVE ProcessInv'
    BY <2>1, ZenonT(60) DEF Arrive, BeginOutputsFail, BeginRejected, BeginBreaks, Begin, Abandon
  <2>2. ASSUME NEW r \in Requests, Launch(r) \/ LaunchFails(r) PROVE ProcessInv'
    BY <2>2 DEF Launch, LaunchFails
  <2>3. ASSUME NEW r \in Requests, Command(r) PROVE ProcessInv'
    BY <2>3 DEF Command, CommandWrites, CommandForks, CommandExits, HelperExits
  <2>4. ASSUME NEW r \in Requests, RunFails(r) \/ ParseFails(r) \/ ParseCrashes(r)
                                     \/ RunSucceeds(r)
        PROVE ProcessInv'
    BY <2>4 DEF Communicated, RunFails, ParseFails, ParseCrashes, RunSucceeds
  <2>5. ASSUME NEW r \in Requests,
               \/ TimeoutKills(r) \/ TimeoutKillMisses(r) \/ Cancel(r)
               \/ Reap(r) \/ RemovalFails(r)
        PROVE ProcessInv'
    BY <2>5, ExecutorAssumption
       DEF TimeoutKills, TimeoutKillMisses, Cancel, Reap, RemovalFails, Communicated, InFlight
  <2>6. CASE Crash
    BY <2>6 DEF Crash, InFlight
  <2>7. CASE UNCHANGED vars
    BY <2>7 DEF vars
  <2>8. QED
    BY <2>1, <2>2, <2>3, <2>4, <2>5, <2>6, <2>7 DEF Next, Handle, Quiescent
<1>3. QED
  BY <1>1, <1>2, TypeCorrect, PTL DEF Spec

(* An answer means that the command has ended, except when the server was  *)
(* stopping.                                                               *)
THEOREM AnsweredReaped == Spec => []AnsweredMeansReaped
<1>1. ProcessInv => AnsweredMeansReaped
  BY OutcomeNames DEF ProcessInv, AnsweredMeansReaped, Silent, Alive
<1>2. QED
  BY <1>1, ProcessesCorrect, PTL

LEMMA AliveMayWrite ==
  ASSUME ProcessInv, NEW r \in Requests, Alive(r)
  PROVE  phase[r] \notin CleanOutcomes \cup {"idle", "launch"}
  BY DEF ProcessInv, Silent, CleanOutcomes, Alive

(* The invariant of the files under outputs/.                              *)
THEOREM OutputsCorrect == Spec => []OutputInv
<1>1. Init => OutputInv
  BY DEF Init, OutputInv
<1>2. TypeOK /\ ProcessInv /\ OutputInv /\ [Next]_vars => OutputInv'
  <2> SUFFICES ASSUME TypeOK, ProcessInv, OutputInv, [Next]_vars PROVE OutputInv'
    OBVIOUS
  <2> USE OutcomeNames
  <2>1. ASSUME NEW r \in Requests, BeginOutputsFail(r) PROVE OutputInv'
    BY <2>1, EarlyKeepsOutputInv DEF BeginOutputsFail, Answer, TypeOK
  <2>2. ASSUME NEW r \in Requests, BeginRejected(r) PROVE OutputInv'
    <3>1. disk' \subseteq disk
      <4>1. PICK given \in SUBSET Fields, naming \in Namings, k \in 0..NumUploads :
              Abandon(r, k, given, PathsOf(r, given, naming), {})
        BY <2>2 DEF BeginRejected
      <4>2. k \in Nat /\ {} \in SUBSET UploadFiles
        BY ExecutorAssumption
      <4>3. disk' \subseteq disk \cup {}
        BY <4>1, <4>2, AbandonFiles
      <4>4. QED
        BY <4>3
    <3>2. QED
      BY <2>2, <3>1, EarlyKeepsOutputInv DEF BeginRejected, Answer, TypeOK
  <2>3. ASSUME NEW r \in Requests, BeginBreaks(r) PROVE OutputInv'
    <3>1. PICK given \in SUBSET Fields, naming \in Namings, k \in Nat,
               left \in SUBSET UploadFiles :
            Abandon(r, k, given, PathsOf(r, given, naming), left)
      BY <2>3, BreaksAbandon
    <3>2. disk' \subseteq disk \cup left
      BY <3>1, AbandonFiles
    <3>3. QED
      BY <2>3, <3>2, EarlyKeepsOutputInv DEF BeginBreaks, Answer, TypeOK
  <2>4. ASSUME NEW r \in Requests, Begin(r) PROVE OutputInv'
    <3>1. PICK given \in SUBSET Fields, naming \in Namings :
            disk' = Put(disk, Written(r, given, PathsOf(r, given, naming)))
      BY <2>4 DEF Begin
    <3>2. Written(r, given, PathsOf(r, given, naming)) \subseteq UploadFiles
      BY WrittenTyped, UploadPathTyped
    <3>3. disk' \subseteq disk \cup UploadFiles
      BY <3>1, <3>2 DEF Put, Unlinked
    <3>4. QED
      BY <2>4, <3>3, EarlyKeepsOutputInv DEF Begin, Answer, TypeOK
  <2>5. ASSUME NEW r \in Requests, Launch(r) PROVE OutputInv'
    BY <2>5, EarlyKeepsOutputInv DEF Launch, TypeOK
  <2>6. ASSUME NEW r \in Requests, LaunchFails(r) PROVE OutputInv'
    BY <2>6, EndKeepsOutputInv DEF LaunchFails
  <2>7. ASSUME NEW r \in Requests, NEW o \in Outputs, CommandWrites(r, o) PROVE OutputInv'
    <3>1. disk' \subseteq disk \cup {file \in OutputFiles : file.by = r}
      BY <2>7, CommandFiles
    <3>2. phase[r] \notin CleanOutcomes \cup {"idle", "launch"}
      BY <2>7, AliveMayWrite DEF CommandWrites
    <3>3. QED
      BY <2>7, <3>1, <3>2 DEF CommandWrites, OutputInv
  <2>8. ASSUME NEW r \in Requests, CommandForks(r) \/ CommandExits(r) \/ HelperExits(r)
        PROVE OutputInv'
    BY <2>8 DEF CommandForks, CommandExits, HelperExits, OutputInv
  <2>9. ASSUME NEW r \in Requests, RunFails(r) PROVE OutputInv'
    BY <2>9, EndKeepsOutputInv DEF RunFails
  <2>10. ASSUME NEW r \in Requests, ParseFails(r) PROVE OutputInv'
    BY <2>10, EndKeepsOutputInv DEF ParseFails
  <2>11. ASSUME NEW r \in Requests, ParseCrashes(r) PROVE OutputInv'
    BY <2>11, EndKeepsOutputInv DEF ParseCrashes, CleanOutcomes
  <2>12. ASSUME NEW r \in Requests, RunSucceeds(r) PROVE OutputInv'
    BY <2>12, EndKeepsOutputInv DEF RunSucceeds, CleanOutcomes
  <2>13. ASSUME NEW r \in Requests, TimeoutKills(r) PROVE OutputInv'
    BY <2>13, EarlyKeepsOutputInv DEF TimeoutKills, CleanOutcomes, TypeOK
  <2>14. ASSUME NEW r \in Requests, TimeoutKillMisses(r) PROVE OutputInv'
    BY <2>14, EndKeepsOutputInv DEF TimeoutKillMisses, CleanOutcomes
  <2>15. ASSUME NEW r \in Requests, Reap(r) PROVE OutputInv'
    BY <2>15, EndKeepsOutputInv DEF Reap
  <2>16. ASSUME NEW r \in Requests, Cancel(r) PROVE OutputInv'
    BY <2>16, EndKeepsOutputInv DEF Cancel, CleanOutcomes
  <2>20. ASSUME NEW r \in Requests, RemovalFails(r) PROVE OutputInv'
    BY <2>20, EndKeepsOutputInv, RemovedFirstTyped DEF RemovalFails, CleanOutcomes
  <2>17. CASE Crash
    BY <2>17, EarlyKeepsOutputInv DEF Crash, CleanOutcomes
  <2>18. CASE UNCHANGED vars
    BY <2>18 DEF vars, OutputInv
  <2>19. QED
    BY <2>1, <2>2, <2>3, <2>4, <2>5, <2>6, <2>7, <2>8, <2>9, <2>10, <2>11, <2>12, <2>13,
       <2>14, <2>15, <2>16, <2>17, <2>18, <2>20 DEF Next, Arrive, Handle, Command, Quiescent
<1>3. QED
  BY <1>1, <1>2, TypeCorrect, ProcessesCorrect, PTL DEF Spec

(* After a failure that cleans up, no output file of the request exists.   *)
THEOREM FailedRunsClean == Spec => []FailedRunsLeaveNoOutput
<1>1. OutputInv => FailedRunsLeaveNoOutput
  BY DEF OutputInv, FailedRunsLeaveNoOutput
<1>2. QED
  BY <1>1, OutputsCorrect, PTL

-----------------------------------------------------------------------------
(* The spooled files of the uploads.                                       *)

(* An answer finds the handles of its request closed, save the one given   *)
(* before the first try block.                                             *)
THEOREM HandlesAreClosed == Spec => []HandlesClosed
<1>1. Init => HandlesClosed
  BY DEF Init, HandlesClosed
<1>2. TypeOK /\ HandlesClosed /\ [Next]_vars => HandlesClosed'
  <2> SUFFICES ASSUME TypeOK, HandlesClosed, [Next]_vars, NEW s \in Requests,
                      phase'[s] \in Outcomes \ {"outputs_failed"}
               PROVE  open'[s] = {}
    BY DEF HandlesClosed
  <2> USE OutcomeNames DEF HandlesClosed, TypeOK, InFlight, Answer
  <2>1. ASSUME UNCHANGED vars PROVE open'[s] = {}
    BY <2>1 DEF vars
  <2>2. ASSUME NEW r \in Requests, Arrive(r) PROVE open'[s] = {}
    BY <2>2, ZenonT(60) DEF Arrive, BeginOutputsFail, BeginRejected, BeginBreaks, Begin, Abandon
  <2>3. ASSUME NEW r \in Requests, Launch(r) \/ TimeoutKills(r) \/ Command(r)
        PROVE  open'[s] = {}
    BY <2>3 DEF Launch, TimeoutKills, Command, CommandWrites, CommandForks, CommandExits,
                HelperExits
  <2>4. ASSUME NEW r \in Requests, Cancel(r) \/ Handle(r), ~(Launch(r) \/ TimeoutKills(r))
        PROVE  open'[s] = {}
    <3>1. PICK lost, outcome : Finally(r, lost) /\ Answer(r, outcome)
      BY <2>4 DEF Cancel, Handle, LaunchFails, RunFails, ParseFails, ParseCrashes, RunSucceeds,
                  TimeoutKillMisses, Reap, RemovalFails
    <3>2. QED
      BY <3>1 DEF Finally
  <2>5. ASSUME Crash PROVE open'[s] = {}
    BY <2>5 DEF Crash
  <2>6. CASE \E r \in Requests : Arrive(r) \/ Handle(r) \/ Command(r) \/ Cancel(r)
    BY <2>2, <2>3, <2>4, <2>6
  <2>7. QED
    BY <2>1, <2>5, <2>6 DEF Next, Quiescent
<1>3. QED
  BY <1>1, <1>2, TypeCorrect, PTL DEF Spec

-----------------------------------------------------------------------------
(* Who removes an output.                                                  *)

Vanishes(file) == \A other \in disk' : other.path # file.path

Stays ==
  \A file \in disk : file \in OutputFiles /\ Vanishes(file) =>
    /\ phase[file.by] \in InFlight
    /\ phase'[file.by] \in Outcomes \ {"ok"}

(* The end of a handler.                                                   *)
LEMMA EndStays ==
  ASSUME TypeOK, NEW r \in Requests, NEW outcome \in Outcomes, phase[r] \in InFlight,
         NEW lost \in SUBSET OutputPathsOf(r), lost = {} \/ outcome # "ok",
         Finally(r, lost), Answer(r, outcome)
  PROVE  Stays
<1> SUFFICES ASSUME NEW file \in disk, file \in OutputFiles, Vanishes(file)
             PROVE  /\ phase[file.by] \in InFlight
                    /\ phase'[file.by] \in Outcomes \ {"ok"}
  BY DEF Stays
<1>1. file \notin disk'
  BY DEF Vanishes
<1>2. file.path \in UploadPathsOf(r) \cup lost
  BY <1>1 DEF Finally, Unlinked
<1>3. PICK o \in Outputs : file.path = OutputPath(file.by, o) /\ file.by \in Requests
  BY OutputFileFields
<1>4. file.path \notin UploadPathsOf(r)
  BY <1>3, PathsDistinct DEF TypeOK, UploadPathsOf, UploadPaths
<1>5. PICK p \in Outputs : file.path = OutputPath(r, p)
  BY <1>2, <1>4 DEF OutputPathsOf
<1>6. file.by = r
  BY <1>3, <1>5, PathsDistinct
<1>7. QED
  BY <1>2, <1>4, <1>6 DEF Answer, TypeOK

(* The clean-up of a request that never ran.                               *)
LEMMA AbandonStays ==
  ASSUME NEW r \in Requests, NEW k \in Nat, NEW left \in SUBSET UploadFiles,
         NEW given \in SUBSET Fields, NEW naming \in Namings,
         Abandon(r, k, given, PathsOf(r, given, naming), left)
  PROVE  Stays
<1>1. \A p \in Removed(k, PathsOf(r, given, naming), left) : p \in UploadPaths \cup {NoPath}
  BY UploadPathTyped, OutputFileFields DEF Removed, FirstPaths
<1>2. \A file \in OutputFiles : file.path \notin UploadPaths \cup {NoPath}
  BY OutputFileFields, PathsDistinct DEF UploadPaths
<1>3. \A file \in disk : file \in OutputFiles => file \in disk'
  BY <1>1, <1>2, AbandonFiles
<1>4. QED
  BY <1>3 DEF Stays, Vanishes

(* No step takes away what a command left under an output path, but the    *)
(* one that answers its own request with a failure.                        *)
THEOREM OutputsStay == Spec => KeptOutputsStay
<1>1. TypeOK /\ [Next]_vars => [Stays]_vars
  <2> SUFFICES ASSUME TypeOK, Next PROVE Stays
    OBVIOUS
  <2> USE OutcomeNames DEF InFlight
  <2>1. ASSUME NEW r \in Requests, BeginRejected(r) PROVE Stays
    <3>1. PICK given \in SUBSET Fields, naming \in Namings, k \in 0..NumUploads :
            Abandon(r, k, given, PathsOf(r, given, naming), {})
      BY <2>1 DEF BeginRejected
    <3>2. k \in Nat /\ {} \in SUBSET UploadFiles
      BY ExecutorAssumption
    <3>3. QED
      BY <3>1, <3>2, AbandonStays
  <2>2. ASSUME NEW r \in Requests, BeginBreaks(r) PROVE Stays
    <3>1. PICK given \in SUBSET Fields, naming \in Namings, k \in Nat,
               left \in SUBSET UploadFiles :
            Abandon(r, k, given, PathsOf(r, given, naming), left)
      BY <2>2, BreaksAbandon
    <3>2. QED
      BY <3>1, AbandonStays
  <2>3. ASSUME NEW r \in Requests, Begin(r) PROVE Stays
    <3>1. PICK given \in SUBSET Fields, naming \in Namings :
            disk' = Put(disk, Written(r, given, PathsOf(r, given, naming)))
      BY <2>3 DEF Begin
    <3>2. \A file \in Written(r, given, PathsOf(r, given, naming)) : file.path \in UploadPaths
      BY WrittenTyped, UploadPathTyped, OutputFileFields
    <3>3. \A file \in OutputFiles : file.path \notin UploadPaths
      BY OutputFileFields, PathsDistinct DEF UploadPaths
    <3>4. \A file \in disk : file \in OutputFiles => file \in disk'
      BY <3>1, <3>2, <3>3, PutFiles
    <3>5. QED
      BY <3>4 DEF Stays, Vanishes
  <2>4. ASSUME NEW r \in Requests, NEW o \in Outputs, CommandWrites(r, o) PROVE Stays
    BY <2>4, CommandFiles DEF Stays, Vanishes
  <2>5. ASSUME UNCHANGED disk PROVE Stays
    BY <2>5 DEF Stays, Vanishes
  <2>6. ASSUME NEW r \in Requests, LaunchFails(r) \/ RunFails(r) \/ ParseFails(r) \/ Reap(r)
        PROVE  Stays
    BY <2>6, EndStays DEF LaunchFails, RunFails, ParseFails, Reap, Communicated
  <2>7. ASSUME NEW r \in Requests,
               ParseCrashes(r) \/ RunSucceeds(r) \/ TimeoutKillMisses(r) \/ Cancel(r)
        PROVE  Stays
    <3>1. {} \in SUBSET OutputPathsOf(r)
      OBVIOUS
    <3>2. QED
      BY <2>7, <3>1, EndStays DEF ParseCrashes, RunSucceeds, TimeoutKillMisses, Cancel, Communicated
  <2>8. ASSUME NEW r \in Requests, RemovalFails(r) PROVE Stays
    BY <2>8, EndStays, RemovedFirstTyped DEF RemovalFails, Communicated
  <2>9. QED
    BY <2>1, <2>2, <2>3, <2>4, <2>5, <2>6, <2>7, <2>8
       DEF Next, Arrive, Handle, Command, BeginOutputsFail, Launch, TimeoutKills,
           CommandForks, CommandExits, HelperExits, Crash, Quiescent, vars
<1>2. QED
  BY <1>1, TypeCorrect, PTL DEF Spec, KeptOutputsStay, Stays, Vanishes

-----------------------------------------------------------------------------
(* Who takes the name of an upload.                                        *)

(* The request s has recorded the path, or has just written a file there.  *)
Uses(s, path) ==
  \/ \E g \in Fields : upload_paths'[s][g] = path
  \/ \E file \in disk' : file.path = path /\ file.by = s

(* Every upload that is gone had a path that s uses.                       *)
TakenBy(s) ==
  /\ phase'[s] # phase[s]
  /\ \A file \in disk : file \in UploadFiles /\ file \notin disk' => Uses(s, file.path)

Named ==
  \A r \in Requests, f \in Templated :
    /\ phase[r] \in InFlight /\ phase'[r] \in InFlight /\ upload_paths[r][f] # NoPath
    /\ Intact(r, f) /\ ~Intact(r, f)'
    => \E s \in Requests \ {r} :
        /\ phase'[s] # phase[s]
        /\ Uses(s, upload_paths[r][f])

(* A preparation that was given up.                                        *)
LEMMA AbandonTakes ==
  ASSUME TypeOK, NEW s \in Requests, NEW k \in Nat, NEW left \in SUBSET UploadFiles,
         NEW given \in SUBSET Fields, NEW naming \in Namings, \A file \in left : file.by = s,
         Abandon(s, k, given, PathsOf(s, given, naming), left)
  PROVE  \A file \in disk : file \notin disk' => Uses(s, file.path)
<1> DEFINE known == {FirstPaths(k, PathsOf(s, given, naming))[f] : f \in Fields}
<1>1. \A p \in known : \E g \in Fields : upload_paths'[s][g] = p
  <2>1. upload_paths' = [upload_paths EXCEPT ![s] = FirstPaths(k, PathsOf(s, given, naming))]
    BY DEF Abandon
  <2>2. upload_paths'[s] = FirstPaths(k, PathsOf(s, given, naming))
    BY <2>1, Zenon DEF TypeOK
  <2>3. QED
    BY <2>2, Zenon
<1>2. \A file \in left : file \in disk' \/ file.path \in known
  BY DEF Abandon, Put, Unlinked
<1>3. \A file \in disk : file \notin disk' =>
        file.path \in known \/ \E new \in left : file.path = new.path
  <2>1. \A file \in disk :
          file.path \notin Removed(k, PathsOf(s, given, naming), left) => file \in disk'
    BY AbandonFiles, Zenon
  <2>2. QED
    BY <2>1, Zenon DEF Removed
<1> HIDE DEF known
<1>4. QED
  BY <1>1, <1>2, <1>3 DEF Uses

(* The `finally`.                                                          *)
LEMMA FinallyTakes ==
  ASSUME NEW s \in Requests, NEW lost \in SUBSET OutputPathsOf(s), Finally(s, lost),
         UNCHANGED upload_paths
  PROVE  \A file \in disk : file \in UploadFiles /\ file \notin disk' => Uses(s, file.path)
<1> SUFFICES ASSUME NEW file \in disk, file \in UploadFiles, file \notin disk'
             PROVE  Uses(s, file.path)
  OBVIOUS
<1>1. file.path \in UploadPathsOf(s) \cup lost
  BY DEF Finally, Unlinked
<1>2. file.path \notin lost
  BY UploadsNotOutputs DEF OutputPathsOf
<1>3. QED
  BY <1>1, <1>2 DEF UploadPathsOf, Uses

(* An upload with a name_template is lost to its command only in a step of *)
(* a request that uses its very name.                                      *)
THEOREM NamedLost == Spec => NamedLossesHaveRival
<1>1. TypeOK /\ [Next]_vars => [Named]_vars
  <2> SUFFICES ASSUME TypeOK, Next PROVE Named
    OBVIOUS
  <2> USE OutcomeNames DEF InFlight
  <2>1. ASSUME \A r \in Requests : phase[r] \in InFlight => upload_paths'[r] = upload_paths[r],
               \/ \A file \in disk : file \in UploadFiles => file \in disk'
               \/ \E s \in Requests : phase'[s] \notin InFlight /\ TakenBy(s)
               \/ \E s \in Requests : phase[s] \notin InFlight /\ TakenBy(s)
        PROVE  Named
    <3> SUFFICES ASSUME NEW r \in Requests, NEW f \in Templated,
                        phase[r] \in InFlight, phase'[r] \in InFlight,
                        upload_paths[r][f] # NoPath, Intact(r, f), ~Intact(r, f)'
                 PROVE  \E s \in Requests \ {r} :
                          phase'[s] # phase[s] /\ Uses(s, upload_paths[r][f])
      BY Zenon DEF Named
    <3> DEFINE lost == File(upload_paths[r][f], r, f, "whole")
    <3>1. f \in Fields /\ upload_paths[r][f] \in UploadPaths
      BY ExecutorAssumption DEF TypeOK
    <3>2. lost \in disk /\ lost \notin disk'
      BY <2>1 DEF Intact
    <3>3. lost \in UploadFiles /\ lost.path = upload_paths[r][f]
      BY <3>1 DEF UploadFiles, File
    <3> HIDE DEF lost
    <3>4. QED
      BY <2>1, <3>2, <3>3 DEF TakenBy
  <2>2. ASSUME NEW s \in Requests, phase[s] = "idle", NEW outcome \in Outcomes,
               Answer(s, outcome), NEW k \in Nat, NEW left \in SUBSET UploadFiles,
               NEW given \in SUBSET Fields, NEW naming \in Namings,
               \A file \in left : file.by = s,
               Abandon(s, k, given, PathsOf(s, given, naming), left)
        PROVE  Named
    <3>1. \A r \in Requests : phase[r] \in InFlight => upload_paths'[r] = upload_paths[r]
      <4>1. upload_paths' = [upload_paths EXCEPT ![s] = FirstPaths(k, PathsOf(s, given, naming))]
        BY <2>2 DEF Abandon
      <4>2. \A r \in Requests : phase[r] \in InFlight => r # s
        BY <2>2
      <4>3. QED
        BY <4>1, <4>2, Zenon DEF TypeOK
    <3>2. \A file \in disk : file \notin disk' => Uses(s, file.path)
      BY <2>2, AbandonTakes
    <3>3. phase[s] \notin InFlight /\ phase'[s] # phase[s]
      BY <2>2 DEF Answer, TypeOK
    <3>4. QED
      BY <2>1, <3>1, <3>2, <3>3 DEF TakenBy
  <2>3. ASSUME NEW s \in Requests, BeginRejected(s) PROVE Named
    <3>1. PICK given \in SUBSET Fields, naming \in Namings, k \in 0..NumUploads :
            Abandon(s, k, given, PathsOf(s, given, naming), {})
      BY <2>3 DEF BeginRejected
    <3>2. k \in Nat /\ {} \in SUBSET UploadFiles /\ \A file \in {} : file.by = s
      BY ExecutorAssumption
    <3>3. phase[s] = "idle" /\ Answer(s, "rejected") /\ "rejected" \in Outcomes
      BY <2>3 DEF BeginRejected
    <3>4. QED
      BY <2>2, <3>1, <3>2, <3>3
  <2>4. ASSUME NEW s \in Requests, BeginBreaks(s) PROVE Named
    <3>1. phase[s] = "idle" /\ Answer(s, "prep_failed") /\ "prep_failed" \in Outcomes
      BY <2>4 DEF BeginBreaks
    <3>2. QED
      BY <2>2, <2>4, <3>1, BreaksAbandon
  <2>5. ASSUME NEW s \in Requests, Begin(s) PROVE Named
    <3>1. PICK given \in SUBSET Fields, naming \in Namings :
            /\ upload_paths' = [upload_paths EXCEPT ![s] = PathsOf(s, given, naming)]
            /\ disk' = Put(disk, Written(s, given, PathsOf(s, given, naming)))
      BY <2>5 DEF Begin
    <3> DEFINE new == Written(s, given, PathsOf(s, given, naming))
    <3>2. \A file \in new : file.by = s
      BY DEF Written, File
    <3> HIDE DEF new
    <3>3. \A file \in disk : file \notin disk' => Uses(s, file.path)
      BY <3>1, <3>2 DEF Put, Unlinked, Uses, new
    <3>4. /\ \A r \in Requests : phase[r] \in InFlight => upload_paths'[r] = upload_paths[r]
          /\ phase[s] \notin InFlight /\ phase'[s] # phase[s]
      BY <2>5, <3>1 DEF Begin, Answer, TypeOK
    <3>5. QED
      BY <2>1, <3>3, <3>4 DEF TakenBy
  <2>6. ASSUME NEW s \in Requests, NEW o \in Outputs, CommandWrites(s, o) PROVE Named
    <3>1. \A file \in disk : file \in UploadFiles => file \in disk'
      BY <2>6, CommandFiles, UploadsNotOutputs
    <3>2. QED
      BY <2>1, <2>6, <3>1 DEF CommandWrites
  <2>7. ASSUME UNCHANGED <<upload_paths, disk>> PROVE Named
    BY <2>1, <2>7
  <2>8. ASSUME NEW s \in Requests, NEW outcome \in Outcomes, phase[s] \in InFlight,
               NEW lost \in SUBSET OutputPathsOf(s), Finally(s, lost), Answer(s, outcome),
               UNCHANGED upload_paths
        PROVE  Named
    <3>1. phase'[s] \notin InFlight /\ phase'[s] # phase[s]
      BY <2>8 DEF Answer, TypeOK
    <3>2. TakenBy(s)
      BY <2>8, <3>1, FinallyTakes DEF TakenBy
    <3>3. QED
      BY <2>1, <2>8, <3>1, <3>2
  <2>9. ASSUME NEW s \in Requests, LaunchFails(s) \/ RunFails(s) \/ ParseFails(s) \/ Reap(s)
        PROVE  Named
    BY <2>8, <2>9 DEF LaunchFails, RunFails, ParseFails, Reap, Communicated
  <2>10. ASSUME NEW s \in Requests,
                ParseCrashes(s) \/ RunSucceeds(s) \/ TimeoutKillMisses(s) \/ Cancel(s)
         PROVE  Named
    <3>1. {} \in SUBSET OutputPathsOf(s)
      OBVIOUS
    <3>2. QED
      BY <2>8, <2>10, <3>1
         DEF ParseCrashes, RunSucceeds, TimeoutKillMisses, Cancel, Communicated
  <2>11. ASSUME NEW s \in Requests, RemovalFails(s) PROVE Named
    BY <2>8, <2>11, RemovedFirstTyped DEF RemovalFails, Communicated
  <2>12. QED
    BY <2>3, <2>4, <2>5, <2>6, <2>7, <2>9, <2>10, <2>11
       DEF Next, Arrive, Handle, Command, BeginOutputsFail, Launch, TimeoutKills,
           CommandForks, CommandExits, HelperExits, Crash, Quiescent, vars
<1>2. Spec => [][Named]_vars
  BY <1>1, TypeCorrect, PTL DEF Spec
<1>3. QED
  BY <1>2, PTL DEF NamedLossesHaveRival, Named, Uses

-----------------------------------------------------------------------------
(* The contract of execute_endpoint.                                       *)

StateOf(r) == IF phase[r] = "idle" THEN "new"
              ELSE IF phase[r] \in InFlight THEN "running"
              ELSE phase[r]

KeptOf(r) == {o \in Outputs : \E file \in disk : file.path = OutputPath(r, o)}

(* Both modules mean the same outcomes.                                    *)
LEMMA SameNames ==
  /\ Contract!Outcomes = Outcomes /\ Contract!Refusals = Refusals
  /\ Contract!Removing = Removing /\ Contract!Spilling = Spilling /\ Contract!Keeping = Keeping
  BY DEF Contract!Outcomes, Outcomes, Contract!StatusOf, StatusOf, Contract!Refusals, Refusals,
         Contract!Removing, Removing, Contract!Spilling, Spilling, Contract!Keeping, Keeping

(* What a step does with the files under outputs/ is all the contract sees *)
(* of the disk.                                                            *)
LEMMA SameOutputs ==
  ASSUME disk \subseteq UploadFiles \cup OutputFiles,
         disk' \subseteq UploadFiles \cup OutputFiles,
         \A file \in OutputFiles : file \in disk <=> file \in disk'
  PROVE  \A r : KeptOf(r)' = KeptOf(r)
<1> SUFFICES ASSUME NEW r, NEW o \in Outputs
             PROVE  (\E file \in disk : file.path = OutputPath(r, o))
                      <=> (\E file \in disk' : file.path = OutputPath(r, o))
  BY DEF KeptOf
<1>1. \A file \in disk \cup disk' : file.path = OutputPath(r, o) => file \in OutputFiles
  BY UploadsNotOutputs
<1>2. QED
  BY <1>1

(* The request never ran: of the outputs, nothing changes.                 *)
LEMMA AbandonOutputs ==
  ASSUME TypeOK, TypeOK', NEW r \in Requests, NEW k \in Nat, NEW left \in SUBSET UploadFiles,
         NEW given \in SUBSET Fields, NEW naming \in Namings,
         Abandon(r, k, given, PathsOf(r, given, naming), left)
  PROVE  \A s : KeptOf(s)' = KeptOf(s)
<1>1. \A p \in Removed(k, PathsOf(r, given, naming), left) : p \in UploadPaths \cup {NoPath}
  BY UploadPathTyped, OutputFileFields DEF Removed, FirstPaths
<1>2. \A file \in OutputFiles : file.path \notin UploadPaths \cup {NoPath}
  BY OutputFileFields, PathsDistinct DEF UploadPaths
<1>3. \A file \in disk : file \in OutputFiles => file \in disk'
  BY <1>1, <1>2, AbandonFiles
<1>4. disk' \subseteq disk \cup left
  BY AbandonFiles
<1>5. \A file \in OutputFiles : file \in disk <=> file \in disk'
  BY <1>3, <1>4, KindsDisjoint
<1>6. QED
  BY <1>5, SameOutputs DEF TypeOK

(* The `finally`, with what the branch before it removed.                  *)
LEMMA FinallyOutputs ==
  ASSUME TypeOK, NEW r \in Requests, NEW lost \in SUBSET OutputPathsOf(r), Finally(r, lost)
  PROVE  \A s : KeptOf(s)' = {o \in KeptOf(s) : OutputPath(s, o) \notin lost}
<1> SUFFICES ASSUME NEW s, NEW o \in Outputs
             PROVE  (\E file \in disk' : file.path = OutputPath(s, o))
                      <=> /\ \E file \in disk : file.path = OutputPath(s, o)
                          /\ OutputPath(s, o) \notin lost
  BY DEF KeptOf
<1>1. OutputPath(s, o) \notin UploadPathsOf(r)
  BY PathsDistinct DEF TypeOK, UploadPathsOf, UploadPaths
<1>2. disk' = {file \in disk : file.path \notin UploadPathsOf(r) \cup lost}
  BY DEF Finally, Unlinked
<1>3. QED
  BY <1>1, <1>2

(* The end of a handler ends the call, and leaves what the outcome says.   *)
LEMMA EndsCall ==
  ASSUME TypeOK, NEW r \in Requests, phase[r] \in InFlight,
         NEW outcome \in Removing \cup Spilling \cup Keeping,
         NEW lost \in SUBSET OutputPathsOf(r), Finally(r, lost), Answer(r, outcome),
         outcome \in Removing => lost = OutputPathsOf(r),
         outcome \in Keeping => lost = {},
         outcome \in Spilling => \E o \in KeptOf(r) : OutputPath(r, o) \notin lost
  PROVE  Contract!End(r, outcome)
<1> DEFINE St == [s \in Requests |-> StateOf(s)]
           Kept == [s \in Requests |-> KeptOf(s)]
           left == {o \in KeptOf(r) : OutputPath(r, o) \notin lost}
<1>1. outcome \in Outcomes /\ outcome \notin InFlight \cup {"idle"}
  BY OutcomeNames DEF Removing, Spilling, Keeping, InFlight
<1>2. StateOf(r) = "running"
  BY DEF StateOf, InFlight
<1>3. St' = [St EXCEPT ![r] = outcome]
  BY <1>1 DEF Answer, StateOf, TypeOK
<1>4. Kept' = [Kept EXCEPT ![r] = left]
  <2>1. KeptOf(r)' = left
    BY FinallyOutputs
  <2>2. ASSUME NEW s \in Requests, s # r PROVE KeptOf(s)' = KeptOf(s)
    <3>1. \A o : OutputPath(s, o) \notin lost
      BY <2>2, PathsDistinct DEF OutputPathsOf
    <3>2. KeptOf(s)' = {o \in KeptOf(s) : OutputPath(s, o) \notin lost}
      BY FinallyOutputs
    <3>3. QED
      BY <3>1, <3>2
  <2>3. QED
    BY <2>1, <2>2
<1>5. left \in Contract!Leftovers(outcome, KeptOf(r))
  <2>1. outcome \in Removing => left = {}
    BY DEF OutputPathsOf, KeptOf
  <2>2. outcome \in Keeping => left = KeptOf(r)
    OBVIOUS
  <2>3. outcome \in Spilling => left # {}
    OBVIOUS
  <2> HIDE DEF left
  <2>4. left \in SUBSET KeptOf(r)
    BY DEF left
  <2>5. QED
    BY <2>1, <2>2, <2>3, <2>4, SameNames DEF Contract!Leftovers
<1>6. St[r] = "running" /\ Kept[r] = KeptOf(r)
  BY <1>2
<1> HIDE DEF left, St, Kept
<1>7. /\ St[r] = "running"
      /\ St' = [St EXCEPT ![r] = outcome]
      /\ \E rest \in Contract!Leftovers(outcome, Kept[r]) : Kept' = [Kept EXCEPT ![r] = rest]
  BY <1>3, <1>4, <1>5, <1>6
<1>8. QED
  BY <1>7, SameNames DEF Contract!End, St, Kept, StateOf, KeptOf

(* Nothing of a request that has not begun to run its command, or whose    *)
(* answer waited for it, can be writing.                                   *)
LEMMA WritersKnown ==
  ASSUME TypeOK, ProcessInv, NEW r \in Requests, Alive(r)
  PROVE  StateOf(r) \in {"running"} \cup Contract!Lingering
  BY OutcomeNames, ExecutorAssumption
     DEF ProcessInv, Silent, Alive, StateOf, TypeOK, InFlight, Contract!Lingering

(* A removal that raised leaves the output it stopped at.                  *)
LEMMA StopLeavesOutput ==
  ASSUME NEW r \in Requests, ~Removable(r)
  PROVE  \E o \in KeptOf(r) : OutputPath(r, o) \notin RemovedFirst(r)
<1>1. PICK o \in Outputs : File(OutputPath(r, o), r, o, "folder") \in disk
  BY DEF Removable, Unremovable
<1>2. o \in KeptOf(r)
  BY <1>1 DEF KeptOf, File
<1>3. o <= o
  BY ExecutorAssumption
<1>4. OutputPath(r, o) \notin RemovedFirst(r)
  BY <1>1, <1>3, PathsDistinct DEF RemovedFirst, Unremovable
<1>5. QED
  BY <1>2, <1>4

(* Every call of execute_endpoint keeps the contract of Execution: it is   *)
(* refused, or runs and ends exactly once, and its output files go or stay *)
(* with the way it ended, however the calls, their children and a crash of *)
(* the server interleave.                                                  *)
THEOREM KeepsContract == Spec => Contract!Spec
<1> DEFINE St == [r \in Requests |-> StateOf(r)]
           Kept == [r \in Requests |-> KeptOf(r)]
<1>1. Init => Contract!Init
  BY DEF Init, Contract!Init
<1>2. TypeOK /\ TypeOK' /\ ProcessInv /\ Next => Contract!Next \/ (St' = St /\ Kept' = Kept)
  <2> SUFFICES ASSUME TypeOK, TypeOK', ProcessInv, Next
               PROVE  Contract!Next \/ (St' = St /\ Kept' = Kept)
    OBVIOUS
  <2>1. ASSUME NEW r \in Requests, NEW outcome \in Refusals,
               phase[r] = "idle", Answer(r, outcome), \A s : KeptOf(s)' = KeptOf(s)
        PROVE  \E refusal \in Refusals : Contract!Refuse(r, refusal)
    <3>1. St[r] = "new" /\ St' = [St EXCEPT ![r] = outcome] /\ Kept' = Kept
      BY <2>1 DEF StateOf, Answer, TypeOK, InFlight, Refusals
    <3>2. QED
      BY <3>1, SameNames DEF Contract!Refuse, StateOf, KeptOf
  <2>2. ASSUME NEW r \in Requests, Arrive(r)
        PROVE  \/ \E refusal \in Refusals : Contract!Refuse(r, refusal)
               \/ Contract!Accept(r)
    <3>1. CASE BeginOutputsFail(r)
      <4>1. \A s : KeptOf(s)' = KeptOf(s)
        BY <3>1 DEF BeginOutputsFail, KeptOf
      <4>2. QED
        BY <2>1, <3>1, <4>1 DEF BeginOutputsFail, Refusals
    <3>2. CASE BeginRejected(r)
      <4>1. PICK given \in SUBSET Fields, naming \in Namings, k \in 0..NumUploads :
              Abandon(r, k, given, PathsOf(r, given, naming), {})
        BY <3>2 DEF BeginRejected
      <4>2. k \in Nat /\ {} \in SUBSET UploadFiles
        BY ExecutorAssumption
      <4>3. \A s : KeptOf(s)' = KeptOf(s)
        BY <4>1, <4>2, AbandonOutputs
      <4>4. QED
        BY <2>1, <3>2, <4>3 DEF BeginRejected, Refusals
    <3>3. CASE BeginBreaks(r)
      <4>1. PICK given \in SUBSET Fields, naming \in Namings, k \in Nat,
                 left \in SUBSET UploadFiles :
              Abandon(r, k, given, PathsOf(r, given, naming), left)
        BY <3>3, BreaksAbandon
      <4>2. \A s : KeptOf(s)' = KeptOf(s)
        BY <4>1, AbandonOutputs
      <4>3. QED
        BY <2>1, <3>3, <4>2 DEF BeginBreaks, Refusals
    <3>4. CASE Begin(r)
      <4>1. PICK given \in SUBSET Fields, naming \in Namings :
              disk' = Put(disk, Written(r, given, PathsOf(r, given, naming)))
        BY <3>4 DEF Begin
      <4>2. /\ Written(r, given, PathsOf(r, given, naming)) \subseteq UploadFiles
            /\ \A file \in Written(r, given, PathsOf(r, given, naming)) : file.path \in UploadPaths
        BY WrittenTyped, UploadPathTyped, OutputFileFields
      <4>3. \A file \in OutputFiles : file.path \notin UploadPaths /\ file \notin UploadFiles
        BY KindsDisjoint, OutputFileFields, PathsDistinct DEF UploadPaths
      <4>4. \A file \in OutputFiles : file \in disk <=> file \in disk'
        <5>1. disk' \subseteq disk \cup Written(r, given, PathsOf(r, given, naming))
          BY <4>1 DEF Put, Unlinked
        <5>2. \A file \in disk : file.path \notin UploadPaths => file \in disk'
          BY <4>1, <4>2, PutFiles
        <5>3. QED
          BY <4>2, <4>3, <5>1, <5>2
      <4>5. \A s : KeptOf(s)' = KeptOf(s)
        BY <4>4, SameOutputs DEF TypeOK
      <4>6. St[r] = "new" /\ St' = [St EXCEPT ![r] = "running"] /\ Kept' = Kept
        BY <3>4, <4>5 DEF Begin, StateOf, Answer, TypeOK, InFlight
      <4>7. QED
        BY <4>6 DEF Contract!Accept, StateOf, KeptOf
    <3>5. QED
      BY <2>2, <3>1, <3>2, <3>3, <3>4 DEF Arrive
  <2>3. ASSUME NEW r \in Requests, NEW o \in Outputs, CommandWrites(r, o)
        PROVE  Contract!Produce(r)
    <3>1. PICK copy \in {"whole", "folder"} :
            disk' = Put(disk, {File(OutputPath(r, o), r, o, copy)})
      BY <2>3 DEF CommandWrites
    <3>2. File(OutputPath(r, o), r, o, copy).path = OutputPath(r, o)
      BY DEF File
    <3>3. \A s, p : (\E file \in disk' : file.path = OutputPath(s, p))
                     <=> \/ \E file \in disk : file.path = OutputPath(s, p)
                         \/ s = r /\ p = o
      BY <3>1, <3>2, PathsDistinct DEF Put, Unlinked
    <3>4. \A s : KeptOf(s)' = KeptOf(s) \cup (IF s = r THEN {o} ELSE {})
      BY <3>3 DEF KeptOf
    <3>5. Kept' = [Kept EXCEPT ![r] = @ \cup {o}]
      BY <3>4
    <3>6. St' = St /\ St[r] \in {"running"} \cup Contract!Lingering
      BY <2>3, WritersKnown DEF CommandWrites, StateOf
    <3>7. QED
      BY <3>5, <3>6 DEF Contract!Produce, StateOf, KeptOf
  <2>4. ASSUME NEW r \in Requests, LaunchFails(r) \/ RunFails(r) \/ ParseFails(r) \/ Reap(r)
        PROVE  \E outcome \in Removing : Contract!End(r, outcome)
    <3>1. PICK outcome \in Removing : Answer(r, outcome) /\ Finally(r, OutputPathsOf(r))
      BY <2>4 DEF LaunchFails, RunFails, ParseFails, Reap, Removing
    <3>2. phase[r] \in InFlight
      BY <2>4 DEF LaunchFails, RunFails, ParseFails, Reap, Communicated, InFlight
    <3>3. outcome \notin Keeping \cup Spilling
      BY <3>1 DEF Removing, Keeping, Spilling
    <3>4. QED
      BY <3>1, <3>2, <3>3, EndsCall
  <2>5. ASSUME NEW r \in Requests,
               ParseCrashes(r) \/ RunSucceeds(r) \/ TimeoutKillMisses(r) \/ Cancel(r)
        PROVE  \E outcome \in Keeping : Contract!End(r, outcome)
    <3>1. PICK outcome \in Keeping : Answer(r, outcome) /\ Finally(r, {})
      BY <2>5 DEF ParseCrashes, RunSucceeds, TimeoutKillMisses, Cancel, Keeping
    <3>2. phase[r] \in InFlight
      BY <2>5 DEF ParseCrashes, RunSucceeds, TimeoutKillMisses, Cancel, Communicated, InFlight
    <3>3. outcome \notin Removing \cup Spilling /\ {} \in SUBSET OutputPathsOf(r)
      BY <3>1 DEF Removing, Keeping, Spilling
    <3>4. QED
      BY <3>1, <3>2, <3>3, EndsCall
  <2>6. ASSUME NEW r \in Requests, RemovalFails(r)
        PROVE  Contract!End(r, "unlink_failed")
    <3>1. /\ "unlink_failed" \in Spilling
          /\ "unlink_failed" \notin Removing \cup Keeping
          /\ phase[r] \in InFlight
      BY <2>6 DEF RemovalFails, Communicated, InFlight, Removing, Keeping, Spilling
    <3>2. QED
      BY <2>6, <3>1, StopLeavesOutput, RemovedFirstTyped, EndsCall DEF RemovalFails
  <2>7. ASSUME Crash PROVE Contract!Crash
    <3>1. \E r \in Requests : St[r] = "running"
      BY <2>7 DEF Crash, StateOf, InFlight
    <3>2. St' = [r \in Requests |-> IF St[r] = "running" THEN "lost" ELSE St[r]]
      BY <2>7, OutcomeNames DEF Crash, StateOf, InFlight, TypeOK
    <3>3. Kept' = Kept
      BY <2>7 DEF Crash, KeptOf
    <3>4. QED
      BY <3>1, <3>2, <3>3 DEF Contract!Crash, StateOf, KeptOf
  <2>8. ASSUME UNCHANGED disk, \A r \in Requests : StateOf(r)' = StateOf(r)
        PROVE  St' = St /\ Kept' = Kept
    BY <2>8 DEF KeptOf
  <2>9. ASSUME NEW r \in Requests,
               Launch(r) \/ TimeoutKills(r) \/ CommandForks(r) \/ CommandExits(r) \/ HelperExits(r)
        PROVE  UNCHANGED disk /\ \A s \in Requests : StateOf(s)' = StateOf(s)
    BY <2>9 DEF Launch, TimeoutKills, CommandForks, CommandExits, HelperExits, StateOf,
                InFlight, TypeOK
  <2>10. ASSUME Quiescent PROVE St' = St /\ Kept' = Kept
    BY <2>8, <2>10 DEF Quiescent, vars, StateOf
  <2>11. Refusals \cup Removing \cup Keeping \cup {"unlink_failed"} \subseteq Outcomes
    BY OutcomeNames DEF Refusals, Removing, Keeping
  <2>12. QED
    BY <2>2, <2>3, <2>4, <2>5, <2>6, <2>7, <2>8, <2>9, <2>10, <2>11, SameNames
       DEF Next, Handle, Command, Contract!Next
<1>3. TypeOK /\ TypeOK' /\ ProcessInv /\ [Next]_vars => [Contract!Next]_(Contract!vars)
  <2>1. ASSUME UNCHANGED vars PROVE St' = St /\ Kept' = Kept
    BY <2>1 DEF vars, StateOf, KeptOf
  <2>2. QED
    BY <1>2, <2>1 DEF Contract!vars, StateOf, KeptOf
<1>4. QED
  BY <1>1, <1>3, TypeCorrect, ProcessesCorrect, PTL DEF Spec, Contract!Spec
=============================================================================
