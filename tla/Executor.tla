------------------------------ MODULE Executor ------------------------------
(***************************************************************************)
(* executor.py: what execute_endpoint does with the files and the child    *)
(* process of each request.  All requests run on one asyncio event loop,   *)
(* so a handler step is the code between two awaits; the children, and the *)
(* processes a child starts in its turn, run beside the loop at any time.  *)
(*                                                                         *)
(* One endpoint is modelled.  Its uploads and outputs are numbered in      *)
(* configuration order, because preparing the former and removing the      *)
(* latter can stop half way.                                               *)
(***************************************************************************)
EXTENDS Integers, Outcomes

CONSTANTS Requests,     \* the requests that arrive for the endpoint
          NumUploads,   \* how many uploads the endpoint declares
          Required,     \* the uploads with required: true
          Templated,    \* the uploads with a name_template
          Names,        \* what a name_template can render to
          Outputs,      \* the endpoint's output_files
          WaitForPipes  \* does the loop hold on to an ended child until its
                        \* pipes are closed?  uvloop, which the image has,
                        \* does not; asyncio's own, before 3.12, did

Fields == 1..NumUploads

ASSUME ExecutorAssumption ==
  /\ NumUploads \in Nat
  /\ Required \subseteq Fields
  /\ Templated \subseteq Fields
  /\ Outputs \subseteq Nat
  /\ WaitForPipes \in BOOLEAN

VARIABLES phase,        \* where each request's execute_endpoint stands
          upload_paths, \* upload_paths[r][f]: where upload f of r was written
          open,         \* the uploads of r whose spooled file is still open
          disk,         \* the files under uploads/ and outputs/
          proc,         \* the child of r
          helper        \* does a process started by the child hold its pipes?

vars == <<phase, upload_paths, open, disk, proc, helper>>

-----------------------------------------------------------------------------
(* Paths.  An unnamed upload and every output get a 256-bit random token,  *)
(* taken here as never repeating; a templated upload gets what its         *)
(* template renders to, whoever asks.                                      *)

NoPath == <<>>    \* the "" bound to an optional upload that was left out

(* Mutation: a file name of the upload's own, without the random token.    *)
TokenPath_fixed(r, f) == <<"token", f, f>>

TokenPath(r, f) == <<"token", r, f>>

NamePath(n) == <<"name", n, n>>

OutputPath(r, o) == <<"output", r, o>>

Namings == [Templated -> Names]

UploadPath(r, f, naming) ==
  IF f \in Templated THEN NamePath(naming[f]) ELSE TokenPath(r, f)

PathsOf(r, given, naming) ==
  [f \in Fields |-> IF f \in given THEN UploadPath(r, f, naming) ELSE NoPath]

UploadPaths ==
  {TokenPath(r, f) : r \in Requests, f \in Fields} \cup {NamePath(n) : n \in Names}

(* A file: where, written for which upload (or output) of which request,   *)
(* and whether the copy was completed; for an output, also whether the     *)
(* command made a directory of it.                                         *)
File(path, r, part, copy) ==
  [path |-> path, by |-> r, part |-> part, copy |-> copy]

UploadFiles ==
  [path : UploadPaths, by : Requests, part : Fields, copy : {"whole", "torn"}]

OutputFiles ==
  {File(OutputPath(r, o), r, o, copy) :
     r \in Requests, o \in Outputs, copy \in {"whole", "folder"}}

-----------------------------------------------------------------------------
InFlight == {"launch", "communicate", "reap"}

Init ==
  /\ phase = [r \in Requests |-> "idle"]
  /\ upload_paths = [r \in Requests |-> [f \in Fields |-> NoPath]]
  /\ open = [r \in Requests |-> {}]
  /\ disk = {}
  /\ proc = [r \in Requests |-> "none"]
  /\ helper = [r \in Requests |-> FALSE]

(* Mutation: an outcome nobody lists.                                      *)
Answer_unlisted(r, outcome) == phase' = [phase EXCEPT ![r] = "answered"]

Answer(r, outcome) == phase' = [phase EXCEPT ![r] = outcome]

(* unlink(missing_ok=True) on every path but "" and those of directories.  *)
Unlinked(files, paths) == {file \in files : file.path \notin paths}

(* Mutation: the clean-up goes by what every request has recorded.         *)
UploadPathsOf_all(r) == {upload_paths[s][f] : s \in Requests, f \in Fields}

UploadPathsOf(r) == {upload_paths[r][f] : f \in Fields}

(* Mutation: the clean-up empties the output directory.                    *)
OutputPathsOf_all(r) == {OutputPath(s, o) : s \in Requests, o \in Outputs}

OutputPathsOf(r) == {OutputPath(r, o) : o \in Outputs}

(* An output whose unlink raises, and those removed before the first one.  *)
Unremovable(r, o) == File(OutputPath(r, o), r, o, "folder") \in disk

Removable(r) == \A o \in Outputs : ~Unremovable(r, o)

RemovedFirst(r) ==
  {OutputPath(r, o) : o \in {p \in Outputs : \A q \in Outputs : q <= p => ~Unremovable(r, q)}}

(* Opening for writing replaces what the path held.                        *)
Put(files, new) == Unlinked(files, {file.path : file \in new}) \cup new

(* The uploads in fs as _write_upload leaves them: a later upload replaces *)
(* an earlier one of the same name.                                        *)
Written(r, fs, paths) ==
  {File(paths[f], r, f, "whole") :
     f \in {g \in fs : \A h \in fs : paths[h] = paths[g] => h <= g}}

(* Mutation: the `finally` only removes the uploads.                       *)
Finally_unclosed(r, lost) ==
  /\ disk' = Unlinked(disk, UploadPathsOf(r) \cup lost)
  /\ UNCHANGED open

(* The `finally` of execute_endpoint: close every handle, unlink every     *)
(* upload.  `lost` are the further paths the branch taken has removed.     *)
Finally(r, lost) ==
  /\ open' = [open EXCEPT ![r] = {}]
  /\ disk' = Unlinked(disk, UploadPathsOf(r) \cup lost)

-----------------------------------------------------------------------------
(* Before the first await.                                                 *)

(* An output directory that cannot be made, or a download path that cannot *)
(* be formatted: raised before any try block, so nothing is closed.        *)
BeginOutputsFail(r) ==
  /\ phase[r] = "idle"
  /\ Outputs # {}
  /\ \E given \in SUBSET Fields : open' = [open EXCEPT ![r] = given]
  /\ Answer(r, "outputs_failed")
  /\ UNCHANGED <<upload_paths, disk, proc, helper>>

(* upload_paths when only the first k uploads have been handled.           *)
FirstPaths(k, paths) == [f \in Fields |-> IF f <= k THEN paths[f] ELSE NoPath]

(* Mutation: the except clause forgets the uploads already written.        *)
Abandon_forgets(r, k, given, paths, left) ==
  /\ upload_paths' = [upload_paths EXCEPT ![r] = FirstPaths(k, paths)]
  /\ disk' = Put(Put(disk, Written(r, {f \in given : f <= k}, paths)), left)
  /\ open' = [open EXCEPT ![r] = {}]
  /\ UNCHANGED <<proc, helper>>

(* The first k uploads were handled, then an exception reached the except  *)
(* clause: the handles are closed and the paths recorded so far removed.   *)
(* left is what the failing _write_upload itself left behind.              *)
Abandon(r, k, given, paths, left) ==
  /\ upload_paths' = [upload_paths EXCEPT ![r] = FirstPaths(k, paths)]
  /\ LET files == Put(disk, Written(r, {f \in given : f <= k}, paths))
     IN  disk' = Unlinked(Put(files, left), {FirstPaths(k, paths)[f] : f \in Fields})
  /\ open' = [open EXCEPT ![r] = {}]
  /\ UNCHANGED <<proc, helper>>

(* 400: a bad override (before the first upload), a missing required       *)
(* upload, a name outside the safe alphabet, or a bad flag (build_command).*)
BeginRejected(r) ==
  /\ phase[r] = "idle"
  /\ \E given \in SUBSET Fields, naming \in Namings, k \in 0..NumUploads :
       /\ Required \cap 1..k \subseteq given
       /\ \/ k \in {0, NumUploads}
          \/ k + 1 \in Required \ given
          \/ k + 1 \in Templated \cap given
       /\ Abandon(r, k, given, PathsOf(r, given, naming), {})
  /\ Answer(r, "rejected")

(* The file that upload f is being copied to, if it is one.                *)
Torn(r, f, paths) == {File(paths[g], r, g, "torn") : g \in {f} \cap Fields}

(* Upload k + 1 cannot be written: when the copy stops after open("wb"),   *)
(* the file is there and its path was never recorded.  Or all uploads are  *)
(* written, and str.format raises something other than a KeyError for an   *)
(* argument ({} or {a.b}).                                                 *)
BeginBreaks(r) ==
  /\ phase[r] = "idle"
  /\ \E given \in SUBSET Fields, naming \in Namings, k \in 0..NumUploads :
       /\ Required \cap 1..k \subseteq given
       /\ k = NumUploads \/ k + 1 \in given
       /\ LET paths == PathsOf(r, given, naming)
          IN  \E left \in {{}, Torn(r, k + 1, paths)} : Abandon(r, k, given, paths, left)
  /\ Answer(r, "prep_failed")

Begin(r) ==
  /\ phase[r] = "idle"
  /\ \E given \in SUBSET Fields, naming \in Namings :
       /\ Required \subseteq given
       /\ LET paths == PathsOf(r, given, naming)
          IN  /\ upload_paths' = [upload_paths EXCEPT ![r] = paths]
              /\ disk' = Put(disk, Written(r, given, paths))
       /\ open' = [open EXCEPT ![r] = given]
  /\ Answer(r, "launch")
  /\ UNCHANGED <<proc, helper>>

-----------------------------------------------------------------------------
(* The command.                                                            *)

Launch(r) ==
  /\ phase[r] = "launch"
  /\ phase' = [phase EXCEPT ![r] = "communicate"]
  /\ proc' = [proc EXCEPT ![r] = "running"]
  /\ UNCHANGED <<upload_paths, open, disk, helper>>

(* An OSError, whose two clauses remove the outputs; or an argument that   *)
(* no process can have (a NUL byte), which passes by them, but no output   *)
(* is there yet.                                                           *)
LaunchFails(r) ==
  /\ phase[r] = "launch"
  /\ Finally(r, OutputPathsOf(r))
  /\ Answer(r, "not_launched")
  /\ UNCHANGED <<upload_paths, proc, helper>>

Alive(r) == proc[r] = "running" \/ helper[r]

(* The child, or a process it started, makes a file or a directory where   *)
(* it was told to put an output; its inputs it only reads.                 *)
CommandWrites(r, o) ==
  /\ Alive(r)
  /\ \E copy \in {"whole", "folder"} :
       disk' = Put(disk, {File(OutputPath(r, o), r, o, copy)})
  /\ UNCHANGED <<phase, upload_paths, open, proc, helper>>

(* The child starts a process that inherits stdout and stderr.             *)
CommandForks(r) ==
  /\ proc[r] = "running"
  /\ helper' = [helper EXCEPT ![r] = TRUE]
  /\ UNCHANGED <<phase, upload_paths, open, disk, proc>>

CommandExits(r) ==
  /\ proc[r] = "running"
  /\ \E code \in {"ok", "failed"} : proc' = [proc EXCEPT ![r] = code]
  /\ UNCHANGED <<phase, upload_paths, open, disk, helper>>

HelperExits(r) ==
  /\ helper[r]
  /\ helper' = [helper EXCEPT ![r] = FALSE]
  /\ UNCHANGED <<phase, upload_paths, open, disk, proc>>

-----------------------------------------------------------------------------
(* The end of the command.  communicate() returns when the child is gone   *)
(* and nobody holds its stdout and stderr any more.                        *)

Communicated(r) == phase[r] = "communicate" /\ ~Alive(r)

(* Mutation: a failed command's outputs are kept.                          *)
RunFails_keeps(r) ==
  /\ Communicated(r)
  /\ proc[r] = "failed"
  /\ Removable(r)
  /\ Finally(r, {})
  /\ Answer(r, "failed")
  /\ UNCHANGED <<upload_paths, proc, helper>>

RunFails(r) ==
  /\ Communicated(r)
  /\ proc[r] = "failed"
  /\ Removable(r)
  /\ Finally(r, OutputPathsOf(r))
  /\ Answer(r, "failed")
  /\ UNCHANGED <<upload_paths, proc, helper>>

ParseFails(r) ==
  /\ Communicated(r)
  /\ proc[r] = "ok"
  /\ Removable(r)
  /\ Finally(r, OutputPathsOf(r))
  /\ Answer(r, "unparsed")
  /\ UNCHANGED <<upload_paths, proc, helper>>

(* re.error, RecursionError: not an OutputParseError, so nothing catches it. *)
ParseCrashes(r) ==
  /\ Communicated(r)
  /\ proc[r] = "ok"
  /\ Finally(r, {})
  /\ Answer(r, "parser_crash")
  /\ UNCHANGED <<upload_paths, proc, helper>>

RunSucceeds(r) ==
  /\ Communicated(r)
  /\ proc[r] = "ok"
  /\ Finally(r, {})
  /\ Answer(r, "ok")
  /\ UNCHANGED <<upload_paths, proc, helper>>

(* Mutation: nobody kills the child.                                       *)
TimeoutKills_spares(r) ==
  /\ phase[r] = "communicate"
  /\ phase' = [phase EXCEPT ![r] = "reap"]
  /\ UNCHANGED <<upload_paths, open, disk, proc, helper>>

(* The wait_for timer fires, also when the child has exited meanwhile but  *)
(* communicate() has not returned yet.                                     *)
TimeoutKills(r) ==
  /\ phase[r] = "communicate"
  /\ phase' = [phase EXCEPT ![r] = "reap"]
  /\ proc' = [proc EXCEPT ![r] = IF @ = "running" THEN "failed" ELSE @]
  /\ UNCHANGED <<upload_paths, open, disk, helper>>

(* The child ended by itself and the loop has let go of it when the timer  *)
(* fires: kill() raises, outside the try that expects ProcessLookupError.  *)
TimeoutKillMisses(r) ==
  /\ phase[r] = "communicate"
  /\ proc[r] # "running"
  /\ WaitForPipes => ~helper[r]
  /\ Finally(r, {})
  /\ Answer(r, "kill_missed")
  /\ UNCHANGED <<upload_paths, proc, helper>>

(* Mutation: a loop whose wait() always awaits the pipes.                  *)
Reap_waits(r) ==
  /\ phase[r] = "reap"
  /\ ~helper[r]
  /\ Removable(r)
  /\ Finally(r, OutputPathsOf(r))
  /\ Answer(r, "timed_out")
  /\ UNCHANGED <<upload_paths, proc, helper>>

Reap(r) ==
  /\ phase[r] = "reap"
  /\ WaitForPipes => ~helper[r]
  /\ Removable(r)
  /\ Finally(r, OutputPathsOf(r))
  /\ Answer(r, "timed_out")
  /\ UNCHANGED <<upload_paths, proc, helper>>

(* The same three ends, when an unlink of theirs raises: the rest of the   *)
(* loop is skipped, and the exception takes the place of the answer.       *)
RemovalFails(r) ==
  /\ \/ Communicated(r)    \* it failed, or its output could not be parsed
     \/ phase[r] = "reap" /\ (WaitForPipes => ~helper[r])
  /\ ~Removable(r)
  /\ Finally(r, RemovedFirst(r))
  /\ Answer(r, "unlink_failed")
  /\ UNCHANGED <<upload_paths, proc, helper>>

(* uvicorn cancels the task when the drain period is over.  The exception  *)
(* is no Exception: only the `finally` runs, and the child is left alone.  *)
Cancel(r) ==
  /\ phase[r] \in InFlight
  /\ Finally(r, {})
  /\ Answer(r, "cancelled")
  /\ UNCHANGED <<upload_paths, proc, helper>>

(* The server process dies with requests in flight: nothing is answered,   *)
(* unlinked or deleted, then or at the next start.  Its children die with  *)
(* it in a container, and stay otherwise.                                  *)
Crash ==
  /\ \E r \in Requests : phase[r] \in InFlight
  /\ phase' = [r \in Requests |-> IF phase[r] \in InFlight THEN "lost" ELSE phase[r]]
  /\ open' = [r \in Requests |-> {}]
  /\ \/ UNCHANGED <<proc, helper>>
     \/ /\ proc' = [r \in Requests |-> IF proc[r] = "running" THEN "failed" ELSE proc[r]]
        /\ helper' = [r \in Requests |-> FALSE]
  /\ UNCHANGED <<upload_paths, disk>>

(* No request is left to handle and every process is gone.                 *)
Quiescent ==
  /\ \A r \in Requests : phase[r] \in Outcomes \cup {"lost"} /\ ~Alive(r)
  /\ UNCHANGED vars

-----------------------------------------------------------------------------
Arrive(r) == BeginOutputsFail(r) \/ BeginRejected(r) \/ BeginBreaks(r) \/ Begin(r)

Handle(r) ==
  \/ Launch(r) \/ LaunchFails(r)
  \/ RunFails(r) \/ ParseFails(r) \/ ParseCrashes(r) \/ RunSucceeds(r)
  \/ TimeoutKills(r) \/ TimeoutKillMisses(r) \/ Reap(r) \/ RemovalFails(r)

Command(r) ==
  \/ \E o \in Outputs : CommandWrites(r, o)
  \/ CommandForks(r) \/ CommandExits(r) \/ HelperExits(r)

Next ==
  \/ \E r \in Requests : Arrive(r) \/ Handle(r) \/ Command(r) \/ Cancel(r)
  \/ Crash
  \/ Quiescent

(* The event loop runs every ready task, and the timer of wait_for always  *)
(* fires; nothing makes a command, or what it started, end.                *)
Fairness == \A r \in Requests : WF_vars(Handle(r))

Spec == Init /\ [][Next]_vars /\ Fairness

-----------------------------------------------------------------------------
(* Properties.                                                             *)

(* The types of the variables.                                             *)
TypeOK ==
  /\ phase \in [Requests -> {"idle", "lost"} \cup InFlight \cup Outcomes]
  /\ upload_paths \in [Requests -> [Fields -> UploadPaths \cup {NoPath}]]
  /\ open \in [Requests -> SUBSET Fields]
  /\ disk \subseteq UploadFiles \cup OutputFiles
  /\ proc \in [Requests -> {"none", "running", "ok", "failed"}]
  /\ helper \in [Requests -> BOOLEAN]

Intact(r, f) ==
  phase[r] \in InFlight /\ upload_paths[r][f] # NoPath
    => File(upload_paths[r][f], r, f, "whole") \in disk

(* Until the request is answered, whatever other requests, their clean-ups *)
(* and the leftovers of a crash do, the command finds under each           *)
(* placeholder of an upload without name_template the complete file its    *)
(* own client sent.                                                        *)
InputsIntact == \A r \in Requests, f \in Fields \ Templated : Intact(r, f)

(* An upload with a name_template is lost to its command only in a step of *)
(* a request whose own upload has that very name: it writes there now, or  *)
(* has recorded the path and removes it.                                   *)
NamedLossesHaveRival ==
  [][\A r \in Requests, f \in Templated :
       /\ phase[r] \in InFlight /\ phase'[r] \in InFlight /\ upload_paths[r][f] # NoPath
       /\ Intact(r, f) /\ ~Intact(r, f)'
       => \E s \in Requests \ {r} :
           /\ phase'[s] # phase[s]
           /\ \/ \E g \in Fields : upload_paths'[s][g] = upload_paths[r][f]
              \/ \E file \in disk' : file.path = upload_paths[r][f] /\ file.by = s]_vars

(* No completely written upload outlives the answer to its request; only a *)
(* crash of the server leaves one behind.                                  *)
UploadsHaveOwner ==
  \A file \in disk : file \in UploadFiles /\ file.copy = "whole" =>
    phase[file.by] \in InFlight \cup {"lost"}

(* The outcomes after which the code has deleted the output files and no   *)
(* process that shares the command's pipes is left to write them again.    *)
CleanOutcomes ==
  {"rejected", "outputs_failed", "prep_failed", "not_launched", "failed", "unparsed"}
    \cup (IF WaitForPipes THEN {"timed_out"} ELSE {})

(* After such an answer no output file of the request exists, whatever     *)
(* its command and the processes it started did in the meantime.           *)
FailedRunsLeaveNoOutput ==
  \A file \in disk : file \in OutputFiles => phase[file.by] \notin CleanOutcomes

(* README: output files are "deleted on failed command execution or failed *)
(* output parsing".  A parser exception of another class keeps them.       *)
UnparsedRunsLeaveNoOutput ==
  \A file \in disk : file \in OutputFiles => phase[file.by] # "parser_crash"

(* executor.py, at the clause for the timeout: kill and reap the child,    *)
(* "then surface 504".  Not when the child has ended by itself just before *)
(* the timer fired and communicate() has not returned yet, be it that the  *)
(* loop has not come to it or that something else holds the pipes.         *)
TimeoutIs504 ==
  \A r \in Requests : phase[r] \in {"timed_out", "kill_missed"} => StatusOf[phase[r]] = 504

(* Except when the server is stopping, an answer means that the child has  *)
(* ended, and, where the loop waits for the pipes, what it started too.    *)
AnsweredMeansReaped ==
  \A r \in Requests :
    phase[r] \in Outcomes \ {"cancelled"} =>
      proc[r] # "running" /\ (WaitForPipes => ~helper[r])

(* Every answer closes the spooled files of the request's uploads, unless  *)
(* the exception came before the first try block.                          *)
HandlesClosed ==
  \A r \in Requests : phase[r] \in Outcomes \ {"outputs_failed"} => open[r] = {}

(* What a command left under an output path disappears only in the step    *)
(* that answers its own request with a failure: never by another request,  *)
(* and never once the client has been told where to download it.           *)
KeptOutputsStay ==
  [][\A file \in disk :
       file \in OutputFiles /\ (\A other \in disk' : other.path # file.path) =>
         /\ phase[file.by] \in InFlight
         /\ phase'[file.by] \in Outcomes \ {"ok"}]_vars

(* What the caller of execute_endpoint may rely on: see Execution.         *)
Contract ==
  INSTANCE Execution
    WITH state <- [r \in Requests |-> IF phase[r] = "idle" THEN "new"
                                     ELSE IF phase[r] \in InFlight THEN "running"
                                     ELSE phase[r]],
         kept  <- [r \in Requests |->
                     {o \in Outputs : \E file \in disk : file.path = OutputPath(r, o)}]

(* The files, the handles and the processes together keep the contract,    *)
(* and every command that was started is answered, where wait() returns    *)
(* with the child.                                                         *)
ImplementsLiveContract == Contract!LiveSpec
=============================================================================
