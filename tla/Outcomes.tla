------------------------------ MODULE Outcomes ------------------------------
(***************************************************************************)
(* How one execute_endpoint call can end, and the HTTP status each end     *)
(* means.  Shared by the detailed model of the call (Executor), by what it *)
(* promises (Execution) and by its caller (Service).                       *)
(***************************************************************************)

StatusOf ==
  [ok             |-> 200,
   rejected       |-> 400,   \* bad field, bad name, missing upload
   outputs_failed |-> 500,   \* an exception before the first try block
   prep_failed    |-> 500,   \* an upload could not be written
   not_launched   |-> 500,
   failed         |-> 502,   \* the command exited non-zero
   unparsed       |-> 502,   \* OutputParseError
   parser_crash   |-> 500,   \* any other exception of parse_output
   timed_out      |-> 504,
   kill_missed    |-> 500,   \* ProcessLookupError out of proc.kill()
   unlink_failed  |-> 500,   \* the removal of an output raised
   cancelled      |-> 500]   \* uvicorn answers for a task it cancelled

Outcomes == DOMAIN StatusOf

(* The call ended before a command was considered.                         *)
Refusals == {"rejected", "outputs_failed", "prep_failed"}

(* The call removed the output files before it raised.                     *)
Removing == {"not_launched", "failed", "unparsed", "timed_out"}

(* The call was removing the output files when it raised.                  *)
Spilling == {"unlink_failed"}

(* The call returned, or raised past the clean-up of the output files.     *)
Keeping == {"ok", "parser_crash", "kill_missed", "cancelled"}
=============================================================================
