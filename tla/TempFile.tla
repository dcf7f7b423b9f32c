------------------------------ MODULE TempFile ------------------------------
(***************************************************************************)
(* A file that is replaced by way of one temporary file, the same for      *)
(* every process: opened and emptied, written, and renamed over it.        *)
(*                                                                         *)
(* A process writes through the handle it opened: when another process     *)
(* renames the temporary file meanwhile, the handle goes with it.          *)
(***************************************************************************)
CONSTANTS
  Users,    \* the processes that write the file
  Nothing   \* what is read from a file that does not parse

VARIABLES
  file,     \* [whole, data]
  temp,     \* the temporary file
  there,    \* whether it exists
  handle    \* where the open file of each process is by now

Whole(data) == [whole |-> TRUE, data |-> data]
Torn == [whole |-> FALSE, data |-> Nothing]

NoHandles == [p \in Users |-> "none"]
Handles == [Users -> {"none", "temp", "file", "lost"}]

\* fs::write opens the temporary file and empties it, or creates it.
OpensTemp(p) ==
  /\ temp' = Torn /\ there' = TRUE
  /\ handle' = [handle EXCEPT ![p] = "temp"]
  /\ UNCHANGED file

\* The text replaces what the file holds; of a longer text that another process wrote
\* there since it was emptied the tail stays.
Written(f, data) == IF f.whole THEN {Whole(data), Torn} ELSE {Whole(data)}

WritesTemp(p, data) ==
  /\ temp' \in IF handle[p] = "temp" THEN Written(temp, data) ELSE {temp}
  /\ file' \in IF handle[p] = "file" THEN Written(file, data) ELSE {file}
  /\ handle' = [handle EXCEPT ![p] = "none"]
  /\ UNCHANGED there

\* The handles of others follow the renamed file; the file it replaces is lost.
Followed == [p \in Users |->
  CASE handle[p] = "temp" -> "file" [] handle[p] = "file" -> "lost" [] OTHER -> handle[p]]

RenamesTemp ==
  /\ there
  /\ file' = temp /\ temp' = Torn /\ there' = FALSE
  /\ handle' = Followed

\* Another process renamed it first.
RenameFails == ~there /\ UNCHANGED <<file, temp, there, handle>>

\* A process is gone, its handle with it.
Closes(p) == handle' = [handle EXCEPT ![p] = "none"] /\ UNCHANGED <<file, temp, there>>
=============================================================================
