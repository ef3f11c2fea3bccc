---------------------------- MODULE SerialWriter ----------------------------
(***************************************************************************)
(* What an editing session promises about the document's file: it writes   *)
(* whole texts, each one the text the user had when the save was asked     *)
(* for, one at a time, and gives up a write only by leaving the file       *)
(* alone.  Somebody else may replace the file at any time.                 *)
(***************************************************************************)
CONSTANTS Text, None

VARIABLES text,     \* what the user has in front of them
          file,     \* what the file holds
          pending   \* the text being written, or None

vars == <<text, file, pending>>

Init == text \in Text /\ file \in Text /\ pending = None

Edit    == text' \in Text /\ UNCHANGED <<file, pending>>
Begin   == pending = None /\ pending' = text /\ UNCHANGED <<text, file>>
Commit  == pending # None /\ file' = pending /\ pending' = None /\ UNCHANGED text
GiveUp  == pending # None /\ pending' = None /\ UNCHANGED <<text, file>>
Outside == file' \in Text /\ UNCHANGED <<text, pending>>

Next == Edit \/ Begin \/ Commit \/ GiveUp \/ Outside

Spec == Init /\ [][Next]_vars
=============================================================================
