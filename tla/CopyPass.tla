------------------------------ MODULE CopyPass ------------------------------
(***************************************************************************)
(* What slimming one capture promises, with nothing said of headers,       *)
(* buffers and bytes: the copy is at every moment the slimmed form of the  *)
(* first records of the source, in order; it is declared written only once *)
(* it has every record begun in the source when the job started, and       *)
(* accepted only if it is still all there.  Stream.tla is shown to         *)
(* implement this module.                                                  *)
(***************************************************************************)
EXTENDS Integers

VARIABLES begun,    \* the records begun in the source
          due,      \* those begun when the job started
          copied,   \* the records of the copy: 1..copied, slimmed, in order
          intact,   \* nothing has been cut off the copy
          state     \* "idle", "copying", "written", "accepted", "rejected"

vars == <<begun, due, copied, intact, state>>

Init == /\ begun \in Nat
        /\ due = 0
        /\ copied = 0
        /\ intact = TRUE
        /\ state = "idle"

\* The capture process begins more records.
Record == /\ begun' \in Nat
          /\ begun' > begun
          /\ UNCHANGED <<due, copied, intact, state>>

Start == /\ state = "idle"
         /\ state' = "copying"
         /\ due' = begun
         /\ UNCHANGED <<begun, copied, intact>>

\* More records reach the copy.
Store == /\ state = "copying"
         /\ copied' \in (copied + 1)..begun
         /\ UNCHANGED <<begun, due, intact, state>>

\* The last records reach the copy.
Finish == /\ state = "copying"
          /\ copied' \in copied..begun
          /\ copied' >= due
          /\ state' = "written"
          /\ UNCHANGED <<begun, due, intact>>

\* Something outside cuts the copy short.
Damage == /\ state = "written"
          /\ intact' = FALSE
          /\ UNCHANGED <<begun, due, copied, state>>

Accept == /\ state = "written"
          /\ intact
          /\ state' = "accepted"
          /\ UNCHANGED <<begun, due, copied, intact>>

\* The copy is given up, whatever more of it was stored.
Reject == /\ state \in {"idle", "copying", "written"}
          /\ state' = "rejected"
          /\ copied' \in copied..begun
          /\ state # "copying" => copied' = copied
          /\ UNCHANGED <<begun, due, intact>>

Next == Record \/ Start \/ Store \/ Finish \/ Damage \/ Accept \/ Reject

Spec == Init /\ [][Next]_vars
=============================================================================
