------------------------------ MODULE SlimDir ------------------------------
(***************************************************************************)
(* What pcap-slim promises of a directory of captures, with nothing said   *)
(* of how: no temporary files, processes, crashes or retries.  A capture   *)
(* grows while it is being recorded; once closed it may be replaced, in    *)
(* one step, by its slimmed form, which holds every record it held; a      *)
(* slimmed file may then be marked, and a marked file keeps its form and   *)
(* its records.  Coord.tla is shown to implement this module.              *)
(***************************************************************************)
EXTENDS Integers

CONSTANTS Files,     \* the captures of the directory
          Slimmable, \* those a run can read to the end
          Live,      \* those still being recorded at first
          MaxLen     \* bound on the records of a capture

VARIABLES form,      \* form[f]: "raw" or "slim"
          units,     \* units[f]: the units (global header, records) f holds
          recorded,  \* recorded[f]: the number of units captured so far
          open,      \* the captures still being recorded
          marked     \* the files that have a marker

vars == <<form, units, recorded, open, marked>>

Init == /\ form = [f \in Files |-> "raw"]
        /\ recorded \in [Files -> 1..MaxLen]
        /\ units = [f \in Files |-> 1..recorded[f]]
        /\ open = Live
        /\ marked = {}

\* The capture process appends a record.
Record(f) == /\ f \in open
             /\ recorded[f] < MaxLen
             /\ recorded' = [recorded EXCEPT ![f] = @ + 1]
             /\ units' = [units EXCEPT ![f] = @ \union {recorded[f] + 1}]
             /\ UNCHANGED <<form, open, marked>>

\* The capture process is done with f.
Close(f) == /\ f \in open
            /\ open' = open \ {f}
            /\ UNCHANGED <<form, units, recorded, marked>>

\* f is replaced by its slimmed form in one step: no record is lost.
Slim(f) == /\ f \in Slimmable
           /\ f \notin open
           /\ f \notin marked
           /\ form' = [form EXCEPT ![f] = "slim"]
           /\ UNCHANGED <<units, recorded, open, marked>>

\* f is declared done.
Mark(f) == /\ form[f] = "slim"
           /\ marked' = marked \union {f}
           /\ UNCHANGED <<form, units, recorded, open>>

Next == \E f \in Files : Record(f) \/ Close(f) \/ Slim(f) \/ Mark(f)

Spec == Init /\ [][Next]_vars
=============================================================================
