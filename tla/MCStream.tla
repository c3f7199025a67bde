------------------------------ MODULE MCStream ------------------------------
(***************************************************************************)
(* The captures that TLC tries, laid out in bytes, and the places where a  *)
(* file may end.                                                           *)
(***************************************************************************)
EXTENDS Stream, FiniteSets

\* The file that has these records.
Layout(recs) ==
    LET end[k \in 0..Len(recs)] ==
           IF k = 0 THEN PCAP_HDR_LEN ELSE end[k - 1] + PCAP_REC_HDR_LEN + recs[k].incl
        slim[k \in 0..Len(recs)] ==
           IF k = 0 THEN PCAP_HDR_LEN ELSE slim[k - 1] + PCAP_REC_HDR_LEN + recs[k].out
    IN [magic |-> TRUE, recs |-> recs, end |-> end, slim |-> slim]

\* A frame without bytes, one that is kept, one that is cut, and one that is
\* larger than the buffers.
None == [incl |-> 0, out |-> 0]
Kept == [incl |-> 20, out |-> 20]
Cut == [incl |-> 50, out |-> 30]
Large == [incl |-> 70, out |-> 70]

Good == {Layout(s) : s \in {<<>>, <<Kept>>, <<None, Cut>>, <<Cut, Kept, Cut>>,
                            <<Kept, Large, Cut, None>>}}

TryCaptures == Good \union {[Layout(<<Kept>>) EXCEPT !.magic = FALSE]}

\* Nothing, half a global header, and for each place where a record may
\* begin: there, within its header, and within its frame.
TryPlaces ==
    LET Ends == UNION {{c.end[k] : k \in DOMAIN c.end} : c \in Good}
    IN {0, 12} \union UNION {{n, n + 15, n + 16, n + 17} : n \in Ends}
=============================================================================
