---------------------- MODULE MCMountpointDirectory ----------------------
(* Headers that differ from a complete one in one field each.             *)
EXTENDS MountpointDirectory

CONSTANTS m1, m2, m3, other

Full == [name |-> Absent, identifier |-> Absent, text |-> Absent,
         country |-> "BEL", lat |-> 50, lon |-> 0, nmea |-> Absent, long |-> TRUE]

SomeHeaders ==
    {Full,
     [Full EXCEPT !.name = other],
     [Full EXCEPT !.name = m2, !.identifier = "label"],
     [Full EXCEPT !.country = "BE1", !.lat = 0],
     [Full EXCEPT !.country = Absent, !.text = "given"],
     [Full EXCEPT !.lat = OutOfRange, !.lon = 50],
     [Full EXCEPT !.lon = Absent, !.nmea = TRUE],
     [Full EXCEPT !.long = FALSE]}

\* Far enough for the choice: the number of coordinates that differ.
Distances ==
    [pair \in Places \X Places |->
        Cardinality({i \in {1, 2} : pair[1][i] # pair[2][i]})]

==========================================================================
