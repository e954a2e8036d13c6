------------------------ MODULE MountpointDirectory ------------------------
(***************************************************************************)
(* What the caster knows and publishes about its mountpoints: the Ntrip-STR *)
(* header a base station registers with (ntrip/v2/headers.py), the          *)
(* Mountpoint records of NTRIPCaster (ntrip/v2/caster.py), listed by GET /  *)
(* in their order, and the choice of the NEAREST endpoint                   *)
(* (services/v1/ntrip/nearest.py); the request that follows the choice is a *)
(* GET request of module Caster.                                            *)
(*                                                                          *)
(* A header is a record of fields; Absent stands for a field that is        *)
(* missing, empty or not a number.  Fields that are handled alike are one   *)
(* field here: "text" for the free texts, "nmea" for the enumerated ones.   *)
(* Names in URL paths are those of the policy's data and match              *)
(* _MOUNTPOINT_RE.                                                          *)
(* No header field sets mask: it stays 0.0, which disables every distance   *)
(* check, and is left out.                                                  *)
(***************************************************************************)
EXTENDS Naturals, Sequences, SequencesExt, FiniteSets

CONSTANTS Mountpoints,   \* mountpoint names of the URL path
          Names,         \* names a header may give
          Countries,     \* what upper() makes of the strings of length 3 that a
                         \* header may give; others count as absent
          AlphaCountries,\* those of [A-Z]{3}
          Degrees,       \* latitudes and longitudes in range, 0 among them
          Distance,      \* haversine: Distance[p, q]
          Headers,       \* the Ntrip-STR headers that base stations send
          Absent, OutOfRange, None

\* Positions of mountpoints and rovers: latitude and longitude.
Places == Degrees \X Degrees

AllHeaders ==
    [name : Names \cup {Absent}, identifier : {Absent, "label"},
     text : {Absent, "given"}, country : Countries \cup {Absent},
     lat : Degrees \cup {Absent, OutOfRange}, lon : Degrees \cup {Absent, OutOfRange},
     nmea : {Absent, FALSE, TRUE},
     long : BOOLEAN]  \* long: it reaches as far as the longitude

\* Mountpoint: what a header or its defaults give.
Records ==
    [name : Names, identifier : {None, "label"}, text : {"", "given"},
     country : Countries \cup {"UNK", None}, place : Places \cup {None},
     nmea : BOOLEAN]

ASSUME DirectoryAssumption ==
    /\ Mountpoints \subseteq Names
    /\ AlphaCountries \subseteq Countries
    /\ 0 \in Degrees /\ {OutOfRange, Absent} \cap Degrees = {}
    /\ Distance \in [Places \X Places -> Nat]
    /\ Headers \subseteq AllHeaders
    /\ None \notin Records \cup Mountpoints

VARIABLES order,    \* keys of _mountpoints, in the order of insertion
          entry,    \* entry[k]: the Mountpoint registered as k, or None
          online    \* keys of _transports

vars == <<order, entry, online>>

Registered == {order[i] : i \in DOMAIN order}

Init ==
    /\ order = <<>>
    /\ entry = [k \in Mountpoints |-> None]
    /\ online = {}

-----------------------------------------------------------------------------
(* Registration *)

Given(value, default) == IF value = Absent THEN default ELSE value

\* Mutation: the range of a coordinate is not tested.
Coordinate_Any(h, value) == IF h.long /\ value # Absent THEN value ELSE 0

\* Latitude and longitude are read from headers that have both; each of them
\* is 0.0 when it is out of range.
Coordinate(h, value) == IF h.long /\ value \in Degrees THEN value ELSE 0

\* parse_ntrip_str: every field has a default, except the identifier.
Parse(h, k) ==
    [name |-> Given(h.name, k),
     identifier |-> Given(h.identifier, None),
     text |-> Given(h.text, ""),
     country |-> IF h.long THEN Given(h.country, "UNK") ELSE "UNK",
     place |-> <<Coordinate(h, h.lat), Coordinate(h, h.lon)>>,
     nmea |-> Given(h.nmea, FALSE)]

\* The record of a base station that sends no header.
Blank(k) ==
    [name |-> k, identifier |-> None, text |-> "", country |-> None,
     place |-> None, nmea |-> FALSE]

\* Mountpoint.__post_init__.
Valid(mp) ==
    /\ mp.country \in AlphaCountries \cup {"UNK", None}
    /\ mp.place \in Places \cup {None}

\* register() of an unknown mountpoint: the name in the header is dropped.
RegisterNew(k, mp) ==
    /\ k \notin Registered /\ Valid(mp)
    /\ order' = Append(order, k)
    /\ entry' = [entry EXCEPT ![k] = [mp EXCEPT !.name = k]]
    /\ online' = online \cup {k}

\* A ValueError: 400, nothing is registered.
RegisterRefused(k, mp) ==
    /\ k \notin Registered /\ ~Valid(mp)
    /\ UNCHANGED vars

\* register() of a known mountpoint: the fields of _METADATA_FIELDS, name
\* included and identifier not, are assigned without validation.
RegisterAgain(k, mp) ==
    /\ k \in Registered
    /\ entry' = [entry EXCEPT ![k] = [mp EXCEPT !.identifier = entry[k].identifier]]
    /\ online' = online \cup {k}
    /\ UNCHANGED order

\* A PUT request whose credentials were accepted.  The policy looks whether k
\* is online, but before the password is verified: it may be online again.
PutWithHeader(k, h) ==
    \/ RegisterNew(k, Parse(h, k))
    \/ RegisterRefused(k, Parse(h, k))
    \/ RegisterAgain(k, Parse(h, k))

\* Without Ntrip-STR there is no metadata: a known mountpoint keeps its own.
PutWithoutHeader(k) ==
    \/ RegisterNew(k, Blank(k))
    \/ /\ k \in Registered
       /\ online' = online \cup {k}
       /\ UNCHANGED <<order, entry>>

\* close(): the record stays.
Close(k) ==
    /\ k \in online
    /\ online' = online \ {k}
    /\ UNCHANGED <<order, entry>>

\* unregister() by the reaper.
Unregister(k) ==
    /\ \E i \in DOMAIN order : order[i] = k /\ order' = RemoveAt(order, i)
    /\ entry' = [entry EXCEPT ![k] = None]
    /\ online' = online \ {k}

-----------------------------------------------------------------------------
(* The choice of NEAREST *)

\* Mutation: a mountpoint as far away as the best so far replaces it.
Closer_OrEqual(p, k, best) ==
    best = None \/ Distance[entry[k].place, p] <= Distance[entry[best].place, p]

\* The test of the loop in find_and_read; best_dist starts at infinity.
Closer(p, k, best) ==
    best = None \/ Distance[entry[k].place, p] < Distance[entry[best].place, p]

\* A turn of the loop; mountpoints without coordinates are skipped.
Better(p, k, best) ==
    IF entry[k].place # None /\ Closer(p, k, best) THEN k ELSE best

\* find_and_read's loop: best[i] is its choice among the first i mountpoints.
Nearest(p) ==
    LET best[i \in 0..Len(order)] ==
            IF i = 0 THEN None ELSE Better(p, order[i], best[i - 1])
    IN best[Len(order)]

Next ==
    \E k \in Mountpoints :
        \/ \E h \in Headers : PutWithHeader(k, h)
        \/ PutWithoutHeader(k)
        \/ Close(k)
        \/ Unregister(k)

Spec == Init /\ [][Next]_vars

-----------------------------------------------------------------------------
(* The three dictionaries stay in step: a record for every key, in one place *)
(* of the order, and transports only for registered mountpoints.             *)
(* Coordinates are in range even after a second registration, which assigns  *)
(* the header's fields without Mountpoint's validation: the parser itself    *)
(* must not let an impossible position pass, or haversine() and every        *)
(* NEAREST choice would work with it.                                        *)
TypeOK ==
    /\ IsInjective(order) /\ Registered \subseteq Mountpoints
    /\ \A k \in Mountpoints : entry[k] # None <=> k \in Registered
    /\ online \subseteq Registered
    /\ \A k \in Registered : entry[k].place \in Places \cup {None}

(* NEAREST: the loop returns the first registered of the mountpoints with    *)
(* coordinates that no other one is closer than, for every rover position.   *)
NearestIsFirstClosest ==
    \A p \in Places :
        LET located == {i \in DOMAIN order : entry[order[i]].place # None}
            dist(i) == Distance[entry[order[i]].place, p]
        IN IF located = {} THEN Nearest(p) = None
           ELSE \E i \in located :
                   /\ Nearest(p) = order[i]
                   /\ \A j \in located : \/ dist(i) < dist(j)
                                         \/ dist(i) = dist(j) /\ i <= j

=============================================================================
