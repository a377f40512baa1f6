----------------------------- MODULE CameraPlace -----------------------------
(***************************************************************************)
(* ChannelSync with the coordinates of the cameras: before it lists a      *)
(* box's channels a job asks the box where it is, and the transaction      *)
(* gives each listed camera the place its channel tells, or else the       *)
(* box's, or else leaves the place it has                                  *)
(* (apps/api/src/services/channelSyncService.ts).                          *)
(*                                                                         *)
(* Latitude and longitude are read, checked and stored one by one, so they *)
(* are apart here.  The beacon count, stored in the same way, is left out. *)
(***************************************************************************)
EXTENDS ChannelSync

CONSTANTS
    Place,   \* the places a box or a channel may tell
    Null     \* no number

VARIABLES
    coords,   \* latitude and longitude of each camera's row
    boxGps    \* boxGps of each job, between its reading and its end

pvars == <<vars, coords, boxGps>>

NoGps == [lat |-> Null, lon |-> Null]

-----------------------------------------------------------------------------
(* Reading a position.                                                     *)

\* What readNumberField finds in one object: both numbers of a place, or only
\* one of the two, the other missing or no number.
Container ==
    {[lat |-> p, lon |-> p] : p \in Place}
        \cup {[lat |-> p, lon |-> Null] : p \in Place}
        \cup {[lat |-> Null, lon |-> p] : p \in Place}

\* Numbers out of range count as none.
validCoordinates(gps) == gps.lat # Null /\ gps.lon # Null

\* The first object with valid coordinates, of the top level, gps, location and
\* the same of config, or null: what may come of an answer or of a channel.
extractGpsCoordinates == {gps \in Container : validCoordinates(gps)} \cup {NoGps}

\* readBoxGpsCoordinates: an error and a second without an answer are null too.
BoxTells == extractGpsCoordinates \cup {NoGps}

-----------------------------------------------------------------------------
(* Storing it.                                                             *)

\* Mutant: the columns are set to what has been read.
Overwrite(new, old) == new

\* UPDATE: latitude = COALESCE(?, latitude), longitude = COALESCE(?, longitude)
Coalesce(new, old) ==
    [lat |-> IF new.lat = Null THEN old.lat ELSE new.lat,
     lon |-> IF new.lon = Null THEN old.lon ELSE new.lon]

\* An INSERT stores what has been read; a row the list lacks is left alone.
PlaceRows(rows, list, own, gps) ==
    [ch \in DOMAIN rows \cup DOMAIN list |->
        IF ch \notin DOMAIN list THEN rows[ch]
        ELSE LET read == IF own[ch] = NoGps THEN gps ELSE own[ch] IN
             IF ch \in DOMAIN rows THEN Coalesce(read, rows[ch]) ELSE read]

-----------------------------------------------------------------------------

PlacedInit ==
    /\ Init
    /\ coords = [b \in Box |-> [ch \in {} |-> NoGps]]
    /\ boxGps = [c \in Caller |-> [b \in Box |-> NoGps]]

ForgetGps(c, b) == boxGps' = [boxGps EXCEPT ![c][b] = NoGps]

\* The position is read before the list is asked for.
AskPlaced(c, b) ==
    /\ Ask(c, b)
    /\ \E gps \in BoxTells : boxGps' = [boxGps EXCEPT ![c][b] = gps]
    /\ UNCHANGED coords

\* Each listed channel may tell a place of its own.
UpsertPlaced(c, b) ==
    /\ Upsert(c, b)
    /\ \E own \in [DOMAIN job[c][b].list -> extractGpsCoordinates] :
          coords' = [coords EXCEPT ![b] =
                        PlaceRows(@, job[c][b].list, own, boxGps[c][b])]
    /\ ForgetGps(c, b)

FailPlaced(c, b) ==
    /\ ListFails(c, b) \/ UpsertNothing(c, b)
    /\ ForgetGps(c, b)
    /\ UNCHANGED coords

DeletePlaced(b) ==
    /\ DeleteBox(b)
    /\ coords' = [coords EXCEPT ![b] = [ch \in {} |-> NoGps]]
    /\ UNCHANGED boxGps

CrashPlaced ==
    /\ Crash
    /\ boxGps' = [c \in Caller |-> [b \in Box |-> NoGps]]
    /\ UNCHANGED coords

\* The steps in which nothing is read or stored of a place.
OtherStep ==
    \/ \E t \in Tick : StartTick(t) \/ NextBatch(t)
    \/ \E m \in Manual, b \in Box : StartManual(m, b)
    \/ \E c \in Caller, b \in Box : BoxLists(c, b)
    \/ \E b \in Box, list \in Lists : ChangeChannels(b, list)
    \/ \E b \in Box : ChangeStatus(b)

PlacedNext ==
    \/ \E c \in Caller, b \in Box :
          AskPlaced(c, b) \/ UpsertPlaced(c, b) \/ FailPlaced(c, b)
    \/ \E b \in Box : DeletePlaced(b)
    \/ CrashPlaced
    \/ OtherStep /\ UNCHANGED <<coords, boxGps>>

PlacedSpec == PlacedInit /\ [][PlacedNext]_pvars

PlacedFairSpec == PlacedSpec /\ Fairness

-----------------------------------------------------------------------------
(* Properties.                                                             *)

\* No camera is put on the map at a place that was never told: its latitude and
\* longitude are of one reading, or there are none of them, however often its
\* box and its channel told half a place before.
PlacesAreWhole ==
    \A b \in Box : \A ch \in DOMAIN coords[b] :
        coords[b][ch].lat = coords[b][ch].lon

\* A camera that has a place does not lose it as long as it has its row, though
\* the box answers no more, late, or without a position.
PlacesStay ==
    [][\A b \in Box :
          boxes'[b] # "deleted" =>
              \A ch \in DOMAIN coords[b] :
                  coords[b][ch] # NoGps =>
                      ch \in DOMAIN coords'[b] /\ coords'[b][ch] # NoGps]_pvars

\* The cameras with a row are the ones with coordinates, whole and kept.
CamerasArePlaced ==
    /\ []PlacesAreWhole
    /\ [](\A b \in Box : DOMAIN coords[b] = DOMAIN cameras[b])
    /\ PlacesStay

=============================================================================
