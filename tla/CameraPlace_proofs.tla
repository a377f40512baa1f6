------------------------- MODULE CameraPlace_proofs -------------------------
(* Proofs about the coordinates of the cameras.                            *)
EXTENDS CameraPlace, ChannelSync_proofs

-----------------------------------------------------------------------------
(* CameraPlace only adds to ChannelSync.                                   *)

LEMMA PlacedStep == [PlacedNext]_pvars => [Next]_vars
<1>1. ASSUME NEW c \in Caller, NEW b \in Box,
             AskPlaced(c, b) \/ UpsertPlaced(c, b) \/ FailPlaced(c, b)
      PROVE  JobStep(c, b)
  BY <1>1 DEF AskPlaced, UpsertPlaced, FailPlaced, JobStep
<1>2. ASSUME NEW b \in Box, DeletePlaced(b) PROVE DeleteBox(b)
  BY <1>2 DEF DeletePlaced
<1>3. CrashPlaced => Crash
  BY DEF CrashPlaced
<1>4. OtherStep => Next
  <2>1. ASSUME NEW c \in Caller, NEW b \in Box, BoxLists(c, b) PROVE JobStep(c, b)
    BY <2>1 DEF JobStep
  <2> QED BY <2>1 DEF OtherStep, Next
<1>5. UNCHANGED pvars => UNCHANGED vars
  BY DEF pvars
<1> QED BY <1>1, <1>2, <1>3, <1>4, <1>5 DEF PlacedNext, Next

\* The synchronisation with coordinates implements the one without: all that is
\* proved of ChannelSync holds of it.
THEOREM PlacedImplementsSync == PlacedSpec => Spec
<1>1. PlacedInit => Init
  BY DEF PlacedInit
<1> QED BY <1>1, PlacedStep, PTL DEF PlacedSpec, Spec

-----------------------------------------------------------------------------
(* Coordinates are whole and stay.                                         *)

\* The coordinates of one reading, or none.
WholeGps == {[lat |-> p, lon |-> p] : p \in Place \cup {Null}}

Placed(rows) == \A ch \in DOMAIN rows : rows[ch] \in WholeGps

PlaceInv ==
    /\ coords = [b \in Box |-> coords[b]]
    /\ \A b \in Box : coords[b] = [ch \in DOMAIN cameras[b] |-> coords[b][ch]]
    /\ \A b \in Box : Placed(coords[b])
    /\ boxGps \in [Caller -> [Box -> WholeGps]]

LEMMA ToldWhole ==
    /\ extractGpsCoordinates \subseteq WholeGps /\ BoxTells \subseteq WholeGps
    /\ NoGps \in WholeGps
<1>1. NoGps \in WholeGps
  BY DEF NoGps, WholeGps
<1>2. ASSUME NEW gps \in Container, validCoordinates(gps) PROVE gps \in WholeGps
  BY <1>2 DEF Container, validCoordinates, WholeGps
<1> QED BY <1>1, <1>2 DEF extractGpsCoordinates, BoxTells

LEMMA CoalesceWhole ==
    ASSUME NEW new \in WholeGps, NEW old \in WholeGps
    PROVE  /\ Coalesce(new, old) \in WholeGps
           /\ old # NoGps => Coalesce(new, old) # NoGps
<1>1. PICK p \in Place \cup {Null} : new = [lat |-> p, lon |-> p]
  BY DEF WholeGps
<1>2. PICK q \in Place \cup {Null} : old = [lat |-> q, lon |-> q]
  BY DEF WholeGps
<1>3. CASE p = Null
  <2>1. Coalesce(new, old) = old
    BY <1>1, <1>2, <1>3 DEF Coalesce
  <2> QED BY <2>1
<1>4. CASE p # Null
  <2>1. Coalesce(new, old) = new
    BY <1>1, <1>2, <1>4 DEF Coalesce
  <2>2. new # NoGps
    BY <1>1, <1>4 DEF NoGps
  <2> QED BY <2>1, <2>2
<1> QED BY <1>3, <1>4

\* What the transaction makes of the rows of a box.
LEMMA PlaceRowsIs ==
    ASSUME NEW rows, NEW list, NEW own \in [DOMAIN list -> extractGpsCoordinates],
           NEW gps \in WholeGps, Placed(rows)
    PROVE  LET new == PlaceRows(rows, list, own, gps) IN
           /\ new = [ch \in DOMAIN rows \cup DOMAIN list |-> new[ch]]
           /\ Placed(new)
           /\ \A ch \in DOMAIN rows : rows[ch] # NoGps => new[ch] # NoGps
<1> DEFINE new == PlaceRows(rows, list, own, gps)
           Read(ch) == IF own[ch] = NoGps THEN gps ELSE own[ch]
<1>1. /\ new = [ch \in DOMAIN rows \cup DOMAIN list |-> new[ch]]
      /\ DOMAIN new = DOMAIN rows \cup DOMAIN list
  BY DEF PlaceRows
<1>2. \A ch \in DOMAIN list : Read(ch) \in WholeGps
  BY ToldWhole
<1>3. \A ch \in DOMAIN rows : ch \notin DOMAIN list => new[ch] = rows[ch]
  BY DEF PlaceRows
<1>4. \A ch \in DOMAIN list :
          new[ch] = IF ch \in DOMAIN rows THEN Coalesce(Read(ch), rows[ch]) ELSE Read(ch)
  BY DEF PlaceRows
<1> HIDE DEF new, Read
<1>5. Placed(new)
  BY <1>1, <1>2, <1>3, <1>4, CoalesceWhole DEF Placed
<1>6. \A ch \in DOMAIN rows : rows[ch] # NoGps => new[ch] # NoGps
  BY <1>2, <1>3, <1>4, CoalesceWhole DEF Placed
<1> QED BY <1>1, <1>5, <1>6 DEF new

\* The rows that a job of a box upserts are the rows it places.
LEMMA UpsertPlacedIs ==
    ASSUME TypeOK, PlaceInv, NEW c \in Caller, NEW b \in Box, UpsertPlaced(c, b)
    PROVE  /\ PlaceInv'
           /\ \A ch \in DOMAIN coords[b] :
                 coords[b][ch] # NoGps =>
                     ch \in DOMAIN coords'[b] /\ coords'[b][ch] # NoGps
           /\ \A a \in Box \ {b} : coords'[a] = coords[a]
<1> DEFINE rows == coords[b]
           list == job[c][b].list
           gps == boxGps[c][b]
<1>1. PICK own \in [DOMAIN list -> extractGpsCoordinates] :
          coords' = [coords EXCEPT ![b] = PlaceRows(rows, list, own, gps)]
  BY DEF UpsertPlaced
<1> DEFINE new == PlaceRows(rows, list, own, gps)
<1>2. Placed(rows) /\ gps \in WholeGps /\ DOMAIN rows = DOMAIN cameras[b]
  BY DEF PlaceInv
<1>3. /\ new = [ch \in DOMAIN rows \cup DOMAIN list |-> new[ch]]
      /\ Placed(new)
      /\ \A ch \in DOMAIN rows : rows[ch] # NoGps => new[ch] # NoGps
  BY <1>2, PlaceRowsIs
<1>4. /\ coords' = [a \in Box |-> coords'[a]] /\ coords'[b] = new
      /\ \A a \in Box \ {b} : coords'[a] = coords[a]
  BY <1>1 DEF PlaceInv
<1>5. /\ DOMAIN cameras'[b] = DOMAIN cameras[b] \cup DOMAIN list
      /\ \A a \in Box \ {b} : cameras'[a] = cameras[a]
  <2>1. cameras' = [cameras EXCEPT ![b] = UpsertRows(@, list)]
    BY DEF UpsertPlaced, Upsert
  <2>2. DOMAIN UpsertRows(cameras[b], list) = DOMAIN cameras[b] \cup DOMAIN list
    BY DEF UpsertRows
  <2> QED BY <2>1, <2>2 DEF TypeOK
<1>6. boxGps' \in [Caller -> [Box -> WholeGps]]
  BY ToldWhole DEF UpsertPlaced, ForgetGps, PlaceInv
<1> HIDE DEF new
<1>7. coords'[b] = [ch \in DOMAIN cameras'[b] |-> coords'[b][ch]]
  BY <1>2, <1>3, <1>4, <1>5
<1>8. \A a \in Box : coords'[a] = [ch \in DOMAIN cameras'[a] |-> coords'[a][ch]]
  BY <1>4, <1>5, <1>7 DEF PlaceInv
<1>9. \A a \in Box : Placed(coords'[a])
  BY <1>3, <1>4 DEF PlaceInv
<1>10. PlaceInv'
  BY <1>4, <1>6, <1>8, <1>9 DEF PlaceInv, Placed
<1>11. DOMAIN rows \subseteq DOMAIN coords'[b]
  BY <1>3, <1>4
<1> QED BY <1>3, <1>4, <1>10, <1>11

\* A step leaves the coordinates alone, and the channels that have a row.
Untouched ==
    /\ UNCHANGED coords
    /\ \A b \in Box : DOMAIN cameras'[b] = DOMAIN cameras[b]

LEMMA UntouchedKeeps ==
    ASSUME PlaceInv, Untouched, boxGps' \in [Caller -> [Box -> WholeGps]]
    PROVE  PlaceInv'
<1>1. \A b \in Box : coords'[b] = [ch \in DOMAIN cameras'[b] |-> coords'[b][ch]]
  BY DEF PlaceInv, Untouched
<1> QED BY <1>1 DEF PlaceInv, Untouched, Placed

LEMMA OtherUntouched ==
    ASSUME TypeOK, OtherStep, UNCHANGED coords
    PROVE  Untouched
<1>1. UNCHANGED cameras
  BY DEF OtherStep, StartTick, NextBatch, StartManual, BoxLists, ChangeChannels,
         ChangeStatus, store
<1> QED BY <1>1 DEF Untouched

LEMMA FailUntouched ==
    ASSUME TypeOK, NEW c \in Caller, NEW b \in Box, FailPlaced(c, b)
    PROVE  Untouched
<1>1. CASE ListFails(c, b)
  <2>1. cameras' = [cameras EXCEPT ![b] = RowsWithError(@)]
    BY <1>1 DEF ListFails
  <2>2. DOMAIN RowsWithError(cameras[b]) = DOMAIN cameras[b]
    BY DEF RowsWithError
  <2> QED BY <2>1, <2>2 DEF FailPlaced, Untouched, TypeOK
<1>2. CASE UpsertNothing(c, b)
  BY <1>2 DEF FailPlaced, UpsertNothing, Untouched, store
<1> QED BY <1>1, <1>2 DEF FailPlaced

LEMMA DeletePlacedIs ==
    ASSUME TypeOK, PlaceInv, NEW b \in Box, DeletePlaced(b)
    PROVE  PlaceInv' /\ \A a \in Box \ {b} : coords'[a] = coords[a]
<1>1. /\ coords' = [coords EXCEPT ![b] = [ch \in {} |-> NoGps]]
      /\ cameras' = [cameras EXCEPT ![b] = NoList]
      /\ UNCHANGED boxGps
  BY DEF DeletePlaced, DeleteBox
<1>2. DOMAIN NoList = {}
  BY EmptyList
<1>3. /\ coords' = [a \in Box |-> coords'[a]] /\ coords'[b] = [ch \in {} |-> NoGps]
      /\ \A a \in Box \ {b} : coords'[a] = coords[a] /\ cameras'[a] = cameras[a]
      /\ DOMAIN cameras'[b] = {}
  BY <1>1, <1>2 DEF PlaceInv, TypeOK
<1>4. \A a \in Box : coords'[a] = [ch \in DOMAIN cameras'[a] |-> coords'[a][ch]]
  BY <1>3 DEF PlaceInv
<1>5. \A a \in Box : Placed(coords'[a])
  BY <1>3 DEF PlaceInv, Placed
<1> QED BY <1>1, <1>3, <1>4, <1>5 DEF PlaceInv, Placed

LEMMA PlaceStep == TypeOK /\ PlaceInv /\ [PlacedNext]_pvars => PlaceInv'
<1> SUFFICES ASSUME TypeOK, PlaceInv, [PlacedNext]_pvars PROVE PlaceInv'
  OBVIOUS
<1>1. ASSUME NEW c \in Caller, NEW b \in Box, AskPlaced(c, b) PROVE PlaceInv'
  <2>1. boxGps' \in [Caller -> [Box -> WholeGps]]
    BY <1>1, ToldWhole DEF AskPlaced, PlaceInv
  <2>2. Untouched
    BY <1>1 DEF AskPlaced, Ask, store, Untouched
  <2> QED BY <2>1, <2>2, UntouchedKeeps
<1>2. ASSUME NEW c \in Caller, NEW b \in Box, UpsertPlaced(c, b) PROVE PlaceInv'
  BY <1>2, UpsertPlacedIs
<1>3. ASSUME NEW c \in Caller, NEW b \in Box, FailPlaced(c, b) PROVE PlaceInv'
  <2>1. boxGps' \in [Caller -> [Box -> WholeGps]]
    BY <1>3, ToldWhole DEF FailPlaced, ForgetGps, PlaceInv
  <2> QED BY <1>3, <2>1, FailUntouched, UntouchedKeeps
<1>4. ASSUME NEW b \in Box, DeletePlaced(b) PROVE PlaceInv'
  BY <1>4, DeletePlacedIs
<1>5. CASE CrashPlaced
  <2>1. boxGps' \in [Caller -> [Box -> WholeGps]]
    BY <1>5, ToldWhole DEF CrashPlaced
  <2>2. Untouched
    BY <1>5 DEF CrashPlaced, Crash, store, Untouched
  <2> QED BY <2>1, <2>2, UntouchedKeeps
<1>6. CASE OtherStep /\ UNCHANGED <<coords, boxGps>>
  BY <1>6, OtherUntouched, UntouchedKeeps DEF PlaceInv
<1>7. CASE UNCHANGED pvars
  <2>1. Untouched
    BY <1>7 DEF pvars, vars, store, Untouched
  <2> QED BY <1>7, <2>1, UntouchedKeeps DEF pvars, PlaceInv
<1> QED BY <1>1, <1>2, <1>3, <1>4, <1>5, <1>6, <1>7 DEF PlacedNext

LEMMA InitPlaced == PlacedInit => PlaceInv
<1> SUFFICES ASSUME PlacedInit PROVE PlaceInv
  OBVIOUS
<1>1. \A b \in Box : coords[b] = [ch \in DOMAIN cameras[b] |-> coords[b][ch]]
  BY EmptyList DEF PlacedInit, Init
<1>2. \A b \in Box : Placed(coords[b])
  BY DEF PlacedInit, Placed
<1>3. boxGps \in [Caller -> [Box -> WholeGps]]
  BY ToldWhole DEF PlacedInit
<1> QED BY <1>1, <1>2, <1>3 DEF PlaceInv, PlacedInit

\* Latitude and longitude are always of one reading, and no reading that fails,
\* comes late or has no position erases them, for any boxes, channels and places.
THEOREM CamerasArePlacedEver == PlacedSpec => CamerasArePlaced
<1> DEFINE Stay ==
        \A b \in Box :
          boxes'[b] # "deleted" =>
              \A ch \in DOMAIN coords[b] :
                  coords[b][ch] # NoGps =>
                      ch \in DOMAIN coords'[b] /\ coords'[b][ch] # NoGps
           SameRows == \A b \in Box : DOMAIN coords[b] = DOMAIN cameras[b]
<1>1. PlaceInv => PlacesAreWhole /\ SameRows
  <2>1. \A gps \in WholeGps : gps.lat = gps.lon
    BY DEF WholeGps
  <2>2. PlaceInv => PlacesAreWhole
    BY <2>1 DEF PlaceInv, PlacesAreWhole, Placed
  <2>3. PlaceInv => SameRows
    BY DEF PlaceInv
  <2> QED BY <2>2, <2>3
<1>2. TypeOK /\ PlaceInv /\ [PlacedNext]_pvars => [Stay]_pvars
  <2> SUFFICES ASSUME TypeOK, PlaceInv, PlacedNext PROVE Stay
    OBVIOUS
  <2>1. CASE UNCHANGED coords
    BY <2>1
  <2>2. ASSUME NEW c \in Caller, NEW b \in Box, UpsertPlaced(c, b) PROVE Stay
    <3>1. \A a \in Box \ {b} : coords'[a] = coords[a]
      BY <2>2, UpsertPlacedIs
    <3>2. \A ch \in DOMAIN coords[b] :
              coords[b][ch] # NoGps =>
                  ch \in DOMAIN coords'[b] /\ coords'[b][ch] # NoGps
      BY <2>2, UpsertPlacedIs
    <3> QED BY <3>1, <3>2
  <2>3. ASSUME NEW b \in Box, DeletePlaced(b) PROVE Stay
    <3>1. boxes'[b] = "deleted"
      BY <2>3 DEF DeletePlaced, DeleteBox, TypeOK
    <3>2. \A a \in Box \ {b} : coords'[a] = coords[a]
      BY <2>3, DeletePlacedIs
    <3> QED BY <3>1, <3>2
  <2> QED
    BY <2>1, <2>2, <2>3 DEF PlacedNext, AskPlaced, FailPlaced, CrashPlaced
<1> QED
  BY <1>1, <1>2, InitPlaced, PlaceStep, PlacedImplementsSync, TypeCorrect, PTL
  DEF PlacedSpec, CamerasArePlaced, PlacesStay

=============================================================================
