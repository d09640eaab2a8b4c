------------------------------- MODULE Zones -------------------------------
(***************************************************************************)
(* zones: the ZoneManager, a list of zones and an R-tree of their bounding  *)
(* boxes that finds the zones at a point.  The picture is one row of        *)
(* points, a polygon a set of them and its box the least interval that      *)
(* covers it.  Its callers use ids they have not used before for a zone     *)
(* they add.                                                                *)
(***************************************************************************)
EXTENDS Naturals, Sequences, FiniteSets

CONSTANTS Ids, Points,  \* zone ids, and the points of the row: 1..n
          MaxZones      \* zones at a time

VARIABLES zones,        \* zones_: [id, polygon]
          spatialIndex  \* spatialIndex_: [box, id]
zonesVars == <<zones, spatialIndex>>

Init == zones = << >> /\ spatialIndex = << >>

(* bg::envelope *)
envelope(polygon) == {p \in Points : (\E a \in polygon : a <= p) /\ (\E b \in polygon : p <= b)}

Entry(z) == [box |-> envelope(z.polygon), id |-> z.id]

addZone(z, zs, index) == [zones |-> Append(zs, z), index |-> Append(index, Entry(z))]

Has(id, zs) == \E i \in DOMAIN zs : zs[i].id = id

(* remove_if: the zones with another id, in their order. *)
Nth(ks, i) == CHOOSE k \in ks : Cardinality({j \in ks : j <= k}) = i
Without(id, zs) == LET ks == {k \in DOMAIN zs : zs[k].id # id}
                   IN [i \in 1..Cardinality(ks) |-> zs[Nth(ks, i)]]

(* Mutation: the index is not rebuilt. *)
removeFromList(id, zs, index) == [zones |-> Without(id, zs), index |-> index]

(* removeZone, and rebuildSpatialIndex when a zone has gone. *)
removeZone(id, zs, index) ==
    IF ~Has(id, zs) THEN [zones |-> zs, index |-> index]
    ELSE LET left == Without(id, zs)
         IN [zones |-> left, index |-> [i \in DOMAIN left |-> Entry(left[i])]]

updateZone(z, zs, index) == LET r == removeZone(z.id, zs, index)
                            IN addZone(z, r.zones, r.index)

(* loadZones: the zones under the key "zones" instead of those there are.  zones_start     *)
(* passes the list itself, without that key, and so loads none.                           *)
loadZones(keyed, list) ==
    LET loaded == IF keyed THEN list ELSE << >>
    IN [zones |-> loaded, index |-> [i \in DOMAIN loaded |-> Entry(loaded[i])]]

Becomes(r) == zones' = r.zones /\ spatialIndex' = r.index

Zone == [id : Ids, polygon : SUBSET Points \ {{}}]

Next == \/ \E z \in Zone : /\ Len(zones) < MaxZones /\ ~Has(z.id, zones)
                           /\ Becomes(addZone(z, zones, spatialIndex))
        \/ \E id \in Ids : Becomes(removeZone(id, zones, spatialIndex))
        \/ \E z \in Zone : /\ Len(zones) < MaxZones \/ Has(z.id, zones)
                           /\ Becomes(updateZone(z, zones, spatialIndex))
        \/ \E a, b \in Zone, keyed \in BOOLEAN :
              a.id # b.id /\ MaxZones > 1 /\ Becomes(loadZones(keyed, <<a, b>>))

-----------------------------------------------------------------------------
(* getZonesAtPoint: how often an id is in the result. *)
TimesAtPoint(id, p) ==
    Cardinality({i \in DOMAIN spatialIndex :
        /\ spatialIndex[i].id = id /\ p \in spatialIndex[i].box
        /\ Has(id, zones)
        /\ p \in zones[CHOOSE k \in DOMAIN zones : /\ zones[k].id = id
                                                   /\ \A m \in 1..(k - 1) : zones[m].id # id].polygon})

(* The zones found at a point are those that contain it, each once, after any         *)
(* sequence of additions, removals and updates.                                       *)
FoundWhereTheyAre == \A id \in Ids, p \in Points :
    TimesAtPoint(id, p) =
        Cardinality({k \in DOMAIN zones : zones[k].id = id /\ p \in zones[k].polygon})
=============================================================================
