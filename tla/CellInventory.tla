---------------------------- MODULE CellInventory ----------------------------
(***************************************************************************)
(* The inventory of a run (simulator/inventory): the sites on a hexagonal  *)
(* lattice that is stretched until their number fits the scenario, three   *)
(* sectors on every site, their carriers and their ranges.                 *)
(***************************************************************************)
EXTENDS Scenario, Radio

CONSTANT Draw(_, _, _)   \* the random streams of a seed: purpose, entity, step; in thousandths

(* --- the sites ---------------------------------------------------------- *)

\* The distance at which the area of the disk holds n nodes.
AnalyticISD(radius, n) == Root(((Square(radius) \div n) * 363) \div 100)

\* Mutant: too many sites bring the sites closer together.
ClosingISD(radius, target, least, most) ==
    LET analytic == AnalyticISD(radius, target)
        Count(d) == Len(Cover(d, radius))
        Fits(d) == Count(d) \in least .. most
        search[bounds \in Nat \X Nat] ==
            LET lo == bounds[1]
                hi == bounds[2]
                mid == (lo + hi) \div 2
            IN  IF hi - lo <= 1 THEN 0
                ELSE IF Fits(mid) THEN mid
                ELSE IF Count(mid) > target THEN search[<<lo, mid>>]
                ELSE search[<<mid, hi>>]
    IN  IF Fits(analytic) THEN analytic ELSE search[<<analytic \div 4, analytic * 4>>]

\* The lattice distance: the analytic one when its count fits, else the first
\* midpoint of a bisection whose count does, else 0.  The count is a step
\* function of the distance: an interval between two steps is never met.  The
\* 64 halvings of the code end, here, when the bounds are a metre apart.
EffectiveISD(radius, target, least, most) ==
    LET analytic == AnalyticISD(radius, target)
        Count(d) == Len(Cover(d, radius))
        Fits(d) == Count(d) \in least .. most
        search[bounds \in Nat \X Nat] ==
            LET lo == bounds[1]
                hi == bounds[2]
                mid == (lo + hi) \div 2
            IN  IF hi - lo <= 1 THEN 0
                ELSE IF Fits(mid) THEN mid
                ELSE IF Count(mid) > target THEN search[<<mid, hi>>]
                ELSE search[<<lo, mid>>]
    IN  IF Fits(analytic) THEN analytic ELSE search[<<analytic \div 4, analytic * 4>>]

SiteTarget(scn) ==
    LET n == scn.network
    IN  n.sitesMin + (Draw("sites", 0, 0) * (n.sitesMax - n.sitesMin + 1)) \div Mille

ISD(scn) ==
    EffectiveISD(1000 * scn.profile.areaRadiusKM, SiteTarget(scn), scn.network.sitesMin, scn.network.sitesMax)

\* Identities are name-based UUIDs of the run and the node: here the node.
PlaceSites(scn, isd) ==
    LET nodes == Cover(isd, 1000 * scn.profile.areaRadiusKM)
    IN  [i \in DOMAIN nodes |-> [axial |-> nodes[i], enu |-> Center(isd, nodes[i])]]

(* --- the sectors -------------------------------------------------------- *)

Azimuths == <<0, 120, 240>>

\* The band of a draw: the first whose cumulative weight reaches it, the
\* last one standing for everything up to 1.
PickBand(bands, u) ==
    LET Cumulative(i) == IF i = Len(bands) THEN Mille
                         ELSE Total([k \in 1 .. i |-> bands[k].weight])
    IN  bands[CHOOSE i \in DOMAIN bands :
                 Cumulative(i) >= u /\ \A k \in 1 .. i - 1 : Cumulative(k) < u].mhz

SectorId == [site : Node, sector : 1 .. 3]

Sector(scn, site, k) ==
    LET p == scn.profile
    IN  [id |-> [site |-> site.axial, sector |-> k], site |-> site.axial, enu |-> site.enu,
         azimuth |-> Azimuths[k], beamWidth |-> p.beamWidthDeg, mhz |-> PickBand(p.freqDistribution, Draw("band", site.axial, k)),
         eirp |-> p.eirpDBm, height |-> p.antHeightM, tilt |-> p.tiltDeg,
         morphology |-> p.morphology, model |-> p.propagationModel, rMax |-> 0]

\* The override of the file for every sector, or what its link budget
\* yields; 0, the failure, is left for CellValid to refuse.
AssignRMax(c, scn) ==
    [c EXCEPT !.rMax = Override(scn.network.rMaxM, CoverageRangeM(c, scn.network.rxSensitivityDBm))]

\* Site by site, in the order of their azimuths.
BuildSectors(sites, scn) ==
    FlattenSeq([i \in DOMAIN sites |->
        [k \in DOMAIN Azimuths |-> AssignRMax(Sector(scn, sites[i], k), scn)]])

CellValid(c) ==
    /\ c.azimuth \in 0 .. 359 /\ c.beamWidth \in 1 .. 360
    /\ c.mhz > 0 /\ c.height > 0 /\ c.rMax > 0
    /\ c.morphology \in {"urban", "rural"} /\ c.model \in {"UMa", "UMi", "RMa"}

(* --- the inventory ------------------------------------------------------ *)

InventoryOf(sites, cells) ==
    IF \A i \in DOMAIN cells : CellValid(cells[i]) THEN [sites |-> sites, cells |-> cells] ELSE None

BuildOn(sites, scn) == InventoryOf(sites, BuildSectors(sites, scn))

\* None when the site interval is out of reach or a sector is not valid.
Build(scn) ==
    IF ISD(scn) = 0 THEN None ELSE BuildOn(PlaceSites(scn, ISD(scn)), scn)

CellIds(inv) == {inv.cells[i].id : i \in DOMAIN inv.cells}

CellOf(inv, id) == inv.cells[CHOOSE i \in DOMAIN inv.cells : inv.cells[i].id = id]
=============================================================================
