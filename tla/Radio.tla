-------------------------------- MODULE Radio --------------------------------
(***************************************************************************)
(* The radio layer of the simulator: how far a sector reaches (internal/   *)
(* rf), the network of sites (simulator/radio) and the best server of a    *)
(* point.  Powers and losses are in whole dB.  The physics behind them are *)
(* parameters: the path loss of a model, the pattern of the antenna, the   *)
(* bearing of a vector and the shadowing field of the run.                 *)
(***************************************************************************)
EXTENDS HexGrid

CONSTANTS
    PathLossDB(_, _, _, _),   \* of a model, at a carrier, over a distance, with or without line of sight
    LOSChance(_, _),          \* of a model, at a distance, in thousandths
    AttenuationDB(_, _, _),   \* of the pattern, off the azimuth, at a distance, for a sector
    Tangent(_),               \* of an angle in degrees, in thousandths
    Bearing(_, _),            \* of a vector, in degrees from north
    Environment(_, _)         \* of a site at a point: line of sight and shadowing

CONSTANT Nobody   \* no sector serves

MaxSearchRangeM == 200000

UTHeightDM == 15   \* the user terminal, in decimetres

(* --- the range of a sector --------------------------------------------- *)

MixedPathLossDB(c, d) ==
    LET chance == LOSChance(c.model, d)
    IN  (chance * PathLossDB(c.model, c.mhz, d, TRUE)
            + (1000 - chance) * PathLossDB(c.model, c.mhz, d, FALSE)) \div 1000

ReceivedPowerDBm(c, d) == c.eirp - MixedPathLossDB(c, d) - AttenuationDB(0, d, c)

RangeSpecValid(c, sensitivity) ==
    /\ sensitivity < 0
    /\ 10 * c.height > UTHeightDM
    /\ c.mhz > 0 /\ c.beamWidth > 0 /\ c.tilt >= 0

\* Where the beam that is tilted down meets the ground.
BeamPeakDistanceM(c) ==
    IF c.tilt = 0 THEN 0
    ELSE LET peak == ((10 * c.height - UTHeightDM) * 100) \div Tangent(c.tilt)
         IN  IF peak >= MaxSearchRangeM THEN 0 ELSE peak

\* The largest distance at which the sector is heard, or 0 when the budget
\* does not close at the peak of the beam or never ends.
CoverageRangeM(c, sensitivity) ==
    LET start == IF BeamPeakDistanceM(c) > 0 THEN BeamPeakDistanceM(c) ELSE 1
        Heard(d) == ReceivedPowerDBm(c, d) >= sensitivity
        last[bounds \in Nat \X Nat] ==
            LET lo == bounds[1]
                hi == bounds[2]
                mid == (lo + hi) \div 2
            IN  IF hi - lo <= 1 THEN lo
                ELSE IF Heard(mid) THEN last[<<mid, hi>>]
                ELSE last[<<lo, mid>>]
    IN  IF RangeSpecValid(c, sensitivity) /\ Heard(start) /\ ~Heard(MaxSearchRangeM)
        THEN last[<<start, MaxSearchRangeM>>]
        ELSE 0

(* --- the network -------------------------------------------------------- *)

\* One entry per site of the layout, in its order, with the sectors of that
\* site.  Refused: a sector of no site, sectors of one site at different
\* heights, a site without sectors, a sector without range, beam or carrier.
NetworkValid(sites, cells) ==
    /\ sites # <<>>
    /\ \A i \in DOMAIN cells : \E s \in DOMAIN sites : sites[s].axial = cells[i].site
    /\ \A i, k \in DOMAIN cells : cells[i].site = cells[k].site => cells[i].height = cells[k].height
    /\ \A s \in DOMAIN sites : \E i \in DOMAIN cells : cells[i].site = sites[s].axial
    /\ \A i \in DOMAIN cells :
         cells[i].rMax > 0 /\ cells[i].beamWidth > 0 /\ cells[i].mhz > 0 /\ cells[i].height > 0

\* The power at which a point hears a sector, the pattern and the shadowing
\* of its site included.
RxDBm(c, p) ==
    LET d == Distance(p, c.enu)
        env == Environment(c.site, p)
    IN  c.eirp - PathLossDB(c.model, c.mhz, d, env.los)
          - AttenuationDB(Bearing(p.x - c.enu.x, p.y - c.enu.y) - c.azimuth, d, c)
          + env.shadowing

\* The first of the sectors that a point hears loudest.
Loudest(near, power) == Min({i \in near : power[i] = Max({power[k] : k \in near})})

\* Whether the point is covered is decided for the best server only.
ServedBy(c, sensitivity, p) ==
    [cell |-> c.id, distance |-> Distance(p, c.enu), covered |-> RxDBm(c, p) >= sensitivity]

BestOf(cells, near, sensitivity, p) ==
    IF near = {} THEN [cell |-> Nobody, distance |-> 0, covered |-> FALSE]
    ELSE ServedBy(cells[Loudest(near, [i \in near |-> RxDBm(cells[i], p)])], sensitivity, p)

\* The best server of a point: the first sector, in the order of the sites
\* and their sectors, among those heard loudest within their range.
Select(cells, sensitivity, p) ==
    BestOf(cells, {i \in DOMAIN cells : Distance(p, cells[i].enu) <= cells[i].rMax}, sensitivity, p)
=============================================================================
