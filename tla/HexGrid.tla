------------------------------- MODULE HexGrid -------------------------------
(***************************************************************************)
(* The plane of a run (pkg/geo): points in metres around the origin, and   *)
(* the hexagonal lattice whose nodes carry the sites of the network and    *)
(* the cells of the density grid.                                          *)
(***************************************************************************)
EXTENDS Integers, SequencesExt, FiniteSetsExt

Origin == [x |-> 0, y |-> 0]

Axial(q, r) == [q |-> q, r |-> r]

Node == [q : Int, r : Int]

\* The centre of a lattice node, to the metre: the lattice with node distance
\* d has columns d apart, odd rows shifted by d / 2, and rows d * sqrt(3) / 2 apart.
Center(distance, a) ==
    [x |-> (distance * (2 * a.q + a.r)) \div 2, y |-> (distance * 866 * a.r) \div 1000]

Square(n) == n * n

SquareDistance(p, o) == Square(p.x - o.x) + Square(p.y - o.y)

RootLimit == 46340   \* its square is the last one below 2^31

\* The integer part of the square root, digit by digit in base 6.
SquareFits(n, r) == r <= RootLimit /\ Square(r) <= n

Refined(n, r, place) == r + place * Max({0} \cup {k \in 1 .. 5 : SquareFits(n, r + k * place)})

Root(n) ==
    Refined(n, Refined(n, Refined(n, Refined(n, Refined(n, Refined(n, 0,
        7776), 1296), 216), 36), 6), 1)

Distance(p, o) == Root(SquareDistance(p, o))

\* The nodes whose centre lies in the disk around the origin, in rows from
\* the south and in a row from the west.  The square of a node's distance is
\* exactly distance^2 * (q^2 + q r + r^2).
Cover(distance, radius) ==
    LET reach == (2 * radius) \div distance + 1
        Inside(a) == Square(distance) * (Square(a.q) + a.q * a.r + Square(a.r)) <= Square(radius)
        Here(q, r) == IF Inside(Axial(q, r)) THEN <<Axial(q, r)>> ELSE <<>>
        Row(r) == FlattenSeq([i \in 1 .. 2 * reach + 1 |-> Here(i - reach - 1, r)])
    IN  FlattenSeq([i \in 1 .. 2 * reach + 1 |-> Row(i - reach - 1)])
=============================================================================
