--------------------------- MODULE MCCurrentLoop ----------------------------
(* A small instance of CurrentLoop for TLC: fixed-point numbers of eight   *)
(* bits, two of them behind the point.                                     *)
EXTENDS CurrentLoop

\* The supply fails once, the current goes both ways, and the temperature goes
\* to the end of its range and to an entry of the table.
MCReading == <<<<3, 1, 1, 5, 3990>>, <<3, 1, 3, 6, 128>>, <<0, 1, 0, 7, 4095>>>>

MCHighest == <<3, 1, 3, 7, 4095>>

MCSetpoints == {0, 10}

\* It turns the sign of either term.
MCGains == {-8}

\* The table of the firmware.
MCLut == <<
  -2621440, -2621440, -2125050, -1646743, -1283307, -984969, -728754, -502058,
  -297181, -109051, 65864, 230127, 385667, 533975, 676232, 813396,
  946255, 1075470, 1201605, 1325147, 1446522, 1566109, 1684251, 1801259,
  1917420, 2033004, 2148268, 2263457, 2378811, 2494565, 2610956, 2728220,
  2846601, 2964467, 3085820, 3209077, 3334532, 3462505, 3593339, 3727415,
  3865149, 4007009, 4153519, 4305275, 4462958, 4627353, 4799377, 4980110,
  5170835, 5373100, 5588791, 5820246, 6070405, 6343038, 6643087, 6977201,
  7354603, 7788589, 8299274, 8919060, 9704832, 9830400, 9830400, 9830400,
  9830400 >>

ASSUME NothingOverflows == InRange
=============================================================================
