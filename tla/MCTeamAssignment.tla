-------------------------- MODULE MCTeamAssignment --------------------------
\* TeamAssignment with calls whose layers overlap in different orders.
EXTENDS TeamAssignment

CONSTANTS l1, l2, l3

List(layers, drops) ==
  [op |-> "list", layers |-> layers, drops |-> drops, reinstates |-> FALSE]

Bulk(layers, reinstates) ==
  [op |-> "bulk", layers |-> layers, drops |-> {}, reinstates |-> reinstates]

\* Three that can wait for each other in a circle, and one that names a layer
\* twice.
Circles == { List(<<l1, l2>>, {l1}), List(<<l2, l3>>, {l3}), Bulk(<<l3, l1>>, TRUE),
             List(<<l1, l1>>, {l1}) }

\* Two orders of the same layers.
Crossing == { List(<<l1, l2>>, {l1, l2}), List(<<l2, l1>>, {}), Bulk(<<l2, l1>>, TRUE) }

\* A connection to spare, and none.
MCLimits == { [connections |-> 4, calls |-> Circles],
              [connections |-> 3, calls |-> Crossing] }
=============================================================================
