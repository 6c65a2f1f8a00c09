--------------------------- MODULE MCDanmuBridge ---------------------------
EXTENDS DanmuBridge

Budget(players, starts, ends, losses, plain, comments) ==
  [players |-> players, starts |-> starts, ends |-> ends, losses |-> losses,
   plain |-> plain, said |-> comments]

CONSTANTS a, b

MCSessions == {a, b}

\* One session with comments, uncompressed packets, a lost connection and the end
\* of the three minutes; one that loses its connection and cannot connect again,
\* or has to tell a comment again; a player who starts twice, with what the first
\* start has left; and two players who share the file.
MCBudgets ==
  { Budget({a}, 1, 1, 1, 2, 2), Budget({a}, 1, 0, 2, 0, 1), Budget({a}, 2, 0, 0, 0, 2),
    Budget({a, b}, 2, 1, 0, 0, 0) }

=============================================================================
