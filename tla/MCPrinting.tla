----------------------------- MODULE MCPrinting -----------------------------
EXTENDS Printing

\* both ends of an int, the neighbours of each table, holes of error_codes
MCForeign ==
  {-2147483647, 2147483647, -71, -29, -20, 5, 71, \h8FF, \h905, \hFFF,
   \h1089, \h1285, -999}
=============================================================================
