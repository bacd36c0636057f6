---------------------------- MODULE MCResolution ----------------------------
EXTENDS Resolution

\* Every choice of the optional terms, with windows of one or more seconds; the
\* terms that overflow MaxTs or are out of order are refused by Init.
MCTerms ==
    [close : {1, 2}, earliest : {Absent, 3}, delay : {1, 2},
     available : {Absent, 4}, deadline : {Absent, 5, 7}]
=============================================================================
