------------------------------ MODULE MCClient ------------------------------
EXTENDS Client

Config(h, s, r, f, b) ==
    [heartbeat |-> h, stops |-> s, requests |-> r, faults |-> f, beats |-> b]

\* stop() against a fault; stop() against a request; a request against a fault.
MCConfigs ==
    {Config(h, TRUE, 0, 1, 0) : h \in BOOLEAN} \cup {Config(TRUE, TRUE, 1, 0, 0), Config(TRUE, FALSE, 1, 1, 0),
     Config(TRUE, TRUE, 0, 0, 1)}
=============================================================================
