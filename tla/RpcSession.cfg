\* A session of three pings and an inventory whose calls may run into their
\* time limits.
CONSTANT Samples = 3
SPECIFICATION ProbeSpec
INVARIANTS TypeOK ReportIsPaired CallsArePaired
PROPERTIES ProbeEnds AgentSessionEnds
