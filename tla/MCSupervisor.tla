---------------------------- MODULE MCSupervisor ----------------------------
EXTENDS Supervisor

\* A generation, its successor and the successor of that, on two ports.
CONSTANTS a, b, c, p1, p2

MCCalls == {a, b, c}
MCPorts == {p1, p2}
=============================================================================
