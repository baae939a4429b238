-------------------------- MODULE MCPulseCounterIp --------------------------
EXTENDS PulseCounterIp

MCSettings == {0, 1}
=============================================================================
