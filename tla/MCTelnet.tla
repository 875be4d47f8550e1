------------------------------ MODULE MCTelnet ------------------------------
EXTENDS Telnet

\* A line, text with an escaped 255, requests, a refusal, a command without
\* effect, a subnegotiation with everything that could end it too early, and
\* the beginning of a command that the next chunk goes on with.
MCChunks == {
    << "LF" >>,
    << "x", "IAC", "IAC" >>,
    << "IAC", "WILL", "x" >>,
    << "IAC", "DO", "y", "IAC", "WONT", "y" >>,
    << "IAC", "NOP", "IAC", "SB", "x", "IAC", "IAC", "SE", "y", "IAC", "y", "IAC", "SE" >>,
    << "IAC" >> }
=============================================================================
