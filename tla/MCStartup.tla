----------------------------- MODULE MCStartup ------------------------------
\* Start-up with a signal that Spine is asked to ignore or not, and a fault.
EXTENDS Startup

MCFatalSignals == <<"INT", "SEGV">>
=============================================================================
