-------------------------- MODULE MCDaemonMessages --------------------------
EXTENDS DaemonMessages

\* A message that is written at once, and one that is written in two parts.
ShortAndLong == <<1, 2>>
=============================================================================
