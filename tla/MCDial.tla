------------------------------- MODULE MCDial -------------------------------
EXTENDS Dial

\* A name with two ports, one of them of two nodes, an IP address with two, and
\* a name whose resolver hangs.
MixedList ==
    <<<<"shared", 443>>, <<"ip", 1>>, <<"hangs", 443>>,
      <<"shared", 443>>, <<"ip", 2>>, <<"shared", 80>>>>

\* Two nodes behind one name that differ in their port only.
TwoPorts == <<<<"shared", 443>>, <<"shared", 80>>>>
=============================================================================
