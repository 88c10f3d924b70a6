---------------------------- MODULE MCControlLink ----------------------------
EXTENDS ControlLink

\* What the web server asks the loop.
MCRequest == [op : {"state", "history"}] \cup [op : {"set"}, mode : Mode]

==============================================================================
