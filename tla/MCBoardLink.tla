------------------------------ MODULE MCBoardLink ------------------------------
EXTENDS BoardLink

CONSTANTS p1, p2, dark, lit

\* What the threads ask the access process.
MCThread == Page \cup {Sampler}
MCRequest ==
  [op : {"read_many", "read"}] \cup [op : {"write"}, value : Control] \cup [op : {"digits"}]

================================================================================
