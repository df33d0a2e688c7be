---------------------------- MODULE MCFilHeader ----------------------------
(* Strings of up to 16 letters, of which 15 fit an object, and a table of  *)
(* two channels.                                                           *)
EXTENDS FilHeader

User(name, raw, channels, chans) ==
  [name |-> name, raw |-> raw, channels |-> channels, chans |-> chans]

MCNames == {"Crab", "", "SourceOf16Letter", "ASourceOf20LettersXX", "HEADER_END",
            "FREQUENCY_START"}

(* Every name with a table, with equal channels and with the zeros that    *)
(* make a table; one channel more than there is room for, and a name of a  *)
(* raw data file one letter longer than there is room for.                 *)
MCUsers ==
  {User(name, "raw", "table", 1) : name \in MCNames}
    \cup {User(name, "raw", "zeros", 2) : name \in MCNames}
    \cup {User(name, "raw", "equal", 2) : name \in MCNames}
    \cup {User("Crab", "raw", "table", 3), User("Crab", "raw", "equal", 3),
          User("FREQUENCY_START", "raw", "equal", 3),
          User("Crab", "DataOf16Letters.", "equal", 1)}
=============================================================================
