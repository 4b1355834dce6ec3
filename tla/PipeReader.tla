----------------------------- MODULE PipeReader -----------------------------
(***************************************************************************)
(* findJSONStart of the pipe reader (pipe_reader/main.go:89-104), as a     *)
(* pure operator; StatelessProofs says what it finds in the lines that     *)
(* createSyslogMessage writes. A line is a sequence of characters;         *)
(* positions count from 1 and 0 stands for the -1 of the code.             *)
(***************************************************************************)
EXTENDS Integers, Sequences

Blank == {" ", "\t"}

(* The inner loop: the first character after the colon that is no blank.   *)
StartAfter(line, colon) ==
  {j \in colon + 1 .. Len(line) :
     line[j] \notin Blank /\ \A k \in colon + 1 .. j - 1 : line[k] \in Blank}

(* The outer loop takes the first colon for which there is one.            *)
FindJSONStart(line) ==
  LET colons == {i \in 1 .. Len(line) : line[i] = ":" /\ StartAfter(line, i) # {}}
      first  == CHOOSE i \in colons : \A k \in colons : i <= k
  IN  IF colons = {} THEN 0 ELSE CHOOSE j \in StartAfter(line, first) : TRUE
=============================================================================
