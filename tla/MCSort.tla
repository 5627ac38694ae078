------------------------------- MODULE MCSort -------------------------------
(* Arrays for ConcurrentSort: input.txt, one sorted backwards, and arrays of *)
(* zeros and ones that only the last phase sorts.                            *)
EXTENDS ConcurrentSort

Rows(lines) == [r \in Index |-> [c \in Index |-> lines[r + 1][c + 1]]]

HardInputs ==
  { Rows(<<<<3, 11, 6, 16>>, <<8, 1, 5, 10>>, <<14, 7, 12, 2>>, <<4, 13, 9, 15>>>>),
    Rows(<<<<16, 15, 14, 13>>, <<9, 10, 11, 12>>, <<8, 7, 6, 5>>, <<1, 2, 3, 4>>>>),
    Rows(<<<<0, 0, 0, 0>>, <<0, 0, 0, 1>>, <<0, 0, 0, 0>>, <<0, 0, 0, 1>>>>),
    Rows(<<<<0, 0, 0, 1>>, <<0, 0, 1, 1>>, <<0, 0, 1, 0>>, <<0, 1, 1, 0>>>>),
    Rows(<<<<1, 1, 1, 0>>, <<1, 0, 0, 1>>, <<1, 0, 1, 1>>, <<0, 1, 1, 1>>>>),
    Rows(<<<<0, 1, 1, 1>>, <<1, 1, 1, 1>>, <<0, 1, 1, 1>>, <<1, 1, 1, 1>>>>) }
=============================================================================
