-------------------------------- MODULE Tape --------------------------------
(***************************************************************************)
(* What a ByteArray promises: a text with a position.  Bytes are written   *)
(* and read at the position and move it; nothing is said of the blocks     *)
(* the bytes are kept in.                                                  *)
(***************************************************************************)
EXTENDS Integers, Sequences

CONSTANT Cell      \* what a byte of the text may be

VARIABLES
    text,
    pos,
    io      \* the bytes the last operation was given or has handed out

vars == <<text, pos, io>>

Init == text \in Seq(Cell) /\ pos = 0 /\ io = <<>>

Longer(n) == IF n > Len(text) THEN n ELSE Len(text)

\* The bytes of io' replace those at the position, or go to the end of the text.
Put ==
    /\ pos' = pos + Len(io')
    /\ Len(text') = Longer(pos')
    /\ \A i \in 1 .. Len(text') :
          text'[i] = IF pos < i /\ i <= pos' THEN io'[i - pos] ELSE text[i]

\* The next bytes are handed out; the position moves behind them or stays.
Take ==
    /\ text' = text
    /\ pos + Len(io') <= Len(text)
    /\ io' = SubSeq(text, pos + 1, pos + Len(io'))
    /\ pos' \in {pos, pos + Len(io')}

\* Beyond the end of the text the position makes it longer, by bytes of any value.
Seek ==
    /\ io' = <<>>
    /\ Len(text') = Longer(pos')
    /\ \A i \in 1 .. Len(text) : text'[i] = text[i]

Clear == text' = <<>> /\ pos' = 0 /\ io' = <<>>

Next ==
    /\ text' \in Seq(Cell) /\ pos' \in Nat /\ io' \in Seq(Cell)
    /\ Put \/ Take \/ Seek \/ Clear

Spec == Init /\ [][Next]_vars
=============================================================================
