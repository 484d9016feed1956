----------------------------- MODULE LineReaders -----------------------------
(***************************************************************************)
(* Three readers of lines that arrive in pieces: attachJsonlReader         *)
(* (lib/jsonl.mjs) on the output of pi, createStreamMeter                  *)
(* (lib/sse-meter.mjs) on the answer of a provider, and createEventReader  *)
(* (pi-companion.mjs) on the event file of a run, which "watch" reads in   *)
(* slices: a later call goes on from the cursor the earlier one printed.   *)
(*                                                                         *)
(* Text is a sequence of bytes: a letter, a byte that spoils a line for    *)
(* JSON, the halves of a character of two bytes, the end of a line.  What  *)
(* a reader hands on is a line as a sequence of bytes, Garbled for a half  *)
(* of a character that was decoded by itself.                              *)
(***************************************************************************)
EXTENDS Integers, SequencesExt

CONSTANTS
  MaxBytes,       (* bound: length of the text                               *)
  MaxPartial      (* the meter drops a longer line it has not all of         *)

VARIABLES
  kind,           (* which of the readers                                    *)
  text,           (* all that was written                                    *)
  over,           (* nothing more comes: the pipe is at its end              *)
  offset,         (* how much of it was read                                 *)
  partial,        (* what is held back of a line                             *)
  line,           (* lines counted, and the cursor of the next slice         *)
  handed,         (* the lines handed on, in order                           *)
  dropped         (* did the meter drop a long line? (history)               *)

vars == <<kind, text, over, offset, partial, line, handed, dropped>>

Kinds == {"jsonl", "meter", "file"}
Bytes == {"a", "bad", "head", "tail", "end"}
Garbled == "garbled"
Line    == Seq(Bytes \cup {Garbled})

TypeOK ==
  /\ kind \in Kinds
  /\ text \in Seq(Bytes) /\ over \in BOOLEAN
  /\ offset \in 0 .. Len(text) /\ line \in Nat
  /\ partial \in Line
  /\ handed \in Seq(Line)
  /\ dropped \in BOOLEAN

Init ==
  /\ kind \in Kinds
  /\ text = <<>> /\ over = FALSE /\ offset = 0 /\ partial = <<>>
  /\ line = 0 /\ handed = <<>> /\ dropped = FALSE
-----------------------------------------------------------------------------
(* The writer: a character, or the end of a line, in any pieces.             *)
Write ==
  /\ ~over /\ Len(text) < MaxBytes
  /\ \E byte \in Bytes :
       /\ (byte = "tail") <=> (text # <<>> /\ Last(text) = "head")
       /\ text' = Append(text, byte)
  /\ UNCHANGED <<kind, over, offset, partial, line, handed, dropped>>

Close ==
  /\ ~over /\ over' = TRUE
  /\ text # <<>> => Last(text) # "head"
  /\ UNCHANGED <<kind, text, offset, partial, line, handed, dropped>>
-----------------------------------------------------------------------------
(* A line is handed on unless it is blank.                                   *)
Emitted(l) == IF l = <<>> THEN <<>> ELSE <<l>>

(* The lines of a text that are complete, and the rest behind them.          *)
LinesOf[s \in Line] ==
  IF s = <<>> THEN [lines |-> <<>>, rest |-> <<>>]
  ELSE LET before == LinesOf[Front(s)]
       IN  IF Last(s) = "end"
           THEN [lines |-> before.lines \o Emitted(before.rest), rest |-> <<>>]
           ELSE [lines |-> before.lines, rest |-> Append(before.rest, Last(s))]

Parses(l) == \A i \in DOMAIN l : l[i] # "bad"

(* Those of the lines that are JSON.                                         *)
Parsed[s \in Seq(Line)] ==
  IF s = <<>> THEN <<>>
  ELSE Parsed[Front(s)] \o (IF Parses(Last(s)) THEN <<Last(s)>> ELSE <<>>)

(* A piece decoded by itself, as the meter does.                             *)
Alone(piece) ==
  [i \in DOMAIN piece |->
     IF \/ piece[i] = "tail" /\ i = 1
        \/ piece[i] = "head" /\ i = Len(piece)
     THEN Garbled ELSE piece[i]]

(* attachJsonlReader decodes with a StringDecoder and createEventReader      *)
(* whole lines only, so that pieces can be kept as bytes.                    *)
Decoded(piece) == IF kind = "meter" THEN Alone(piece) ELSE piece

(* A piece arrives, or the file is pulled from the offset to its end.        *)
Read ==
  /\ offset < Len(text)
  /\ \E upTo \in IF kind = "file" THEN {Len(text)} ELSE offset + 1 .. Len(text) :
       LET new == LinesOf[partial \o Decoded(SubSeq(text, offset + 1, upTo))]
           long == kind = "meter" /\ Len(new.rest) > MaxPartial
       IN  /\ offset' = upTo
           /\ partial' = IF long THEN <<>> ELSE new.rest
           /\ dropped' = (dropped \/ long)
           /\ line' = line + Len(new.lines)
           /\ handed' = handed \o
                (IF kind = "jsonl" THEN new.lines ELSE Parsed[new.lines])
  /\ UNCHANGED <<kind, text, over>>

(* The end of the pipe: attachJsonlReader hands on what it holds back; the   *)
(* meter does not, and a file has no end.                                    *)
Flush ==
  /\ kind = "jsonl" /\ over /\ offset = Len(text) /\ partial # <<>>
  /\ handed' = Append(handed, partial)
  /\ partial' = <<>>
  /\ UNCHANGED <<kind, text, over, offset, line, dropped>>

(* Mutant: the cursor counts the events, not the lines.                      *)
CursorOfEvents == Len(handed)

(* The cursor a slice prints.                                                *)
Cursor == line

(* Another call of "watch --since": a new reader pulls the whole file, and   *)
(* of its lines those behind the cursor are handed on.                       *)
NextSlice ==
  /\ kind = "file" /\ text # <<>>
  /\ LET all == LinesOf[text].lines
     IN  /\ handed' = handed \o Parsed[SubSeq(all, Cursor + 1, Len(all))]
         /\ line' = Len(all)
  /\ partial' = LinesOf[text].rest
  /\ offset' = Len(text)
  /\ UNCHANGED <<kind, text, over, dropped>>

Next == Write \/ Close \/ Read \/ Flush \/ NextSlice

Spec == Init /\ [][Next]_vars
-----------------------------------------------------------------------------
(* What was written up to the last line a reader has all of.                 *)
Expected ==
  LET read == LinesOf[SubSeq(text, 1, offset)].lines
  IN  IF kind = "jsonl" THEN read ELSE Parsed[read]

Unspoilt(l) == [i \in DOMAIN l |-> IF l[i] \in {"head", "tail"} THEN Garbled ELSE l[i]]

(* Whatever pieces a text comes in, and in however many slices it is read,   *)
(* every line of it is handed on once, in order and, where its text is kept, *)
(* as it was written; the end of a pipe ends a line.  The meter keeps the    *)
(* numbers of a line only, and drops a line that is too long.                *)
LinesOnce ==
  CASE kind = "meter" -> dropped \/ (Len(handed) = Len(Expected)
                           /\ \A i \in DOMAIN handed : Unspoilt(handed[i]) = Unspoilt(Expected[i]))
    [] kind = "jsonl" /\ over /\ offset = Len(text) /\ partial = <<>> ->
         handed = LinesOf[text].lines \o Emitted(LinesOf[text].rest)
    [] OTHER -> handed = Expected
=============================================================================
