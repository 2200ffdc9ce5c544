----------------------------- MODULE CsvLogger -----------------------------
(***************************************************************************)
(* common::Logger<T>: results are formatted as CSV lines and written to a  *)
(* file through a tokio BufWriter.  Lines collect in the buffer and reach  *)
(* the file only when the next line would not fit; nothing in the code     *)
(* flushes the buffer, and a dropped BufWriter discards it.                *)
(*                                                                         *)
(* A logger is a record: buf is what the BufWriter holds, disk what the    *)
(* file holds after its header line.  Lines are taken to have one length,  *)
(* so that the 8 KiB of the buffer are BufCap lines.                       *)
(***************************************************************************)
EXTENDS Naturals, Sequences

CONSTANT BufCap     \* lines the BufWriter holds

ASSUME BufCapAssumption == BufCap \in Nat \ {0}

NewLogger == [buf |-> << >>, disk |-> << >>]

Logger(Result) == [buf : Seq(Result), disk : Seq(Result)]

\* Mutant: the buffer is replaced without being written out.
LogDropsBuffer(lg, r) ==
    IF Len(lg.buf) < BufCap
    THEN [lg EXCEPT !.buf = Append(@, r)]
    ELSE [lg EXCEPT !.buf = << r >>]

\* Logger::log: write_all on the BufWriter.
Log(lg, r) ==
    IF Len(lg.buf) < BufCap
    THEN [lg EXCEPT !.buf = Append(@, r)]
    ELSE [buf |-> << r >>, disk |-> lg.disk \o lg.buf]
=============================================================================
