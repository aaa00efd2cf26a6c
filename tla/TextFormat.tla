----------------------------- MODULE TextFormat -----------------------------
(***************************************************************************)
(* The text format of backend.c: pages written one after the other by      *)
(* backend_text_write_page, and read one after the other by                *)
(* backend_text_read_page from another descriptor of the file.             *)
(*                                                                         *)
(* A record is a line with the page's id, lines with its fields, of which  *)
(* the reader ignores TIER, and END.  A page stands for all its fields.    *)
(***************************************************************************)
EXTENDS Naturals, Sequences, SequencesExt

CONSTANTS Pages,       \* page contents
          None,        \* what memset leaves in a field
          FieldLines,  \* lines between PAGE and END
          Buffer,      \* lines that one read of the stream brings
          Resync,      \* fclose gives back what the stream read ahead
          MaxRecords,  \* bound on the records in the file
          ShortWrites  \* dprintf may write a part only

ASSUME TextAssumption ==
    /\ None \notin Pages /\ FieldLines \in Nat \ {0} /\ Buffer \in Nat \ {0}
    /\ Resync \in BOOLEAN /\ ShortWrites \in BOOLEAN /\ MaxRecords \in Nat

VARIABLES
    lines,    \* the file
    pos,      \* the offset of the reader's descriptor
    wrote,    \* (history) the pages written
    result,   \* what the last call of the reader returned: "ok" or "io"
    got       \* (history) what the calls that returned UFTA_OK read

textVars == <<lines, pos, wrote, result, got>>

\* The tags of a record's lines: 0 is PAGE, the last one END.
End == FieldLines + 1
Cut == FieldLines + 2     \* a line that was not written to its end
Record(p) == [i \in 1 .. End + 1 |-> [tag |-> i - 1, page |-> p]]

TextInit == lines = <<>> /\ pos = 0 /\ wrote = <<>> /\ result = "ok" /\ got = <<>>

\* A line that was cut short takes the next record's first line as its end.
Join(old, new) == IF old # <<>> /\ Last(old).tag = Cut THEN old \o Tail(new) ELSE old \o new

\* backend_text_write_page returns UFTA_OK whatever dprintf returns, which
\* may have written a part that ends inside a line.
WriteRecord(p) ==
    /\ Len(wrote) < MaxRecords
    /\ \/ lines' = Join(lines, Record(p))
       \/ ShortWrites /\ \E n \in 1 .. Len(Record(p)):
             lines' = Join(lines, SubSeq(Record(p), 1, n - 1)
                                    \o <<[tag |-> Cut, page |-> p]>>)
    /\ wrote' = Append(wrote, p)
    /\ UNCHANGED <<pos, result, got>>

-----------------------------------------------------------------------------
(* backend_text_read_page                                                  *)

\* The line of the first END after the offset, 0 if there is none.
NextEnd ==
    LET k == SelectInSeq(SubSeq(lines, pos + 1, Len(lines)), LAMBDA l: l.tag = End)
    IN  IF k = 0 THEN 0 ELSE pos + k

\* Each field is what the last line with its tag says.
Field(tag, first, last) ==
    LET k == SelectLastInSeq(SubSeq(lines, first, last), LAMBDA l: l.tag = tag)
    IN  IF k = 0 THEN None ELSE lines[first + k - 1].page

Parsed(first, last) == [i \in 0 .. FieldLines |-> Field(i, first, last)]

\* The stream reads whole buffers until it has the line: the descriptor,
\* shared through dup, stands behind them unless fclose repositions it.
Behind(line) ==
    LET full == pos + Buffer * ((line - pos + Buffer - 1) \div Buffer)
    IN  IF full <= Len(lines) THEN full ELSE Len(lines)

\* Mutant: the loop stops at the next record's first line.
ReadToNextPage ==
    /\ NextEnd # 0
    /\ LET last == IF NextEnd < Len(lines) THEN NextEnd + 1 ELSE NextEnd
       IN  /\ got' = Append(got, Parsed(pos + 1, last))
           /\ pos' = last
    /\ result' = "ok"
    /\ UNCHANGED <<lines, wrote>>

ReadRecord ==
    /\ NextEnd # 0
    /\ got' = Append(got, Parsed(pos + 1, NextEnd))
    /\ pos' = IF Resync THEN NextEnd ELSE Behind(NextEnd)
    /\ result' = "ok"
    /\ UNCHANGED <<lines, wrote>>

\* No END before the end of the file: UFTA_ERR_IO.
ReadFails ==
    /\ NextEnd = 0
    /\ pos' = Len(lines) /\ result' = "io"
    /\ UNCHANGED <<lines, wrote, got>>

TextNext == (\E p \in Pages: WriteRecord(p)) \/ ReadRecord \/ ReadFails

TextSpec == TextInit /\ [][TextNext]_textVars

-----------------------------------------------------------------------------
(* Properties                                                              *)

WholePage(p) == [i \in 0 .. FieldLines |-> p]

(* A page that backend_text_read_page returns with UFTA_OK has all its       *)
(* fields from one record (backend.c:197-235): no field of its own missing,  *)
(* none of another page.                                                     *)
WholeRecords == \A k \in DOMAIN got: \E p \in Pages: got[k] = WholePage(p)

(* As long as no write was cut short, successive calls return the pages      *)
(* written, in their order and without a gap, however the reader's calls     *)
(* fall between the writer's (backend.c:168-235).                            *)
ReadsInOrder ==
    (\A k \in DOMAIN lines: lines[k].tag # Cut) =>
        /\ Len(got) <= Len(wrote)
        /\ \A k \in DOMAIN got: got[k] = WholePage(wrote[k])
=============================================================================
