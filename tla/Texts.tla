-------------------------------- MODULE Texts --------------------------------
(***************************************************************************)
(* Text files as the editor sees them: str.splitlines(keepends=True) cuts  *)
(* a text into lines, "".join puts pieces together.  A line is the atoms   *)
(* it is made of and the way it ends: "lf" with a line feed, "none" where  *)
(* the text stops, "sep" with one of the other separators that splitlines  *)
(* knows (form feed, U+2028), which are no newlines to anybody else.       *)
(***************************************************************************)
EXTENDS Integers, SequencesExt

CONSTANT Atoms   \* what the text of a line is made of

Line == [text : Seq(Atoms), end : {"lf", "none", "sep"}]

\* A piece after an unterminated one continues its line.
Glued(text, piece) ==
    IF piece.text = <<>> /\ piece.end = "none" THEN text
    ELSE IF text # <<>> /\ Last(text).end = "none"
    THEN Append(Front(text), [Last(text) EXCEPT !.text = @ \o piece.text,
                                                !.end = piece.end])
    ELSE Append(text, piece)

\* "".join(pieces).splitlines(keepends=True)
Text(pieces) ==
    LET text[n \in 0 .. Len(pieces)] ==
            IF n = 0 THEN <<>> ELSE Glued(text[n - 1], pieces[n])
    IN  text[Len(pieces)]
=============================================================================
