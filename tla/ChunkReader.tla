------------------------------ MODULE ChunkReader ------------------------------
(***************************************************************************)
(* How a file of documents is read in chunks by the loops of readfile.cu   *)
(* and of example_readfile.cpp: fill the buffer, cut its text behind the   *)
(* last newline, move the file position back to the cut, until feof().     *)
(*                                                                         *)
(* A file is a sequence of characters: NL ends a line, and every other     *)
(* character stands for one number with its comma.                         *)
(***************************************************************************)
EXTENDS Scoring, Integers

CONSTANTS BuffSize,  \* CHUNK_SIZE, BUFFER_SIZE
          Behind     \* what may lie between the end of buff and the next NUL

ASSUME ReaderAssumption ==
    /\ BuffSize \in Nat \ {0}
    /\ Behind # {} /\ \A rest \in Behind : rest \in Seq(Nat)

VARIABLES file,
          pos,   \* ftell(fd)
          eof    \* feof(fd)

readerVars == <<file, pos, eof>>

NL == 10

ReaderInit == pos = 0 /\ eof = FALSE

\* fread(buff, sizeof(char), buffsize, fd)
Buffer == SubSeq(file, pos + 1, MinOf(pos + BuffSize, Len(file)))

\* Reading exactly the rest of the file does not set the end-of-file indicator.
HitsEof == Len(Buffer) < BuffSize

\* std::string chunk_buff(buff): a full buffer has no NUL of its own.
ChunkTexts == IF HitsEof THEN {Buffer} ELSE {Buffer \o rest : rest \in Behind}

\* find_last_of("\n") + 1, or 0 for npos.
LastNewline(text) == Max({p \in DOMAIN text : text[p] = NL} \cup {0})

Cuts(text) == ~HitsEof /\ LastNewline(text) > 0

Taken(text) == IF Cuts(text) THEN SubSeq(text, 1, LastNewline(text)) ELSE text

\* Bug: the position moves back onto the newline.
NextPosOnNewline(text) ==
    LET cur == pos + Len(Buffer)
        offset == LastNewline(text) - 1
    IN  IF Cuts(text) THEN cur - (BuffSize - offset) ELSE cur

\* Bug: one character too far.
NextPosTooFar(text) ==
    LET cur == pos + Len(Buffer)
        offset == LastNewline(text) - 1
    IN  IF Cuts(text) THEN cur - (BuffSize - offset) + 2 ELSE cur

\* fseek(fd, cur_pos - (buffsize - offset) + 1, SEEK_SET)
NextPos(text) ==
    LET cur == pos + Len(Buffer)
        offset == LastNewline(text) - 1
    IN  IF Cuts(text) THEN cur - (BuffSize - offset) + 1 ELSE cur

\* The loop reads on and leaves the characters of text for the chunk.
Read(text) ==
    /\ ~eof
    /\ text \in ChunkTexts
    /\ pos' = NextPos(text)
    /\ eof' = HitsEof
    /\ UNCHANGED file

-----------------------------------------------------------------------------
(* Lines and documents *)

\* One more character in the last row.
AddTo(rows, c) == [rows EXCEPT ![Len(rows)] = Append(@, c)]

\* The rows of a text, newlines kept: multibyte_split without strip_delimiters.
\* Behind a last newline there is no further row, as with std::getline.
Rows(text) ==
    LET rows[p \in 0..Len(text)] ==
            IF p = 0 THEN <<>>
            ELSE IF p = 1 \/ text[p - 1] = NL THEN Append(rows[p - 1], <<text[p]>>)
            ELSE AddTo(rows[p - 1], text[p])
    IN  rows[Len(text)]

Numbers(row) == IF row # <<>> /\ Last(row) = NL THEN Front(row) ELSE row

\* split_record: a blank line is one item, its newline.
Items(row) == IF row = <<NL>> THEN row ELSE Numbers(row)

LargestInt == 2147483647

\* h_atoi: an item that starts with no digit fails with the largest int.
Atoi(item) == IF item = NL THEN LargestInt ELSE item

\* What the kernels over a cuDF column see of a row.
CudfDoc(row) == [n \in DOMAIN Items(row) |-> Atoi(Items(row)[n])]

\* docsKernel stores it as uint16_t.
StoredDoc(row) == [n \in DOMAIN Items(row) |-> Atoi(Items(row)[n]) % 2^16]

Docs(rows, doc(_)) == [n \in DOMAIN rows |-> doc(rows[n])]

\* load_file_buffer keeps no blank line.
GetlineDocs(rows) ==
    FlattenSeq([n \in DOMAIN rows |-> IF Numbers(rows[n]) = <<>> THEN <<>> ELSE <<Numbers(rows[n])>>])

\* load_docs of main.cpp and load_file_line of the example, which read the file
\* line by line: the first keeps blank lines as empty documents.
LoadDocs(text) == Docs(Rows(text), Numbers)
LoadFileLine(text) == GetlineDocs(Rows(text))
=============================================================================
