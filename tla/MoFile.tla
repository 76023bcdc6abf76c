------------------------------- MODULE MoFile -------------------------------
(***************************************************************************)
(* The GNU message catalogue reader: read_mofile() and read_mo_strings()  *)
(* in src/lib/mofile.c, with the mo_file_t and mo_entry_t layouts of      *)
(* src/include/mofile.h.                                                  *)
(*                                                                         *)
(* A byte is a digit of base ByteBase and a uint32_t four of them, so    *)
(* uint32_t arithmetic is modulo ByteBase^4 (the model's 2^32).  The file *)
(* is a sequence of bytes; 'fpos' is the stdio file position.  The file  *)
(* is built from a catalogue record by Encode, the layout GNU gettext    *)
(* writes: the magic and six header words in the file's byte order, the  *)
(* two tables of (length, offset) entries, then the NUL-terminated       *)
(* strings.  A record may be truncated, and may lie about a length.     *)
(***************************************************************************)
EXTENDS Naturals, Sequences, SequencesExt

CONSTANTS
    ByteBase,      \* values of a byte
    HostOrder,     \* "LE" or "BE": the byte order fread() stores words in
    Catalogs,      \* the catalogue records a file may be built from
    OpenMayFail,   \* fopen(filename, "rb") may fail
    CloseMayFail,  \* fclose(f) may fail
    NULL           \* a null pointer

Word == ByteBase ^ 4          \* 2^32 of the model
Byte == 0..(ByteBase - 1)

(* The four bytes of v, least significant first. *)
Digits(v) == [n \in 1..4 |-> (v \div (ByteBase ^ (n - 1))) % ByteBase]

WordBytes(v, order) == IF order = "LE" THEN Digits(v) ELSE Reverse(Digits(v))

(* MO_BE is the magic read big-endian from a big-endian file; MO_LE the  *)
(* same four bytes read from a little-endian file (mofile.h 16-17).      *)
MagicDigits == <<2, 0, 1, 3>>
BigEndianValue(bs) == bs[1] * ByteBase^3 + bs[2] * ByteBase^2 + bs[3] * ByteBase + bs[4]
MO_BE == BigEndianValue(MagicDigits)
MO_LE == BigEndianValue(Reverse(MagicDigits))

-----------------------------------------------------------------------------
(* The catalogue format: the reference the reader is checked against.   *)

Strings(c) == c.orig \o c.trans

StringOffset(c, j) ==
    28 + 16 * Len(c.orig)
       + FoldLeft(LAMBDA a, s : a + Len(s) + 1, 0, SubSeq(Strings(c), 1, j - 1))

EntryBytes(c, j) ==
    LET len == IF c.lie /\ j = 1 THEN Word - 1 ELSE Len(Strings(c)[j])
    IN WordBytes(len, c.order) \o WordBytes(StringOffset(c, j), c.order)

Encode(c) ==
    LET n      == Len(c.orig)
        magic  == IF c.order = "BE" THEN MagicDigits ELSE Reverse(MagicDigits)
        header == FlattenSeq([f \in 1..6 |->
                     WordBytes(<<0, n, 28, 28 + 8 * n, 0, 0>>[f], c.order)])
        full   == magic \o header
                  \o FlattenSeq([j \in 1..(2 * n) |-> EntryBytes(c, j)])
                  \o FlattenSeq([j \in 1..(2 * n) |-> Strings(c)[j] \o <<0>>])
    IN SubSeq(full, 1, Len(full) - c.cut)

-----------------------------------------------------------------------------
VARIABLES
    doc,         \* the catalogue record the file was written from
    file,        \* the bytes of the file
    fpos,        \* the file position
    pc,
    i,           \* the loop index of the magic loop
    magic, ver, numstrings, origoffset, transoffset, htsz, htoffset,
    tab,         \* the table read_mo_strings() is reading: "orig", "trans"
    array,       \* the strings read so far into that table's array
    original, translated,  \* mf->original, mf->translated (NULL or a sequence)
    overrun,     \* a fread() has written past the end of its buffer
    errcall      \* the call err() named when it ended the program

vars == <<doc, file, fpos, pc, i, magic, ver, numstrings, origoffset,
          transoffset, htsz, htoffset, tab, array, original, translated, overrun,
          errcall>>

Header == <<ver, numstrings, origoffset, transoffset, htsz, htoffset>>

TypeOK ==
    /\ doc \in Catalogs /\ file \in Seq(Byte) /\ fpos \in Nat
    /\ pc \in {"open", "magic", "header", "table", "entry", "close", "done", "exited"}
    /\ i \in 0..4 /\ magic \in 0..(Word - 1)
    /\ \A n \in 1..6 : Header[n] \in 0..(Word - 1)
    /\ tab \in {"orig", "trans"} /\ array \in Seq(Seq(Byte))
    /\ original = NULL \/ original \in Seq(Seq(Byte))
    /\ translated = NULL \/ translated \in Seq(Seq(Byte))
    /\ overrun \in BOOLEAN
    /\ errcall \in {"none", "fopen", "fread", "fclose"}

(* calloc(1, sizeof of the mo_file_t): every field zero. *)
Init ==
    /\ doc \in Catalogs /\ file = Encode(doc) /\ fpos = 0
    /\ pc = "open" /\ i = 0
    /\ magic = 0 /\ ver = 0 /\ numstrings = 0 /\ origoffset = 0
    /\ transoffset = 0 /\ htsz = 0 /\ htoffset = 0
    /\ tab = "orig" /\ array = <<>>
    /\ original = NULL /\ translated = NULL
    /\ overrun = FALSE /\ errcall = "none"

(* fread() of n bytes at position p: the bytes the file still has there. *)
Available(p, n) == IF p >= Len(file) THEN 0
                   ELSE IF Len(file) - p < n THEN Len(file) - p ELSE n

(* A uint32_t fread() stores from bytes b in the host's byte order. *)
HostWord(bs) == IF HostOrder = "BE" THEN BigEndianValue(bs)
                ELSE BigEndianValue(Reverse(bs))

WordAt(p) == HostWord(SubSeq(file, p + 1, p + 4))

(* err() names the call that failed when the step ends the program. *)
ErrCall(call) == errcall' = IF pc' = "exited" THEN call ELSE errcall

(* mf->original or mf->translated, whichever 'tab' names, is set. *)
SetTable(val) ==
    /\ original' = IF tab = "orig" THEN val ELSE original
    /\ translated' = IF tab = "trans" THEN val ELSE translated

(* After a table: the translated one is read next, or the file closed. *)
NextTable ==
    IF tab = "orig" THEN tab' = "trans" /\ pc' = "table"
                    ELSE UNCHANGED tab /\ pc' = "close"

(* fopen(filename, "rb") (mofile.c 95-99). *)
Open ==
    /\ pc = "open"
    /\ \/ OpenMayFail /\ pc' = "exited"
       \/ pc' = "magic"
    /\ UNCHANGED <<doc, file, fpos, i, magic, ver, numstrings, origoffset,
                   transoffset, htsz, htoffset, tab, array, original,
                   translated, overrun>>
    /\ ErrCall("fopen")

(* Mutant: the loop runs for i <= sizeof(mf->magic). *)
MagicByteOffByOne ==
    /\ pc = "magic"
    /\ IF Available(fpos, 1) = 0
          THEN pc' = "exited" /\ UNCHANGED <<fpos, i, magic>>
          ELSE /\ magic' = (magic + file[fpos + 1] * ByteBase ^ ((3 - i) % 4)) % Word
               /\ fpos' = fpos + 1 /\ i' = i + 1
               /\ pc' = IF i = 4 THEN "header" ELSE "magic"
    /\ UNCHANGED <<doc, file, ver, numstrings, origoffset, transoffset, htsz,
                   htoffset, tab, array, original, translated, overrun>>
    /\ ErrCall("fread")

(* Mutant: the first byte is taken as the least significant. *)
MagicByteLowFirst ==
    /\ pc = "magic"
    /\ IF Available(fpos, 1) = 0
          THEN pc' = "exited" /\ UNCHANGED <<fpos, i, magic>>
          ELSE /\ magic' = (magic + file[fpos + 1] * ByteBase ^ i) % Word
               /\ fpos' = fpos + 1 /\ i' = i + 1
               /\ pc' = IF i = 3 THEN "header" ELSE "magic"
    /\ UNCHANGED <<doc, file, ver, numstrings, origoffset, transoffset, htsz,
                   htoffset, tab, array, original, translated, overrun>>
    /\ ErrCall("fread")

(***************************************************************************)
(* One pass of the magic loop (mofile.c 105-114): a byte is read and     *)
(* added in at bit position 24 - 8i, so the first byte is the most       *)
(* significant whatever the host's byte order; a short read is err().    *)
(***************************************************************************)
MagicByte ==
    /\ pc = "magic"
    /\ IF Available(fpos, 1) = 0
          THEN pc' = "exited" /\ UNCHANGED <<fpos, i, magic>>
          ELSE /\ magic' = (magic + file[fpos + 1] * ByteBase ^ (3 - i)) % Word
               /\ fpos' = fpos + 1 /\ i' = i + 1
               /\ pc' = IF i = 3 THEN "header" ELSE "magic"
    /\ UNCHANGED <<doc, file, ver, numstrings, origoffset, transoffset, htsz,
                   htoffset, tab, array, original, translated, overrun>>
    /\ ErrCall("fread")

(***************************************************************************)
(* fread(&mf->ver, 4, 6, f) (mofile.c 117-121): the six header words, in *)
(* the host's byte order; fewer than six whole words is err().           *)
(***************************************************************************)
ReadHeader ==
    /\ pc = "header"
    /\ IF Available(fpos, 24) < 24
          THEN pc' = "exited"
               /\ UNCHANGED <<fpos, ver, numstrings, origoffset, transoffset,
                              htsz, htoffset>>
          ELSE /\ ver' = WordAt(fpos) /\ numstrings' = WordAt(fpos + 4)
               /\ origoffset' = WordAt(fpos + 8)
               /\ transoffset' = WordAt(fpos + 12)
               /\ htsz' = WordAt(fpos + 16) /\ htoffset' = WordAt(fpos + 20)
               /\ fpos' = fpos + 24
               /\ pc' = "table"
    /\ UNCHANGED <<doc, file, i, magic, tab, array, original, translated, overrun>>
    /\ ErrCall("fread")

(***************************************************************************)
(* read_mo_strings() is called (mofile.c 124-125) and starts (28-39): no *)
(* strings gives NULL; otherwise the array is allocated and the file     *)
(* positioned at the table.  An offset is at most 2^32 - 1, so the       *)
(* fseek() never returns -1.                                             *)
(***************************************************************************)
TableStart ==
    /\ pc = "table"
    /\ IF numstrings = 0
          THEN /\ SetTable(NULL) /\ NextTable
               /\ UNCHANGED <<fpos, array>>
          ELSE /\ array' = <<>>
               /\ fpos' = IF tab = "orig" THEN origoffset ELSE transoffset
               /\ pc' = "entry"
               /\ UNCHANGED <<tab, original, translated>>
    /\ UNCHANGED <<doc, file, i, magic, ver, numstrings, origoffset,
                   transoffset, htsz, htoffset, overrun>>
    /\ UNCHANGED errcall

(* Mutant: the file is not put back after the entry (no fseek to pos). *)
EntryNoSeekBack ==
    /\ pc = "entry"
    /\ IF Available(fpos, 8) < 8
          THEN pc' = "exited" /\ UNCHANGED <<fpos, array, overrun, tab,
                                             original, translated>>
          ELSE LET length == WordAt(fpos)
                   offset == WordAt(fpos + 4)
                   size   == (length + 1) % Word
                   got    == Available(offset, length)
               IN /\ overrun' = (overrun \/ got > size)
                  /\ IF got # length
                        THEN pc' = "exited" /\ fpos' = offset + got
                             /\ UNCHANGED <<array, tab, original, translated>>
                        ELSE /\ array' = Append(array, SubSeq(file, offset + 1, offset + length))
                             /\ fpos' = offset + length
                             /\ IF Len(array') = numstrings
                                   THEN SetTable(array') /\ NextTable
                                   ELSE pc' = "entry"
                                        /\ UNCHANGED <<tab, original, translated>>
    /\ UNCHANGED <<doc, file, i, magic, ver, numstrings, origoffset,
                   transoffset, htsz, htoffset>>
    /\ ErrCall("fread")

(***************************************************************************)
(* One pass of the entry loop of read_mo_strings() (mofile.c 41-74): the *)
(* (length, offset) pair is read in the host's byte order, a buffer of   *)
(* length + 1 bytes (uint32_t arithmetic) is allocated, length bytes are *)
(* read from offset into it, and the file is put back after the pair.   *)
(* A short read of the pair or of the string is err(); fread() has      *)
(* already stored the bytes it got.                                     *)
(***************************************************************************)
Entry ==
    /\ pc = "entry"
    /\ IF Available(fpos, 8) < 8
          THEN pc' = "exited" /\ UNCHANGED <<fpos, array, overrun, tab,
                                             original, translated>>
          ELSE LET length == WordAt(fpos)
                   offset == WordAt(fpos + 4)
                   size   == (length + 1) % Word
                   got    == Available(offset, length)
               IN /\ overrun' = (overrun \/ got > size)
                  /\ IF got # length
                        THEN pc' = "exited" /\ fpos' = offset + got
                             /\ UNCHANGED <<array, tab, original, translated>>
                        ELSE /\ array' = Append(array, SubSeq(file, offset + 1, offset + length))
                             /\ fpos' = fpos + 8
                             /\ IF Len(array') = numstrings
                                   THEN SetTable(array') /\ NextTable
                                   ELSE pc' = "entry"
                                        /\ UNCHANGED <<tab, original, translated>>
    /\ UNCHANGED <<doc, file, i, magic, ver, numstrings, origoffset,
                   transoffset, htsz, htoffset>>
    /\ ErrCall("fread")

(* The DEBUG_PRINT loop and fclose(f) (mofile.c 127-137). *)
Close ==
    /\ pc = "close"
    /\ \/ CloseMayFail /\ pc' = "exited"
       \/ pc' = "done"
    /\ UNCHANGED <<doc, file, fpos, i, magic, ver, numstrings, origoffset,
                   transoffset, htsz, htoffset, tab, array, original,
                   translated, overrun>>
    /\ ErrCall("fclose")

(* read_mofile() has returned mf, or err() has ended the program. *)
Terminated == pc \in {"done", "exited"} /\ UNCHANGED vars

Next ==
    \/ Open \/ MagicByte \/ ReadHeader \/ TableStart \/ Entry \/ Close
    \/ Terminated

Spec == Init /\ [][Next]_vars /\ WF_vars(Next)

-----------------------------------------------------------------------------
(* The strings a table of the catalogue holds, as read_mo_strings()      *)
(* would return them.                                                     *)
TableOf(strs) == IF strs = <<>> THEN NULL ELSE strs

(***************************************************************************)
(* mofile.h 20 and the comment at mofile.c 102: mf->magic is MO_BE or    *)
(* MO_LE, telling the file's byte order, whatever the host's.            *)
(***************************************************************************)
MagicIsFileOrder ==
    i = 4 => magic = IF doc.order = "BE" THEN MO_BE ELSE MO_LE

(***************************************************************************)
(* A catalogue written in the host's byte order is read: unless fopen() *)
(* or fclose() fails, only a file that lost bytes makes err() end the   *)
(* program, and when read_mofile() returns, mf->original and            *)
(* mf->translated hold exactly the catalogue's strings, in order: each  *)
(* string was read from its own offset, and the table walk came back to *)
(* the next entry after every string.                                   *)
(***************************************************************************)
ReadsCatalog ==
    (doc.order = HostOrder /\ ~doc.lie /\ errcall \in {"none", "fread"}) =>
        /\ (pc = "exited" => doc.cut > 0)
        /\ pc = "done" => /\ original = TableOf(doc.orig)
                          /\ translated = TableOf(doc.trans)

(***************************************************************************)
(* mofile.c 57-64: no fread() writes past the buffer calloc() gave it.  *)
(* A length of 2^32 - 1 in the file makes length + 1 wrap to 0.          *)
(***************************************************************************)
NoHeapOverrun == ~overrun

====
