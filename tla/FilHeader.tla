----------------------------- MODULE FilHeader -----------------------------
(***************************************************************************)
(* The header of a filterbank file: WriteHeaderToFile, which writes the    *)
(* fields of a FilterBankData object, and ReadInHeader, which reads them   *)
(* into an object that may have read other files before.                   *)
(*                                                                         *)
(* A header is a sequence of items: strings, stored with their length in   *)
(* front, and values, stored as they are.  An item carries its text or its *)
(* number, and the bytes it takes in the file.  A header may also be in    *)
(* the order of the sigproc programs, whose format this is, and may be cut *)
(* off where its writer stopped.                                           *)
(*                                                                         *)
(* Neither the names nor the table of frequencies are checked against the  *)
(* arrays they are copied to.  A reader that writes outside an array is    *)
(* "undefined", and nothing is said of it any more.                        *)
(***************************************************************************)
EXTENDS Integers, SequencesExt

CONSTANTS Users,              \* headers users of the class or of other programs write
          MaxChans,           \* size of frequency_table: 16320 in the code
          MaxString,          \* longest string get_string accepts: 80
          NameSize,           \* size of Source_name and Rawdatafile: 80
          SampleCounts,       \* samples that may follow a header
          I32,                \* 2^32
          MaxFiles,           \* bound on the number of files written
          CutFiles            \* which of them may be cut off

VARIABLES disk,               \* the file: its header items, its samples
          origin,             \* the object that was written to it
          files,              \* files written so far
          fil,                \* the FilterBankData object read into
          before,             \* that object when the last reading began
          rd_pc,              \* where ReadInHeader is, or what it returned
          pos,                \* items read
          lost,               \* the next bytes are the inside of a string
          expecting,          \* expecting_rawdatafile, expecting_source_name
          channel_index,
          intTotalHeaderBytes

reader_vars == <<rd_pc, pos, lost, expecting, channel_index, intTotalHeaderBytes>>
fil_vars == <<disk, origin, files, fil, before, reader_vars>>

Doubles == {"az_start", "za_start", "src_raj", "src_dej", "tstart", "tsamp",
            "period", "fch1", "foff", "npuls", "refdm"}
Ints == {"nchans", "telescope_id", "machine_id", "data_type", "ibeam", "nbeams",
         "nbits", "barycentric", "pulsarcentric", "nbins", "nifs"}
Fields == Doubles \cup Ints
SizeOf == [k \in Fields \cup {"fchannel", "nsamples"} |->
             IF k \in Ints \cup {"nsamples"} THEN 4 ELSE 8]

Keywords == Fields \cup {"fchannel", "nsamples", "rawdatafile", "source_name",
                         "FREQUENCY_START", "FREQUENCY_END", "HEADER_START",
                         "HEADER_END"}

Garbage == -77                \* memory nobody wrote
Torn == "TORN"                \* a string cut off by the end of the file

(* Keywords without a value.  A source may be called so; a name equal to   *)
(* another keyword makes the reader take the bytes of the next string for  *)
(* a value.                                                                *)
Marks == {"HEADER_START", "HEADER_END", "FREQUENCY_START", "FREQUENCY_END",
          "rawdatafile", "source_name"}

(* Names an object has before, or without, a caller's.                     *)
OwnNames == {"J0000-0000", "TianLai_Test", "ERROR", Torn}

(* A user chooses a source name, the name of the raw data file, how many   *)
(* channels there are and how their frequencies are told: by a table, by   *)
(* Fch1 = Foff = 0, which turns them into a table all the same, or by Fch1 *)
(* and Foff.                                                               *)
Names    == {u.name : u \in Users}
RawNames == {u.raw : u \in Users}

ASSUME FilAssumption ==
  /\ MaxChans \in Nat \ {0} /\ MaxFiles \in Nat /\ CutFiles \subseteq Nat
  /\ I32 \in {2 * k : k \in 128 .. I32}
  /\ SampleCounts \subseteq Nat
  /\ \A u \in Users : u.channels \in {"table", "zeros", "equal"} /\ u.chans \in Nat \ {0}
  /\ Names \cap ((Keywords \ Marks) \cup {Torn, "ERROR"}) = {}
  /\ \A s \in Names \ {""} : Len(s) \in Nat \ {0}
  /\ RawNames \cap (Keywords \cup {Torn, "ERROR"}) = {}
  /\ \A s \in RawNames : Len(s) \in 1 .. MaxString
  /\ \A s \in Keywords \cup OwnNames : Len(s) \in 1 .. MaxString /\ Len(s) < NameSize
  /\ Len("") = 0 /\ Len("ERROR") = 5 /\ MaxString \in Nat /\ NameSize \in Nat

-----------------------------------------------------------------------------
(* Objects.                                                                *)

(* The constructor leaves all fields but the names unset.                  *)
FilterBankData ==
  [Source_name |-> "J0000-0000", Rawdatafile |-> "J0000-0000",
   UseFrequencyTable |-> FALSE, Headersize |-> Garbage, Nsamples |-> Garbage,
   frequency_table |-> [i \in 0 .. MaxChans - 1 |-> Garbage],
   field |-> [k \in Fields |-> Garbage]]

(* The object WriteHeader writes, with one channel and a whole MHz for     *)
(* N_CHANS_SPEC channels of 100 MHz.                                       *)
WriteHeader ==
  [FilterBankData EXCEPT !.Source_name = "TianLai_Test",
     !.field = [k \in Fields |->
       CASE k \in {"period", "nbins", "npuls", "barycentric", "pulsarcentric"} -> Garbage
         [] k = "fch1" -> 800
         [] k = "foff" -> -1
         [] k = "nchans" -> 1
         [] k = "nbits" -> 8
         [] k = "nifs" -> 1
         [] OTHER -> 0]]

(* Objects a user of the class may fill and write as file n.               *)
UserHeader(n, u) ==
  [FilterBankData EXCEPT
     !.Source_name = u.name, !.Rawdatafile = u.raw,
     !.UseFrequencyTable = (u.channels = "table"),
     !.frequency_table = [i \in 0 .. u.chans - 1 |-> 10 * n + i],
     !.field = [k \in Fields |->
       CASE k = "fch1" -> IF u.channels = "zeros" THEN 0 ELSE 700 + n
         [] k = "foff" -> IF u.channels = "zeros" THEN 0 ELSE -n
         [] k = "nchans" -> u.chans
         [] k = "nbits" -> 8 * n
         [] OTHER -> n]]

UserHeaders(n) == {UserHeader(n, u) : u \in Users}

-----------------------------------------------------------------------------
(* Writing.                                                                *)

put_string(s) == <<[text |-> s, value |-> 0, bytes |-> 4 + Len(s)]>>
put_value(k, v) == put_string(k) \o <<[text |-> "", value |-> v, bytes |-> SizeOf[k]]>>

HasTable(h) ==
  \/ h.UseFrequencyTable
  \/ h.field["fch1"] = 0 /\ h.field["foff"] = 0

FrequencyTable(h) ==
  IF HasTable(h)
  THEN put_string("FREQUENCY_START")
         \o FlattenSeq([i \in 1 .. h.field["nchans"] |->
                          put_value("fchannel", h.frequency_table[i - 1])])
         \o put_string("FREQUENCY_END")
  ELSE <<>>

PutFields(h, keys) ==
  FlattenSeq([i \in DOMAIN keys |-> put_value(keys[i], h.field[keys[i]])])

WrittenKeys == <<"az_start", "za_start", "src_raj", "src_dej", "tstart", "tsamp",
                 "fch1", "foff", "nchans", "telescope_id", "machine_id",
                 "data_type", "ibeam", "nbeams", "nbits", "barycentric",
                 "pulsarcentric", "nifs">>

WriteHeaderToFile(h) ==
  put_string("HEADER_START") \o put_string("source_name") \o put_string(h.Source_name)
    \o FrequencyTable(h) \o PutFields(h, WrittenKeys) \o put_string("HEADER_END")

(* The same content as another program may write it: the name of the raw   *)
(* data file, more fields, an obsolete one, a table after the fields.      *)
SigprocKeys == <<"telescope_id", "refdm", "npuls", "period", "nbins", "fch1", "foff",
                 "nchans", "nbits", "tstart", "tsamp", "nifs">>

SigprocHeader(h) ==
  put_string("HEADER_START")
    \o put_string("rawdatafile") \o put_string(h.Rawdatafile)
    \o put_string("source_name") \o put_string(h.Source_name)
    \o PutFields(h, SigprocKeys) \o put_value("nsamples", 0)
    \o FrequencyTable(h) \o put_string("HEADER_END")

HeaderBytes(items) == FoldSeq(LAMBDA item, sum : item.bytes + sum, 0, items)
BytesOfSamples(h, n) ==
  (n * h.field["nchans"] * h.field["nifs"] * h.field["nbits"]) \div 8

(* Mutated form: a string may be of any length.                            *)
BadLengthEmpty(s) == Len(s) < 1

(* Lengths get_string refuses, without skipping the string.                *)
BadLength(s) == Len(s) < 1 \/ Len(s) > MaxString

(* A file is written, and samples after its header.  The writer may stop   *)
(* after any item, or inside it.                                           *)
CutOff(items, n, torn) ==
  [i \in 1 .. n |->
     IF torn /\ i = n
     THEN [text |-> IF BadLength(items[i].text) THEN items[i].text ELSE Torn,
           value |-> Garbage, bytes |-> items[i].bytes]
     ELSE items[i]]

(* The local variables of ReadInHeader before it is called.                *)
NoLocals ==
  /\ pos' = 0 /\ lost' = FALSE
  /\ expecting' = {} /\ channel_index' = 0 /\ intTotalHeaderBytes' = 0

PutFile(h, items) ==
  /\ rd_pc \in {"idle", "true", "false"}
  /\ files < MaxFiles
  /\ files' = files + 1
  /\ origin' = h
  /\ \/ \E n \in SampleCounts :
          disk' = [items |-> items, whole |-> TRUE, samples |-> n,
                   size |-> HeaderBytes(items) + BytesOfSamples(h, n)]
     \/ \E n \in 0 .. Len(items), torn \in BOOLEAN :
          /\ files' \in CutFiles
          /\ n < Len(items) \/ torn
          /\ disk' = [items |-> CutOff(items, n, torn), whole |-> FALSE,
                      samples |-> 0, size |-> 0]
  /\ rd_pc' = "idle"
  /\ NoLocals
  /\ UNCHANGED <<fil, before>>

(* An object of this program has no more entries in its table, and no more *)
(* letters in its name, than there is room for.                            *)
Fits(h) ==
  /\ Len(h.Source_name) < NameSize
  /\ HasTable(h) => h.field["nchans"] <= MaxChans

(* A run, a user of the class, or a user who copies the header just read,  *)
(* if that tells the size of a sample.                                     *)
WriteFile ==
  \/ PutFile(WriteHeader, WriteHeaderToFile(WriteHeader))
  \/ \E h \in UserHeaders(files + 1) : Fits(h) /\ PutFile(h, WriteHeaderToFile(h))
  \/ /\ rd_pc = "true"
     /\ \A k \in {"nchans", "nbits", "nifs"} : fil.field[k] > 0
     /\ Fits(fil)
     /\ PutFile(fil, WriteHeaderToFile(fil))

(* Another program knows no such limits.                                   *)
ForeignFile ==
  \E h \in UserHeaders(files + 1) : PutFile(h, SigprocHeader(h))

-----------------------------------------------------------------------------
(* Reading.                                                                *)

(* Assignment to an int keeps the low 32 bits; conversion of a quotient of *)
(* long doubles to int drops the fraction, and makes the least int of      *)
(* something divided by zero channels.                                     *)
Magnitude(n) == IF n < 0 THEN -n ELSE n

Truncated(n, d) ==
  IF d = 0 THEN -(I32 \div 2)
  ELSE IF (n < 0) = (d < 0) THEN Magnitude(n) \div Magnitude(d)
  ELSE -(Magnitude(n) \div Magnitude(d))

(* Mutated form: sizes are kept in 64 bits.                                *)
Int64(n) == n

Int32(n) == ((n + (I32 \div 2)) % I32) - (I32 \div 2)

sizeof_file == Int32(disk.size)
nsamples(headersize, nbits, nifs, nchans) ==
  Truncated(8 * Int32(sizeof_file - headersize), nbits * nifs * nchans)

AtEnd == pos = Len(disk.items) /\ ~lost

(* What get_string returns: "ERROR" if the length is refused, or is itself *)
(* made of the inside of a string.                                         *)
strtmp ==
  LET s == disk.items[pos + 1].text
  IN  IF lost \/ BadLength(s) THEN "ERROR" ELSE s

(* Every call advances behind the string, unless its length was refused.   *)
get_string ==
  LET s == disk.items[pos + 1].text
  IN  /\ pos' = IF lost THEN pos ELSE pos + 1
      /\ lost' = (lost \/ (BadLength(s) /\ Len(s) > 0))

(* The value behind a keyword; what a cut off file does not have stays.    *)
HasValue == pos + 2 <= Len(disk.items)
get_value(old) == IF HasValue THEN disk.items[pos + 2].value ELSE old
SkipValue ==
  /\ pos' = IF HasValue THEN pos + 2 ELSE pos + 1
  /\ lost' = FALSE

(* Mutated form: the table is always filled with equally spaced channels.  *)
KeepTableNever(o) == FALSE

(* The table is left alone if the flag is set, by whatever file.           *)
KeepTable(o) == o.UseFrequencyTable

(* Mutated form: a table leaves the fields of equally spaced channels.     *)
ChannelFieldsKept(f) == f

(* Zero tells that a table is in use.                                      *)
ChannelFields(f) == [f EXCEPT !["fch1"] = 0, !["foff"] = 0]

(* A new object, or the one that read the last file.                       *)
OpenFile ==
  /\ rd_pc = "idle" /\ files > 0
  /\ fil' \in {fil, FilterBankData}
  /\ before' = fil'
  /\ rd_pc' = "start"
  /\ UNCHANGED <<disk, origin, files, pos, lost, expecting, channel_index,
                 intTotalHeaderBytes>>

(* Mutated form: the end of the file ends the header.                      *)
ReadEofTrue ==
  /\ rd_pc \in {"start", "loop"} /\ AtEnd
  /\ rd_pc' = "true"
  /\ UNCHANGED <<disk, origin, files, fil, before, pos, lost, expecting,
                 channel_index, intTotalHeaderBytes>>

ReadEof ==
  /\ rd_pc \in {"start", "loop"} /\ AtEnd
  /\ rd_pc' = "exit"
  /\ UNCHANGED <<disk, origin, files, fil, before, pos, lost, expecting,
                 channel_index, intTotalHeaderBytes>>

ReadStart ==
  /\ rd_pc = "start" /\ ~AtEnd
  /\ get_string
  /\ \/ strtmp = "HEADER_START" /\ rd_pc' = "loop"
        /\ intTotalHeaderBytes' = Len(strtmp) + 4
     \/ strtmp # "HEADER_START" /\ rd_pc' = "false"
        /\ UNCHANGED intTotalHeaderBytes
  /\ UNCHANGED <<disk, origin, files, fil, before, expecting, channel_index>>

(* One turn of the loop, whose string adds to the size of the header.      *)
InLoop == rd_pc = "loop" /\ ~AtEnd /\ UNCHANGED <<disk, origin, files, before>>

(* Mutated form: the length in front of a string is not counted.           *)
CountStringNoLength(more) == intTotalHeaderBytes' = intTotalHeaderBytes + Len(strtmp) + more

CountString(more) == intTotalHeaderBytes' = intTotalHeaderBytes + Len(strtmp) + 4 + more

(* How far a loop over channels goes: an int nobody set may be anything.   *)
Counted(n) == IF n = Garbage THEN 0 .. MaxChans + 1 ELSE {n}

(* Without a table the channels are filled in, however many they are.      *)
ReadHeaderEnd ==
  LET size == intTotalHeaderBytes + Len(strtmp) + 4
      f == fil.field
  IN  /\ InLoop /\ strtmp = "HEADER_END"
      /\ get_string /\ CountString(0)
      /\ \E chans \in Counted(f["nchans"]) :
           /\ fil' = [fil EXCEPT
                        !.Headersize = size,
                        !.Nsamples = nsamples(size, f["nbits"], f["nifs"], f["nchans"]),
                        !.frequency_table =
                          IF KeepTable(fil) THEN @
                          ELSE [i \in DOMAIN @ |-> IF i < chans
                                                   THEN f["fch1"] + i * f["foff"]
                                                   ELSE @[i]]]
           /\ rd_pc' = IF KeepTable(fil) \/ chans <= MaxChans THEN "true" ELSE "undefined"
      /\ UNCHANGED <<expecting, channel_index>>

ReadMark ==
  /\ InLoop /\ strtmp \in {"rawdatafile", "source_name"}
  /\ get_string /\ CountString(0)
  /\ expecting' = expecting \cup {strtmp}
  /\ UNCHANGED <<fil, rd_pc, channel_index>>

ReadFrequencyStart ==
  /\ InLoop /\ strtmp = "FREQUENCY_START"
  /\ get_string /\ CountString(0)
  /\ fil' = [fil EXCEPT !.UseFrequencyTable = TRUE]
  /\ channel_index' = 0
  /\ UNCHANGED <<rd_pc, expecting>>

ReadFrequencyEnd ==
  /\ InLoop /\ strtmp = "FREQUENCY_END"
  /\ get_string /\ CountString(0)
  /\ fil' = [fil EXCEPT !.field["nchans"] = channel_index]
  /\ UNCHANGED <<rd_pc, expecting, channel_index>>

(* The table is filled in order, whatever its size.                        *)
ReadChannel ==
  /\ InLoop /\ strtmp = "fchannel"
  /\ SkipValue /\ CountString(SizeOf["fchannel"])
  /\ fil' = [fil EXCEPT !.frequency_table[channel_index] = get_value(@),
                        !.field = ChannelFields(@),
                        !.UseFrequencyTable = TRUE]
  /\ channel_index' = channel_index + 1
  /\ rd_pc' = IF HasValue /\ channel_index >= MaxChans THEN "undefined" ELSE "loop"
  /\ UNCHANGED expecting

ReadValue ==
  /\ InLoop /\ strtmp \in Fields
  /\ SkipValue /\ CountString(SizeOf[strtmp])
  /\ fil' = [fil EXCEPT !.field[strtmp] = get_value(@)]
  /\ UNCHANGED <<rd_pc, expecting, channel_index>>

(* For backwards compatibility: the value is not kept.                     *)
ReadNsamples ==
  /\ InLoop /\ strtmp = "nsamples"
  /\ SkipValue /\ CountString(SizeOf["nsamples"])
  /\ UNCHANGED <<fil, rd_pc, expecting, channel_index>>

(* strcpy needs room for a NUL behind the letters; where the file ends in  *)
(* the middle of a string, any number of the letters it should have may    *)
(* come before the first NUL.                                              *)
Copied(s) ==
  LET nchar == disk.items[pos + 1].bytes - 4
  IN  IF Len(s) >= NameSize THEN {"undefined"}
      ELSE IF s = Torn /\ nchar >= NameSize THEN {"loop", "undefined"}
      ELSE {"loop"}

(* Only what is no keyword can be a name.                                  *)
ReadName ==
  /\ InLoop /\ strtmp \notin Keywords \ {"HEADER_START"} /\ expecting # {}
  /\ get_string /\ CountString(0)
  /\ rd_pc' \in Copied(strtmp)
  /\ IF "rawdatafile" \in expecting
     THEN /\ fil' = [fil EXCEPT !.Rawdatafile = strtmp]
          /\ expecting' = expecting \ {"rawdatafile"}
     ELSE /\ fil' = [fil EXCEPT !.Source_name = strtmp]
          /\ expecting' = expecting \ {"source_name"}
  /\ UNCHANGED channel_index

ReadUnknown ==
  /\ InLoop /\ strtmp \notin Keywords \ {"HEADER_START"} /\ expecting = {}
  /\ get_string /\ CountString(0)
  /\ rd_pc' = "false"
  /\ UNCHANGED <<fil, expecting, channel_index>>

ReadInHeader ==
  \/ ReadEof \/ ReadStart \/ ReadHeaderEnd \/ ReadMark \/ ReadFrequencyStart
  \/ ReadFrequencyEnd \/ ReadChannel \/ ReadValue \/ ReadNsamples \/ ReadName
  \/ ReadUnknown

FilInit ==
  /\ disk = [items |-> <<>>, whole |-> FALSE, samples |-> 0, size |-> 0]
  /\ origin = FilterBankData
  /\ files = 0
  /\ fil = FilterBankData /\ before = FilterBankData
  /\ rd_pc = "idle"
  /\ pos = 0 /\ lost = FALSE
  /\ expecting = {} /\ channel_index = 0 /\ intTotalHeaderBytes = 0

FilNext == WriteFile \/ ForeignFile \/ OpenFile \/ ReadInHeader

FilSpec == FilInit /\ [][FilNext]_fil_vars

-----------------------------------------------------------------------------
(* The types: of the number of samples, that it is an int.                 *)
FilTypeOK ==
  /\ rd_pc \in {"idle", "start", "loop", "true", "false", "exit", "undefined"}
  /\ files \in 0 .. MaxFiles
  /\ pos \in 0 .. Len(disk.items)
  /\ lost \in BOOLEAN
  /\ expecting \subseteq {"rawdatafile", "source_name"}
  /\ channel_index \in Nat
  /\ intTotalHeaderBytes \in Nat
  /\ fil.Nsamples \in -(I32 \div 2) .. (I32 \div 2) - 1
  /\ DOMAIN fil.frequency_table = 0 .. MaxChans - 1

Sigproc == disk.items[2].text = "rawdatafile"
NamedEnd == origin.Source_name = "HEADER_END"
KeysRead == IF NamedEnd THEN {} ELSE IF Sigproc THEN ToSet(SigprocKeys) ELSE ToSet(WrittenKeys)
Long(name) == Len(name) > MaxString

(* Names that strcpy does not have the room for, although get_string       *)
(* accepts them, and tables that run out of frequency_table: those in the  *)
(* file, and those that are filled in because no earlier file, nor a       *)
(* source called FREQUENCY_START, has set the flag.                        *)
NameTooLong ==
  \/ Sigproc /\ Len(origin.Rawdatafile) >= NameSize
  \/ Len(origin.Source_name) \in NameSize .. MaxString

FlagSet == before.UseFrequencyTable \/ origin.Source_name = "FREQUENCY_START"

TableTooLong ==
  origin.field["nchans"] > MaxChans /\ (HasTable(origin) \/ ~FlagSet)

(* The reader leaves its arrays for exactly the headers with such a name   *)
(* or table, also when they are cut off: none of them is ever read to the  *)
(* end, and no other one makes it, but for a source called HEADER_END,     *)
(* which ends the header before the number of channels was read, so that   *)
(* an uninitialised number is used (filterbank.cpp:274, 366, 371, 386).    *)
OverrunExplained ==
  /\ rd_pc = "undefined" =>
       \/ NameTooLong
       \/ ~NamedEnd /\ TableTooLong
       \/ NamedEnd /\ ~before.UseFrequencyTable /\ before.field["nchans"] \notin 0 .. MaxChans
  /\ rd_pc = "true" => ~NameTooLong /\ (NamedEnd \/ ~TableTooLong)

(* ReadInHeader returns true of exactly the complete headers whose source  *)
(* name is not too long, unless it leaves its arrays (OverrunExplained): a *)
(* header cut off anywhere, by an item or in the middle of one, is never   *)
(* taken for complete, and no order of the items, table or obsolete field  *)
(* stops the reader; but a source that is called HEADER_END ends the       *)
(* header by itself (filterbank.cpp:204-378).                              *)
TrueIffComplete ==
  rd_pc \in {"true", "false", "exit"} =>
    (rd_pc = "true" <=> /\ \/ disk.whole
                           \/ NamedEnd /\ \E i \in DOMAIN disk.items :
                                             disk.items[i].text = "HEADER_END"
                        /\ ~Long(origin.Source_name))

(* What was written is read back: every field of the file, whatever the    *)
(* object read before, and nothing else changes.  A table that follows the *)
(* fields makes Fch1 and Foff zero; an empty name is read as "ERROR"; one  *)
(* that is a keyword is lost, because keywords are recognised before names *)
(* (filterbank.cpp:148, 151, 276, 364).                                    *)
ReadBack ==
  rd_pc = "true" =>
    /\ fil.Source_name = CASE origin.Source_name = "" -> "ERROR"
                           [] origin.Source_name \in Marks \ {"HEADER_START"} ->
                                before.Source_name
                           [] OTHER -> origin.Source_name
    /\ fil.Rawdatafile = IF Sigproc THEN origin.Rawdatafile ELSE before.Rawdatafile
    /\ \A k \in Fields :
         fil.field[k] = IF k \notin KeysRead THEN before.field[k]
                        ELSE IF Sigproc /\ HasTable(origin) /\ k \in {"fch1", "foff"}
                        THEN 0
                        ELSE origin.field[k]

(* The frequencies are those of the file, with two exceptions: the flag is *)
(* never reset, so that after a file with a table an object keeps that     *)
(* table for all files without one; and a source called FREQUENCY_START    *)
(* sets it, so that the table is whatever was there before                 *)
(* (filterbank.cpp:221, 384).                                              *)
TableExplained ==
  rd_pc = "true" /\ ~NamedEnd =>
    /\ fil.UseFrequencyTable = (\/ before.UseFrequencyTable
                                \/ HasTable(origin)
                                \/ origin.Source_name = "FREQUENCY_START")
    /\ \A i \in DOMAIN fil.frequency_table : i < origin.field["nchans"] =>
         fil.frequency_table[i] =
           IF HasTable(origin) THEN origin.frequency_table[i]
           ELSE IF fil.UseFrequencyTable THEN before.frequency_table[i]
           ELSE origin.field["fch1"] + i * origin.field["foff"]

(* The size of the header, summed up string by string, is where the        *)
(* samples begin, and the number of samples is right if the file is        *)
(* smaller than an int can count.  An empty name, read as "ERROR", is      *)
(* counted with the five letters it does not have (filterbank.cpp:212,     *)
(* 380, 381).                                                              *)
SamplesExact ==
  rd_pc = "true" /\ ~NamedEnd =>
    LET data == BytesOfSamples(origin, disk.samples)
    IN  IF origin.Source_name = ""
        THEN fil.Headersize = disk.size - data + 5
        ELSE /\ fil.Headersize = disk.size - data
             /\ disk.size < I32 \div 2 => fil.Nsamples = disk.samples
=============================================================================
