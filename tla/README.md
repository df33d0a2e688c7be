# Tianlai FRB backend: TLA+ models and proofs

This directory holds TLA+ models of the Tianlai fast-radio-burst backend, the TLC configurations that check
them and TLAPS proofs about them. The program is a hashpipe plug-in (`TL_hashpipe.so`) of three threads that take
packets off a network port and write filterbank files, one per beam, to a file system in memory from which other
programs (dedispersion, coincidence) pick them up.

## The system

    FPGA boards --packets--> net thread ==input ring==> gpu thread ==output ring==> output thread --> /FRBTMPFS/BeamXX-YY/*.fil
                                 \______ data_type, beam_ID, start_file, init_mcnt (no lock) ______/
    sys_trig.py --GPS_File.txt-------------------------------------------------------/

`TL_init.sh` starts four such pipelines on a machine, one for each network port, with each thread pinned to a core
of its own (`-c` options).

| component | source | state | operations | what makes it correct |
|---|---|---|---|---|
| net thread | `TL_net_thread.c` | `binfo` (expected counter, missed packets, offset, block index), 32-bit packet count | wait for two blocks, receive, lay out, repair a gap, publish, give up | stays inside its block, touches no published block, blocks are in stream order, every packet counted or missed |
| gpu thread | `TL_gpu_thread.c` | two ring indices, a local copy of a block | take, split beams, free, wait, copy, publish | forwards every block once, unchanged, in order |
| output thread | `TL_output_thread.c` | ring index, bytes saved, file names and streams, counter for the next stamp | take, name, write headers, append, close and rename, free | files complete, contiguous, distinct, with the right start time |
| rings | `TL_databuf.h/.c`, hashpipe library | a semaphore, a header and data per block | create, wait free/filled, set free/filled | filled blocks are exactly those between reader and writer |
| shared globals | `TL_net_thread.c:34-38` | four variables | written by the net thread, read by the others | the value read belongs to the block in hand |
| time stamps | `TL_output_thread.c:30-95`, `filterbank.cpp:393-409,821-826`, `sys_trig.py` | `GPS_File.txt`, `GPS_time`, `File_time` | write and read the GPS file, compute name and `tstart` | name and `tstart` are the time of the first spectrum, going by a clock that was ready |
| filterbank headers | `filterbank.cpp:141-392,719-856` | `FilterBankData` object | write and read a keyword header | what is written is read back |
| filterbank signal processing | the rest of `filterbank.cpp` | `pData`, its shape, the position in the file, results | read by fraction or number, down-sample, strip a polarisation, zero-DM, baseline, dedispersion, box filter, subbands | every result is made of the values of the file it claims, calls stay inside their arrays; not used by the threads |
| scripts | `*.sh` | file system, processes | start, stop, clean | nothing is lost but what was unfinished |
| experiments, backups | `recvData*.py`, `test.c`, `*.bk`, ... | - | - | share no state with the pipeline |

How they interact: the threads of a pipeline meet only in the two rings and in the four globals. A semaphore per
block says who owns it; all waits poll with a timeout and try again, and any other error ends the thread that waits.
The output thread passes the time to `WriteHeader` in the global `File_time`. The file system outlives a restart;
shared memory does not (`hashpipe_stop.sh` clears it).

What is hard here: back-pressure through two rings; the repair of gaps, which publishes one block and starts
another in the middle of a handler; 64-bit unsigned arithmetic on differences of counters; unlocked globals that
describe the packet received last, not the block in hand; being killed between two renames, a full disk, files
removed under a running pipeline; a 32-bit count that comes back to zero; dates, and clocks that were not ready; an
object whose members describe an earlier file or an earlier reading. PROJECT.json
lists each hazard at its line with the properties that watch it.

## The modules

| module | models | remarks |
|---|---|---|
| `Databuf` | blocks, semaphores, ring order | one slot per packet; the payload of a packet is its counter |
| `InputDatabuf`, `OutputDatabuf` | the two rings | variables `in_*`, `out_*` |
| `Globals` | the four shared variables | |
| `NetThread` | `TL_net_thread.c` with an environment for the network and the ring's reader | complete specification `NetSpec` |
| `NetBench` | the net thread with history variables for what it forgets when its packet count comes back to 0 | `NetBenchSpec` |
| `GpuThread` | `TL_gpu_thread.c` | actions only, composed in `Pipeline` |
| `OutputThread` | `TL_output_thread.c` and the part of `WriteHeader` that touches the file system | actions only |
| `OutputBench`, `MCOutputBench` | the output thread with a feeder, packets that rewrite `data_type` and `beam_ID`, kill and restart, writes that fail and `Data_clean.sh` | `BenchSpec`; `MCOutputBench` has the first values of `N_files` |
| `Pipeline` | the three threads together | `PipelineSpec`, `PipelineFairSpec`, refinement of `BlockFifo` |
| `BlockFifo` | abstract: a bounded FIFO that delivers everything it accepts | |
| `Calendar`, `TimeStamp`, `MCTimeStamp` | `sys_trig.py`, `ReadGPSTime`, `time_calculate`, `UTCtoJD` and the Julian date in `WriteHeader`, over several runs; `mktime` is external | exact integer arithmetic, days of few microseconds |
| `FilHeader`, `MCFilHeader` | `put_string`, `get_string`, `WriteHeaderToFile`, `ReadInHeader`, `nsamples` | a header is a sequence of strings and values with their sizes; `MCFilHeader` says who fills in what (`Users`) |
| `FilData`, `MCFilData` | the calls of `FilterBankData` on samples: reading, adding up, subtracting means, dedispersion, box filter, the number of subbands | a number is the set of positions in the file it was made of |
| `ModLemmas` | - | lemmas on remainders, quotients and products, and induction up to a number (`UpTo`) |
| `NetThreadProofs` | - | theorems on the net thread alone |
| `PipelineProofs` | - | theorems on the three threads together |
| `OutputProofs` | - | lemmas on the output thread |
| `BenchProofs` | - | theorems on `NetBench` and `OutputBench` |
| `TimeStampProofs` | - | theorems on dates and stamps |
| `FilHeaderProofs` | - | theorems on headers |
| `FilDataProofs` | - | theorems on samples |

A step of a thread model runs from one place where the thread can block, or be overtaken by another, to the next;
the variables `net_pc`, `cov_pc`, `out_pc` name those places. What follows a semaphore operation is kept apart from
what precedes it, because the other side may move in between. Variables have the names of the program where they can:
`cur_mcnt`, `miss_pkt`, `offset`, `filb_flag`, `N_files`, `f_fil`. `net_idx`, `cov_in_idx`, `cov_out_idx`, `file_idx`
are the four block indices.

| source | definition |
|---|---|
| `run`, two initial waits | `CheckFirstTwoBlocks` |
| `get_header`, head of `process_packet` | `ParsePacket` |
| `process_packet`, expected packet | `ReceiveExpected`, `CopyPacket`, `MarkBlock` |
| `miss_pkt_process` | `ReceiveUnexpected`, then `ZeroTail` + `ZeroHead` (gap reaches the block's end), `ZeroGap` (shorter gap), or the thread ends |
| gpu `run` | `GpuProcess`, `GpuFreeInput`, `GpuCopyOut`, `GpuMarkOut` |
| output `run` | `TakeBlock`, `NameDirectory`, `MakeDirectory`, `StampFiles`, `CheckType`, `FormatName`, `CreateFile`, `OpenFiles`, `WriteBeam`, `CountBlock`, `RenameFile`, `FreeOutput` |
| errors of a wait | `NetWaitError`, `GpuWaitError`, `OutputWaitError` |

Abstractions, and why they are harmless:

* All byte counts of the net thread are multiples of a packet, so they are counted in packets; the 64-bit product
  `miss_pkt * DATA_SIZE_PACK` becomes arithmetic modulo `Word` = 2^64 / 2^12.
* A packet's data is its counter: the properties ask which packet is where, not what it says. Zeroed memory is
  `Blank`, memory nobody wrote is `Garbage`.
* `polarization_process` with `data_type` 1 returns a local structure it never wrote. Reading it is undefined; the
  build copies it over the caller's buffer from stack memory that still holds the previous result, which is what
  the model says.
* A name that was never formatted is `NoName`: whether the streams then open is nondeterministic, and a write to a
  stream that is not open ends the process. Names have one width, as those of beam numbers below 100 have; a name that
  was formatted while another group's packet rewrote `beam_ID` belongs to whatever beams it read.
* The output thread reads the globals one at a time, each at the step that reads it: `beam_ID` for the directory,
  `init_mcnt` for the stamp, `data_type`, then `beam_ID` again for every name. In `OutputBench` packets rewrite `data_type` and then
  `beam_ID`, one beam after another, between any two of these steps (`NextPacket`, `NextBeam`; `MaxChanges` bounds the changes). In `Pipeline`
  a packet rewrites them in the step that parses it. `init_mcnt` is written once, by the first packet, as long as the count
  of packets has not come back to 0.
* A file is its header, if it has one, the blocks written to it and the number of those that were not: any write may be
  refused, `MaxFailures` of them at most, and the streams go on as the code does. `Data_clean.sh` removes any set of files, and
  directories that became empty, in one step of which there may be several; a stream whose file is gone takes data
  that nobody can read.
* `fwrite` of one beam of one block is atomic and reaches the file when it is made; a kill between two of them is
  covered, a kill inside one, and data still in the stdio buffer, are not.
* `FilData` does not compute: an element of `pData` is the set of positions in the file whose values were added up
  in it, the positions whose mean was subtracted from it, and how often 256 is missing because a byte was taken for a
  signed char. A call that reads or writes outside an array, throws, or goes through NULL is `Undefined`: nothing is
  said of the program after it. The shifts of dedispersion are any, because the call that would fill them in is
  commented out. Fractions of a file are halves. The trial DMs are not modelled, only how many subbands there are: each
  DM of a subband is the sum of a step and `RefDM` (`filterbank.cpp:1087`), which nothing ever sets, as the call that would is
  commented out (`filterbank.cpp:948`).
* An object has room for names of less than `NameSize` letters, because of the NUL, and for `MaxChans` channels. `ReadInHeader` checks
  neither: a name or a table that does not fit is written outside its array, from where on nothing is said (`rd_pc` is
  `"undefined"`). Objects of this program fit, as their writers keep names and tables in the same arrays (`Fits`); headers of
  other programs need not.
* `FilHeader` counts the bytes of a header but does not spell them out. Where the reader loses step with the items
  (a string longer than `get_string` accepts), what it reads next is letters taken for a length, which is always
  refused. Names equal to a keyword with a value, after which the bytes of the next string would be read as that value,
  are excluded by `FilAssumption`; those equal to a keyword without one are not.
  `CutFiles` bounds which files may be cut off; headers with fields in the order of the sigproc programs and the
  fields a caller fills in are external.
* `hashpipe`'s semaphores, `rename`, `mktime` and the network are external: their definitions say what the code
  relies on. The MAC filter in front of `process_packet` only decides what counts as a packet.

## What is checked

Passing runs:

| run | question | bounds |
|---|---|---|
| `net_stream` | Every pattern of losses of up to six packets in a row, with blocks of four packets: one less than a block, a block, more than a block, and gaps that end exactly at the end of a block; packets duplicated or late; failing semaphore calls; the count of packets comes back to 0 and the next packet is taken for the first, which hides what was missed and lets a late packet in, then and at no other time. Offset and indices stay in range, a block being laid out or published is never touched by the wrong side, blocks are in order, losses are accounted for, the thread gives up exactly on more than a block or a late packet. | two blocks, counters to 14: almost two laps of the ring, so that packets of an earlier lap lie around in skipped slots; a count that comes back to 0 after six packets, of up to nine |
| `out_files` | Five files of two beams, one after another, while files are removed at any moment: beams agree, removing does no harm except between the making of a directory and the opening of the files in it, and which counter every file is stamped with. | files of two blocks; counters from 0, where the stamp passes below zero, and from 1; two steps of `rm`; `N_files`, which nobody initialises, starting from 0, 7 or -1 |
| `out_restart` | Files stay complete and contiguous, up to what the disk refused, when the pipeline is killed anywhere, also between the renames of two beams, and started again with the same or a later GPS time on the disk it left, while packets change type or group of beams at any moment, also while names are being formatted. | one restart, one and a half files of two beams before and after it, two groups, both packet types, one change, one refused write; an output ring of one block. That files are also removed meanwhile is left to the theorems |
| `pipe_safety` | The three threads with losses and failing waits: ring windows, ownership, order from the network to the disk, exactness without loss, and the account of lost packets. | blocks of two packets, rings of two blocks, counters to 9: four blocks |
| `pipe_fifo` | The pipeline refines `BlockFifo`, including delivery; whenever as many blocks as fill a file were published, a file of those very blocks gets its final name (`FileDelivered`); the net thread always returns to its socket; the reader the net thread sees is the one `NetThread` assumes. A circular wait would break all three liveness properties. | counters to 7 |
| `stamp_dates` | The time of day lags behind the true one by exactly the fraction of a microsecond per packet that `time_interval` lacks, across all carries, counted from the last start at which both boards were ready; names sort by time, and date and `tstart` are off by exactly what three errors explain: the month `mktime` is given, the milliseconds dropped, and the years 2000 to 2009, which the script writes as 200 to 209. | two runs, twelve starting dates near the end of months, in leap years, at a year's end and in the years written with a digit less; five days |
| `fil_header` | Two headers, of this program, of a caller that fills in the fields, of another program or copied from the first, are read one after another into a new or a used object: of those that are read to the end exactly the complete ones are accepted, fields and sizes are exact, and an old table survives exactly when the flag does; a write outside an array happens only for a name or a table that does not fit (`OverrunExplained`). | first file cut off after or inside any item; room for two channels and names of 15 letters, strings of 16 at most (79 and 80 in the code); one to three channels; names that are empty, ordinary, one letter too long for the object, too long for `get_string`, and equal to keywords; sizes beyond an int |
| `fil_data` | What the samples of an object are after any mixture of calls: the values of the file asked for, each in its channel and polarisation, unless a stale member explains why not; means are taken of the right values; dedispersion and the box filter lose and repeat nothing; and which calls leave their arrays, and when. | every sequence of four calls, on files of 1, 8, 16 and 32 bits, one and two polarisations in both orders, four channels and up to four samples |

Runs that end in a violation, each of a statement of the source that the code does not keep (PROJECT.json,
`findings`):

| run | what it shows |
|---|---|
| `net_slots` | A gap inside a block blanks slots at its start, not where the packets are missing; the packets after it are in the wrong slots. |
| `out_overwrite` | The second file of a run is stamped one packet before the first, in most cases the same second, and replaces it. |
| `pipe_type` | When the type of packets changes, a block is forwarded whose data was never copied. |
| `stamp_mjd` | A file of the end of January 2018 is stamped as one of another month: `mktime` takes the 29th of January, given with the month counted from 1, for the 29th of February, which is the 1st of March, read back as February. |

Small bounds suffice because nothing in the code depends on how large a block, a ring or a file is, only on
comparisons with their size: blocks of three or four packets already have a first, a middle and a last slot, gaps of
one less than, exactly and more than a block, and rings of two blocks fill up and run empty. The theorems below hold
for all sizes. Deadlock checking is off because the system may stop: packets may cease, counters are bounded, and a thread
that has ended leaves the others waiting. That threads never wait for each other in a circle follows from the liveness
properties of `pipe_fifo`.

Fairness: `PipelineFairSpec` assumes weak fairness of each thread's own steps. Each thread runs on a core of its own
and its waits poll, so a thread that can move does. No fairness is assumed of the network (packets may stop), of
failing waits or of restarts. `ImplementsFifo` includes the abstract fairness: what was accepted is delivered.

## What is proved

TLAPS checks the theorems below for every value of the constants that satisfies the named assumptions of the modules:
blocks of at least one packet, an input ring of at least 2 blocks because the thread waits for blocks 0 and 1, `Word`
larger than any distance between counters, `CountMod` at least 2, a file a positive number of blocks, and for the time stamps
`RunAssumption`: a run is short enough for its microseconds to fit 64 bits and its seconds an `int` (68 years), and
the dates the boards send have a month and a day of the usual ranges. `FilAssumption` takes an even `I32` of at least 256 for 2^32
and excludes names equal to a keyword with a value (see above); it bounds neither the channels nor the source names of other
programs by what an object has room for, and says of the names an object starts with that they fit it; the lengths of strings stand in it
because TLAPS cannot compute the `Len` of a string, and TLC evaluates it on every run of the module. `FilDataAssumption` says
that files have whole bytes and that only files of 8 bits have bytes over 127. A hypothesis beyond those stands in the theorem and is explained here; each
excludes states of the program in which the property is false.

| module | theorem | property | inductive invariant |
|---|---|---|---|
| `NetThreadProofs` | `NetTypeCorrect`, `OwnsCurrentBlock` | `NetTypeOK`, `CurrentBlockFree` | `NetInv` |
| | `FilledBlocksImmutable` | `FilledImmutable` | `NetInv` |
| | `ExitsOnLargeGaps` | `ExitIffLargeGap` | `NetInv` |
| | `PacketsAccountedFor` | `Accounting` | `NetInv`, `AccountingInv` |
| `BenchProofs` | `PacketsAccountedForAcrossWraps` | `AccountingAcrossWraps` | `NetInv`, `WrapInv`, `DistanceInv` |
| | `BlocksInOrder` | `PublishedInOrder` | `NetInv`, `OrderInv` |
| `PipelineProofs` | `PipelineRefinesNet` | `ImplementsNetSpec` | `NetInv`, `GpuHolds` |
| | `InputRingExact`, `OutputRingExact`, `BlocksAreOwned` | `InputWindow`, `OutputWindow`, `ReadersOwn` | `RingInv` |
| | `PipelineTypeCorrect` | `PipelineTypeOK` | `NetInv`, `RingInv`, `RestTypeOK` |
| | `StreamsOpen` | `StreamOpenAtWrite` | `StartInv`, `StreamInv` |
| | `PipelineIsFifo` | safety part of `ImplementsFifo` | `PipelineInv` |
| | `LossFree` | `LossFreeExact` | `PipelineInv`, `AccountingInv`, `EmptyInv`, `LossInv` |
| | `Ordered` | `StreamOrdered` | `PipelineInv`, `OrderInv` |
| `BenchProofs` | `RenamedFilesComplete`, `FilesInOnePiece`, `StampsLag` | `FilComplete`, `FilesContiguous`, `StampLag` | `BenchInv` |
| | `CleaningIsHarmless` | `CleanHarmless` | `BenchInv`, `CleanInv` |
| | `BeamsInStep` | `BeamsAgree` | `BenchInv`, `AgreeInv` |
| `TimeStampProofs` | `StampsExact`, `NamesInOrder`, `TstartIsExplained` | `TimeOfDayExact`, `NamesSort`, `TstartExplained` | `StampInv` |
| `FilHeaderProofs` | `HeaderTypeCorrect`, `CompleteHeadersOnly`, `OverrunsExplained`, `FieldsReadBack`, `TableIsExplained`, `SamplesCounted` | `FilTypeOK`, `TrueIffComplete`, `OverrunExplained`, `ReadBack`, `TableExplained`, `SamplesExact` | `HeaderInv` |
| `FilDataProofs` | `DataTypeCorrect`, `UndefinedCalls` | `FilDataTypeOK`, `UndefinedOnlyIf` | `TypeInv`, `FreshFits` |
| | `AskedRead` | `AskedIsRead` | `TypeInv` |
| | `DataAreTheFile` | `DataRight` | `TypeInv`, `FreshFits`, `DataInv` |
| | `OwnMeans`, `ZeroDMIsTheSum` | `MeansOfOwnPol`, `ZeroDMRight` | `DataInv`, `MeansInv`, `ZeroInv` |
| | `DedispersedOnce`, `RunningSumRight` | `DedispersionConserves`, `BoxRight` | `TypeInv`, `ResultInv` |

**The net thread** (`NetThreadProofs`). The type invariant alone is not inductive: that the offset stays in the block depends on
`net_pc` (a handler in the middle of a roll has an offset in a block it has not waited for), on which distance led
there, and on the block being free. `NetInv` is `NetTypeOK`, `CurrentBlockFree` and `NetControl`, which ties `net_pc` to
that distance. That a late packet looks like a gap of more than a block (`LateLooksLarge`) is where the assumption
on `Word` enters. `FilledImmutable` follows because every writing step has waited for its block.
`PacketsAccountedFor` follows the sum through the handler and assumes `CountMod > MaxMcnt + 2`: the count of packets
does not come back to 0. `BenchProofs` does without that, with the history of `NetBench`: `WrapInv` says that the count of the thread is what is left of
the number of packets, `DistanceInv` how far the counters have got at each place of the handler, counting those a wrap
has hidden. `OrderInv` there is about one block and the one before it: what is laid out below `offset` increases, follows the previous
block and stays below the expected counter, whatever an earlier lap left in the slots above.

**The rings** (`PipelineProofs`). Every step of the pipeline is, for the net thread's variables, a step of `NetNext` or a stutter,
so all of the above holds in the pipeline. `RingInv` is the window of each ring with what each thread holds at each
place; the arithmetic of indices going round is in `ModLemmas`, `WindowFill` and `WindowFree`. `StreamsOpen` needs `StartInv`
(before the first packet nothing is in the rings, so nobody asks for names) and `SourceTypes` within `{0}`: with
`data_type` 1 the names are never formatted and the streams may not open.

**The stream** (`PipelineProofs`). The filled blocks of a ring, taken from its reader to its writer, are a sequence (`RingSeq`,
`IsRing` and the lemmas on them), and each step of a thread appends to it, takes its head, or leaves it alone. `PipelineIsFifo` composes
the two rings with what the gpu thread holds between them (`FlowInv`) into the queue of `BlockFifo`: every step is `Accept`,
`Deliver` or a stutter. It assumes `SourceTypes` within `{0}`, because otherwise blocks are forwarded that were never copied
(the violation run `pipe_type`), and that no wait fails, because a thread that ends on an error drops the block in its
hands. `LossFree` says that every block of the stream continues the one before it and the block being laid out
continues the last (`LossInv`); it uses the account of packets, hence `CountMod`. `Ordered` says the same with gaps, failing
waits and blanks; a late packet gets in only after a wrap, so it assumes that there is none or that packets are never late.

**The files** (`BenchProofs`). `BenchInv` holds over any number of restarts, removals and refused writes. `FlagInv` says where files begin and end,
`FeedInv` which blocks are in the output ring, and `DiskInv` what any file on the disk holds and, for a file being
written, how many blocks it has seen and which one is next (`BeamInv`). A file a kill left half-written keeps `Sound`
and is no longer current, which is why both are needed. `RenamedFilesComplete`, `FilesInOnePiece` and `StampsLag` have no
hypothesis. `StampsLag` says which counter the header of every file of a run is stamped with, the first and the later ones, whatever
`N_files` held when the thread started; `StampInv` ties the counter kept for the next file to the file before it (`Before`, `StampOf`).
`CleaningIsHarmless` adds `OpenInv` and that headers are whole, as long as nobody removed a directory between its making and the opening
of its files; it assumes `data_type` 0 and `MaxFailures = 0`, a disk that takes everything. `BeamsInStep` compares the files of all beams under names of
all earlier and the present file (`NamesInv`, `StepInv`). It assumes `MaxFailures = 0`, because a write may be refused for one beam only, and one
group of beams, because names formatted while `beam_ID` is rewritten may be those of beams of two groups. It holds until the first
restart, after which a kill between two beams may have left them
apart, and the theorem says so: `restarts = 0 => BeamsAgree`. The run has no restart and shows `BeamsAgree` itself.

**The time** (`TimeStampProofs`). `StampInv` says that name and header come from the fields of the last start at which both boards were
ready. The rest is about functions: the carries of `time_calculate` (`StampFields`), the calendar, and the Julian date. `mktime`
is defined with `CHOOSE` over years and months; that the choice exists is found from the digits of the day number in cycles
of 400, 100, 4 and 1 years (`YearOf`), not by induction, and `CivilIsDate`, `DatesOrdered` and `DateIs` follow. The years are those in the file (`FileYear`), which for 2000 to
2009 are 200 to 209: `sys_trig.py` puts no zero in front of a year of one digit. `TstartIsExplained` compares
the formula of `UTCtoJD` with the count of days (`JulianDay`) for every date, with the wrong month that `mktime` is given.

**The headers** (`FilHeaderProofs`). What `WriteHeaderToFile` writes is a fold over a table of any length; `Layout` says which item is where, in
both orders of fields, and bytes are counted as the number of places between two items, so that nothing is summed by
recursion. `HeaderInv` says that the file is the header of `origin` as far as it goes, with its last item damaged if the writer
stopped inside one (`FileIs`), and that the reader between two turns of its loop is in one of two situations. Either it is in step
with the items (`InStep`): everything before its position was read, and the names, the table, the fields and the bytes counted
are those of that part of the file. Or it will never find the end (`OutOfStep`): the file stops before, or a name was too
long. There is one lemma for each kind of item, one for the damaged item, and one for each way out of `ReadInHeader`. Two exceptions
turned out to be part of the invariant and not only of the properties: a source called `HEADER_END` ends its own header, and the
five letters of `"ERROR"` are counted for an empty name. `OverrunsExplained` says when a header makes the reader write outside its arrays; the
others are about the calls that return. The theorems have no hypothesis: the files before may be any, whole or cut.

**The samples** (`FilDataProofs`). That a call stays inside its arrays depends on what was read before it: `TypeInv` gives the shape of `pData`,
`FreshFits` that samples read since the header fill it (not for 16 bits, of which nothing is read), and `UndefinedCalls` goes through the
calls. `DataInv` locates a sample by number, channel and polarisation instead of by index, because that is what each call changes;
`DataRight` follows by division. Elements stay sets of positions in the file, so down-sampling and stripping are unions whose parts
must be disjoint, or losses would be counted twice: two samples, channels or polarisations never share a position. `MeansInv` adds
what was subtracted, `ZeroInv` ties the result of `ZeroDM` to `pZeroDM`. Dedispersion and the box filter are about the call that
was made last (`ResultInv`): the three loops of the running sum are recursive functions, whose values are found by induction up to
the length of the array (`HeldAt`), not with the library's induction theorems but from a set of numbers that contains 0 and, with each
of its members, the next (`UpTo`). `AskedRead` and `ZeroDMIsTheSum` keep the conditions of their properties: a stretch that
begins and ends with a byte, read by a number of samples that is still that of the file, and an order of values that the call expects.

Only model-checked:

* liveness, which TLAPS cannot prove: `NetReturnsToSocket`, `FileDelivered`, delivery in `ImplementsFifo`;
* the four violation runs, where a counterexample is the evidence.

Every other property of the passing runs is a theorem. Where a theorem has a hypothesis, the states outside it are only model-checked too.

## What is not modelled

The split of a packet's bytes into beams (`polarization_process`) keeps the order of spectra; the model takes it for a copy.

Left out: the floating-point values of signal processing (which values go where is in `FilData`), plotting and printing,
the contents of the files `WriteSubbandData` and `WriteTimData` write (their subbands have no samples), the status buffer (only displayed),
the socket set-up, the experiments and the backup copies. When a pipeline is stopped, the packets in a partly filled
block and the blocks of a `.fil.working` file stay behind: the code has no end-of-run handling, and no property
promises any.
