# IODA: a verification development in TLA+

IODA (Interface for Observation Data Access) gives a data assimilation program
its observations. The processes (MPI ranks) of a run all read the same
observation file, each keeps a share of it in memory as an `ObsSpace`, and
together they write an output file. Two things can go wrong that a test hardly
reaches, and this directory models both. The ranks have to agree on records,
owners, counts and files without looking at each other; and a value has to
keep its place, name, unit and time through a long chain of conversions.

Source paths below are relative to `src/src/`; `E/` is
`engines/ioda/src/ioda/`.

## 1. Inventory

### Parts, state and operations

| Part | State | Operations |
| --- | --- | --- |
| Distributions (`distribution/`): Halo, RoundRobin, Atlas, Inefficient, replicas, pairs | records kept, distances, patch flags, location indices | `assignRecord`, `isMyRecord`, `computePatchLocs`, `patchObs`, `allGatherv`, `min`, `max`, accumulators |
| ObsFrameRead (`io/`) | frame position, counts, grouping map, cached selections | `frameInit`, `frameAvailable`, `frameNext`, `readFrameVar` |
| ObsSpace (`ObsSpace.cc`) | `indx_`, `recnums_`, `recidx_`, `gnlocs_`, `nrecs_`, `obs_group_` | construction, `save`, `get_db`, `put_db`, `extendObsSpace` |
| WriterPool (`E/`), WriteH5File | pool communicator, assignments, offsets; the file and its names | `initialize`, `save`, `finalize`; constructor, `post` |
| ObsStore and HH (`E/Engines/`) | a tree of groups, variables, attributes and dimension scales, in memory or in HDF5 | create, open, remove, attach, detach, resize, read, write, copy |
| ODC (`E/Engines/ODC/`), layouts | rows of an ODB file, mapping and query files | open, select, make variables, write |
| ObsVector, ObsDataVector | values with missing data | arithmetic, `random`, `mask`, packing, statistics, `save`, `read` |
| Units and array expressions | a unit and a missing value per array | arithmetic, comparison, conversion |
| C and Fortran interfaces | handles of objects on the heap | construct, clone, destroy, use; get and put |
| Upgraders, validator | a file at a time | v1 to v2, v2 to v3, validate |

### How the parts interact

`ObsSpace::initFromObsSource` asks `ObsFrameRead` for one frame after another.
For each location that passes the checks, `ObsFrameRead` finds its record
number and offers it to the distribution; what the distribution keeps is
stored. When no frame is left, `computePatchLocs` elects the one rank that
counts a location in global sums (the location is then in the rank's *patch*).
`buildSortedObsGroups` builds the record index, `extendObsSpace` may add a
*companion* record for each record. The program reads and writes variables with
`get_db` and `put_db`, often through an `ObsVector`; the data is in a `Group`,
whose calls go to a backend. `save` writes every rank's patch locations.
ODB files come in and go out through the ODC backend, which builds an in-memory
group or takes one apart.

### What is hard here

* All the agreement between ranks is by convention: the same calls in the same
  order on every rank, the same branch around every collective.
* Frames split records, and state survives from one frame to the next.
* Ranks without locations, empty frames, ties and gaps are legal and rare.
* Counts and offsets computed apart on two ranks have to match.
* Sends may or may not be buffered; files are renamed while others write.
* Two backends promise the same, one of them with containers of its own and the
  other through a library that keeps references in both directions.
* An ODB file does not say where a location begins, or which row is which
  channel: the code infers it from changes, counts and orders.
* Names are taken apart (channel suffixes, derived groups, bitfield members) by
  several functions that have to do it alike.

`PROJECT.json` lists each of these hazards at the line where it bites, with the
properties that would catch it going wrong. Left out there as too small for a
property of their own: the error for a grouping variable without Location, which
is built and not thrown (`io/ObsFrameRead.cc:513`), and the reuse of a selection
that was prepared for another variable (`E/Selection.cpp:19`).

## 2. Modules

| Module | Models | Kind |
| --- | --- | --- |
| `Distribution` | the promises of `Distribution.h` | abstract specification |
| `Halo` | `Halo.cc` on all ranks | component |
| `HaloDistribution` | Halo seen as a Distribution | refinement |
| `HaloProofs` | theorems about `Halo` and its refinement | proofs |
| `Nonoverlapping` | RoundRobin, Atlas; also seen as a Distribution | component, refinement |
| `NonoverlappingProofs` | theorems about them | proofs |
| `Vectors` | loops over marked elements, allGatherv, exclusiveScan | operators |
| `VectorProofs` | lemmas about them | proofs |
| `ObsFrameRead` | `ObsFrameRead.cc` and the frame loop of `ObsSpace.cc` | component |
| `ObsFrameReadProofs` | theorems about the reader | proofs |
| `ReadHalo` | reader and Halo together; also seen as `Halo` alone | composition, refinement |
| `ReadHaloProofs` | theorems about both together | proofs |
| `ObsExtend` | `extendObsSpace` on all ranks, replica and pair distributions | composition |
| `WriterPool` | `ObsSpace::save`, the pool, the transfer, the files | composition |
| `WriterPoolProofs`, `WriterFileProofs`, `WriterSaveProofs` | theorems about it | proofs |
| `Selections` | what a selection picks, in memory and in HDF5 | operators |
| `Stores` | the operations of the ObsStore and HH backends | operators |
| `Backends` | the facade over both, `ObsGroup::resize`, `copyGroup`, and a client | composition |
| `Calls` | a call of a sequential conversion: `call` and `out` | base |
| `Layouts` | query and mapping files, complementary variables | conversion |
| `OdbImport`, `OdbExport`, `OdbDates` | the ODC backend: reading, writing, dates and times | conversion |
| `ObsAccess` | `get_db`, `put_db`, channel selection, missing errors, the Fortran calls | conversion |
| `ObsVectors` | ObsVector, ObsDataVector, accumulators and reductions of every distribution | conversion |
| `Creation` | chunks, filters and fill values from creation to copy | conversion |
| `UnitMath` | `MathOps.h`, `Units.cpp`, `convertVariableUnits` | conversion |
| `Upgrade`, `UpgradeFiles` | the two upgrade programs | conversion |
| `Validator` | `mains/validator/` | conversion |
| `RecordKeys` | grouping keys and date-time sort values | conversion |
| `RecIdx` | the record index, its extension and the fill, on one rank | conversion |
| `Handles` | the C interface and its client | component |
| `MC...` | values of constants, and inputs, for TLC | instances |

Variables have the names of the members or locals they stand for, without the
trailing underscore; per-rank state is a function on `Rank == 0 .. NRanks - 1`.
Some operators are defects planted beside a definition: those whose comment
starts with "Mutant", and those named `definition_Suffix`. They are in no
specification; each is put in the place of that definition once, to see that a
property notices. `dimIndicesOf_Counts` is an exception: it is what HDF5 does.

### Collectives

An MPI collective is two steps. In the first a rank contributes, which records
what it sent or moves its `pc`; in the second it returns, which needs the
contributions of the ranks the collective waits for. That is all of them for
reductions, gathers and barriers, the lower ones for an exclusive scan, and the
root for a broadcast or a scatter. Between the steps any other rank may move.

### Halo

`calls` is what the reader offers: the same on every rank, locations in file
order, records numbered by first appearance. `distance[r][l]` is the distance
of a location from the rank's center, an arbitrary number up to `MaxDist`;
`Inf` is the code's infinity. `AssignRecord` is `assignRecord` followed by
`isMyRecord`; `ComputePatchLocs`, `SendMinloc` and `FinishPatchLocs` are the
three stretches of `computePatchLocs` between its two collectives. When no
rank holds anything (`nglocs` = 0) the second collective does not take place.
`Closest` and `Owner` are MPI's `minloc`: the smallest distance, ties to the lowest
rank.

### ObsFrameRead and ReadHalo

A row of a variable is its location number, so that a row in the wrong place
shows. A source location has a time, a flag that says a coordinate is missing,
and a grouping key. One variable over Location and one over Channel stand for
all the variables of each kind: the code treats them alike, and caches
selections by dimension. One iteration of a loop of the code is one step;
these steps touch only the rank's own state. On its own, `ObsFrameRead` answers
`isMyRecord` with any answer a distribution may give; in `ReadHalo` the answer
is Halo's.

### ObsExtend

Starts from any state that a distribution may leave behind: `Placements` is
every choice of holders and owners the three kinds allow. Both maxima of
`extendObsSpace` are one phase, as are the two collectives of
`ReplicaOfGeneralDistribution::computePatchLocs`, and the sum of companions and
the maximum in the constructor of `PairOfDistributions`; none of them is
conditional, so that splitting them adds no behaviour. The code frees
`myGlobalLocs_` earlier than the model, which keeps it for the properties.

### WriterPool

A value is `<<rank, location, element>>`, so that the file shows where each
element came from. `eager` chooses between an MPI that buffers sends and one
that completes them on receipt. `disk` maps inodes to contents and `dir` names
to inodes, as rename makes the difference between the two. A file name is its
list of suffixes. With parallel io the collective calls that create the file
are one step of each rank, and the collective write of a variable is an
independent write per rank. String cells have one length that stands for that
of every string variable. Message tags are those of the code, so that two
variables may have the same.

### Selections, Stores and Backends

A store is a value: groups, names, and a heap of variables. An operation of a
backend maps a store to an outcome: returned or thrown, the store it leaves
behind either way, and what it delivered. Variables are objects of the heap
(`shared_ptr` targets in memory, dataset addresses in the file), so that a
reference can outlive its name. `OS_...` is the in-memory backend, `HH_...` the
HDF5 one. HDF5 itself is modelled from the calls the code makes: dataspaces as
sets of coordinates, and the two lists (`DIMENSION_LIST`, `REFERENCE_LIST`)
that bind variables and scales. In memory, an index out of bounds ends a write
half way, and what was written stays; the selections of the run are within bounds.

`Backends` applies each call of one client to both stores. `hist` records what
the properties make no promise about: `unshared`, a call whose outcome the two
backends define differently (creating what exists, attaching a second scale,
resizing an inner dimension, selections of three points in two dimensions...), after
which the client stops; `uneven`, a client that attached a scale of another
length or resized a single variable; `below`, a removal through a subgroup,
which leaves references to the removed variable behind in the file.

### Conversions

Sequential code is modelled as operators on its inputs. A behaviour of
`MCConversions` is one call: `call` is chosen by `Init` from a set of small
inputs, one step computes `out`, which is a value, `Thrown`, or `Undefined`
where the code leaves an array. Data are abstracted to what tells them apart:
a row of an ODB file has a number of its own, a string is a sequence of
characters only where the code cuts it, floats are integers in a named unit, or
rationals.

In `RecIdx` locations are numbered from 1, and `recidx` is a function from record
numbers to sequences of locations, as `recidx_` is a map to vectors. Its call is
the life of the index on one rank: `buildRecIdx` (sorted or not), `extendObsSpace`,
`extendVariable`; the outcome has the state after each. `originalRecs` is the
bound agreed with the other ranks, at least one more than the largest local number.

`Handles` shares the run, as a session in place of a call: a client keeps up to
`MaxHandles` handles and calls any function of the C interface in any order.
Whether the C++ code behind a call throws is arbitrary.

`ObsVectors` runs each program of vector operations twice, on the ranks of a
distribution and in one process that holds everything.

## 3. Runs

Each run is `tlc -config <cfg> <module>` in this directory.

| Run | Instance | Shows |
| --- | --- | --- |
| `halo` | `MCHalo`: 3 ranks, 3 locations, distances 0..2, radius 1 | `PatchPartition`, `GatherIndex`, Halo implements `Distribution`, every rank returns (`Terminates`) |
| `nonoverlapping` | `Nonoverlapping`: 3 ranks, 3 locations | `GatherIndex`, both implement `Distribution` |
| `reader` | `MCObsFrameRead`: 1 rank, 4 locations, 5 channels, frames of 1 to 3 | `SourceReadOnce`, `StoredWhole`, `ReadsAll` |
| `read_halo` | `MCReadHalo`: 2 ranks, 2 locations, frames of 1 or 2 | `EveryObsOnce`, the reader with Halo implements `Halo`, `Finishes` |
| `obs_extend` | `ObsExtend`: 3 ranks, 2 locations, 2 levels, all kinds | `NumbersAgree`, `ExtendedOnce`, `ExtendedIndices`, `Completes` |
| `writer_pool` | `MCWriterPool`: 3 ranks, pools of 1 to 3, three variables | `TilesInOrder`, `PoolConsistent`, `SaveReturns` |
| `backends` | `MCBackends`: three variables, any 3 calls from an empty or a filled tree | `BackendsInterchangeable`, `ScalesMatch`, `ReferenceListsMatch`, `CopiesFaithful` |
| `conversions` | `MCConversions`: 28 conversions, and sessions with 3 handles | the 17 properties below, from `RecordIndexRight` and `CompanionsRight` to `KeysDecide` |
| `pair_index_halo` | `ObsExtend`, general distribution | `PairIndex` is violated: finding 1 |
| `writer_names` | `MCWriterPool`, two ranks, a time rank | `OriginalNames` is violated: finding 2 |
| `odb_dates` | `MCConversions` | `DateSurvives` is violated: finding 3 |
| `unknown_units` | `MCConversions` | `UnknownUnitStored` is violated: finding 4 |

### Properties made of parts

Where several statements are about one hazard they are conjuncts of one
property. The parts, each with a comment of its own beside its definition:

| Property | Parts | Left out, because the code does otherwise |
| --- | --- | --- |
| `SourceReadOnce` | `CallsOfSource`, `CountsOfSource` | |
| `StoredWhole` | `ReaderTypeOK`, `StoredInPlace`, `ChannelsComplete` | |
| `RecordIndexRight` | `IndexPartition`, `SortedRecords`, `RecnumsOfRecidx` | with `IGNORE_MISSING`, zeros follow the numbers that `recidx_all_recnums` returns if records were left out (`ObsSpace.cc:585`) |
| `CompanionsRight` | `FilledFromRecord`, `CompanionsFilled` | with `IGNORE_MISSING`, the companion of a record that was left out is never filled (`ObsSpace.cc:1303`) |
| `ExtendedOnce` | `TypeOK`, `ExtendedPartition`, `GlobalCount` | |
| `ExtendedIndices` | `ReplicaIndex`, `PairIndexNoOverlap` | the pair over an overlapping distribution (finding 1) |
| `PoolConsistent` | `TypeOK`, `MessagesExpected` | |
| `BackendsInterchangeable` | `StoreOK`, `BackendsAgree`, `ReadBack` | `unshared` calls |
| `CopiesFaithful` | `SortedForCopy`, `CopyFaithful` | incomplete trees |
| `ReportsInPlace` | `VarnoValuesInPlace`, `MetadataOfOwnReport`, `ChannelsNumbered`, `TruncatedToReported` | values and channel numbers of files whose reports have different rows |
| `NamesResolved` | `SelectionOrderFree`, `ReaderAndLayoutAgree` | |
| `RowsMatch` | `HeaderMatchesRows`, `RowsCarryTheirVarno` | |
| `CellsDecoded` | `MembersUnpacked`, `StringsSurvive`, `StationsToldApart` | strings with a space at the edge of a cell; numbers wider than the code fills up to |
| `ObservationTimesKept` | `TimeOfDaySurvives`, `WindowMovesForwardOnly`, `TimesKept` | the date through an ODB file (finding 3); missing times through one, which come back as times of the epoch's day (the fill value is compared as a float, `ODC.cpp:443`) |
| `UpgradedFileSound` | `ChannelsKept`, `VariablesKept`, `AttributesKept`, `OldStringsKept`, `NewScalesFit`, `NewChunksFit` | v1 to v2 with grouping: a file with one variable, which is lost (`upgradev1v2.cpp:170`); files that gather strings into channels (`upgradev1v2.cpp:235-263`): strings of one byte end the program, others are written from a buffer that is too short; names that sort between the channels of a quantity, or whose numbers the largest group lacks. The scales of a group of one, of a variable that had channels before, and of strings of one byte that keep their shape |
| `PutIsGot` | `LastPutIsRead`, `ReadAsDeclared`, `FortranRoundTrip` | 64-bit integers from Fortran beyond 32 bits |
| `OthersKept` | `PutKeepsTheRest`, `ErrorsFilled` | |
| `HandlesReliable` | `OneHandlePerObject`, `FreedOnce`, `OnlyGroupsAndAttributesLeak`, `FailureShows` | the destructors that keep their pointer, the ones that free nothing, copies from a null handle or onto itself |
| `DistributionInvisible` | `VectorsAgree`, `StatsAgree` | |
| `ValuesFollowNames` | `SavedVectorReadsBack`, `RowsFollowNames` | |
| `StorageKept` | `FillSurvivesCopy`, `CopyKeepsStorage`, `PipelineOrdered` | a string found in a file with the fill property alone; the two numbers of SZIP, which are exchanged when they are read back (`HH-variables.cpp:1050`, `Variable.cpp:480`), so that a copy has others or cannot be made: SZIP itself stays on or off |
| `NumbersKeepUnits` | `MissingKept`, `QuantitiesRight`, `UnitsTellTheTruth` | missing values of powers; units without a conversion (finding 4) |
| `VerdictRight` | `ExitTellsFindings`, `OldNamesOnlyReported`, `UnitsVouchedFor` | 256 findings and more, which the exit status cannot hold; units that are an empty string, which are not reported (`validate.cpp:543`) |
| `KeysDecide` | `RecordsAreGroups`, `TimesSorted` | keys with a colon, floats that differ beyond six decimals, times far from the first |

For a property of several parts `PROJECT.json` names one planted defect. The
planted defects of the other parts are in the modules.

The type invariants of `Halo` and `Nonoverlapping` are proved, and not checked
by a run; so are `WholeRecords`, `RecordsOwnedWhole`, `RecordsConsecutive` and
`PlacedOnce`.

### Bounds, and why they are enough to be of use

* *Ranks.* Two ranks overlap, tie and disagree; a third is needed for a tie
  between two ranks neither of which is rank 0, for a rank that holds nothing
  between two that do, and for a group of the writer pool with one rank and
  another with two. Runs with ranks that are all independent (`reader`) have
  one: the ranks do not communicate there, and `read_halo` has two.
* *Locations.* Three locations are a record split by another record (a, b, a);
  four with frames of up to three are a record over two frames, a short last
  frame, and a frame of which nothing is kept. In `halo`, `Small` keeps the
  run short: three ranks share up to two locations with a gap between them, or
  two ranks share up to three beside a rank that holds nothing.
* *Distances* 0..2 with radius 1 are nearer, on the border and outside.
* *Channels.* Five, more than locations, so that frames go on after the
  locations are exhausted.
* *Time* 0..2 with the window (0, 1] has both ends and both sides.
* *Companions.* Two levels, so that the position within a companion matters.
  `obs_extend` also passes with three locations (101,000 states, two minutes);
  two keep the run short.
* *Strings* of length 0 and 2: all empty, or different between ranks.
* `max_frame_size` is at least 1, as `frameNext` would never advance otherwise.
* `TimeRanks` is `{-1}` in `writer_pool` (one rank in the time communicator):
  with more, `save` leaves its file under another name (finding 2).
* `varNumTagFactor` is 1 in the writer runs, where the code has 100, so that
  three ranks are enough for the tags of different variables to coincide.
* *Calls on the backends.* Three calls from a tree that is empty or filled are:
  attach or create, disturb, look. Location grows and shrinks between 1 and 3,
  Channel is asked to grow and has a fixed length.
* *ODB files.* Up to three reports of two varnos with up to three rows each;
  the seven observation groups stand for the branches of the code. Cells have
  `Width` = 2 characters where ODB has 8, so that a string of five spans three.
* *Dates.* Offsets of 0 to 70 days, at three times of the day, from two epochs: a
  leap day, and ends of months of different lengths.
* *Records.* Up to three locations in two records, two values and the missing one:
  a tie, a missing value between two others, a record with missing values only.
* *Files to upgrade.* Names of up to five variables, with three channels of two
  quantities; whole files with two channels, of numbers or strings, beside another
  variable, and lengths on both sides of the largest chunk.
* *Handles.* Three handles and every function of the interface: a copy, its
  original and one more.
* The inputs of the other conversions are listed in `MCConversions`, next to what
  each is there for.

Deadlock is checked, and each specification has a step that stutters once all
its ranks have finished, and only then. `backends`, `conversions`,
`odb_dates` and `unknown_units` have no such step and say `CHECK_DEADLOCK FALSE`: a client, or a
single call, comes to its end.

### Fairness

Weak fairness of each rank's steps: the code of a rank runs on until it waits
for others, and MPI delivers what was sent. No fairness is assumed among the
steps of one rank, or of message delivery in a particular order. It is needed
for `Terminates`, `ReadsAll`, `Finishes`, `Completes` and `SaveReturns` only.
The sequential code of the other runs ends by itself.

### Findings

1. `distribution/PairOfDistributions.cc:39`. The index of a companion location
   is the index the replica gives it plus an offset, which is meant to be the
   number of original patch locations. It is one more than the largest index,
   over the ranks, of a rank's *last* location. With Halo the last location of a
   rank may be in the patch of another rank, and the largest index that of a
   location in the middle of its rank's vector. `pair_index_halo` shows a state
   in which two locations have the same index, against `Distribution.h:219-220`.
2. `E/Engines/WriteH5File.cpp:186`. With several time ranks, the name of the
   final file gets its time rank suffix a second time when the file is copied
   back, against the comment at `WriteH5File.cpp:157-158`.
3. `E/Engines/ODC/ODC.cpp:452`. The date column of an ODB file is computed 1900
   years and a month after the epoch, with the lengths of months that are found
   there. With the epoch 2000-02-28 12:00, the offset 345599 (3 March, 11:59:59)
   is written as 20000301 and 115959, and reads back as 172799. The comment at
   `ODC.cpp:448-449` says that the shift "doesn't matter in this context".
4. `E/Has_Variables.cpp:223`. For a unit that it cannot convert,
   `convertVariableUnits` waits for a `std::invalid_argument`, but
   `UnitConversions.cpp:16-35` throws an `ioda::Exception`. The variable gets no
   units attribute, and the variables behind it are not converted, against
   `Has_Variables.h:275-276` ("If conversion function not defined, stores unit as
   attribute") and `test_convertvariableunits.cpp:94`, a test that
   `CMakeLists.txt:18` beside it registers with another executable.

## 4. Proofs

The theorems hold for any number of ranks, locations, channels and variables,
any source, frame size, time window, radii, distances, mesh partition, pool size
and patches. The assumptions are the `ASSUME`s of the modules: `NRanks` is positive,
the other sizes are natural numbers, `Radius` is a natural number per rank, the
time window and the times of the source are integers, the frame size is positive,
a patch vector is a sequence of flags, there is at least one variable, each has a
positive number of values per location, the factor of the message tags is positive,
and a time rank is at least -1.

| Module | Theorem | Statement |
| --- | --- | --- |
| `HaloProofs` | `Invariance` | `Spec => []IInv` |
| | `TypeCorrect` | `Spec => []TypeOK` |
| | `WholeRecordsCorrect` | `Spec => []WholeRecords` |
| | `PatchPartitionCorrect` | `Spec => []PatchPartition` |
| | `RecordsOwnedWholeCorrect` | `Spec => []RecordsOwnedWhole` |
| | `IndexedCorrect` | `Spec => []Indexed` |
| | `GatherIndexCorrect` | `Spec => []GatherIndex` |
| | `Refinement` | `Spec => ImplementsDistribution` |
| `NonoverlappingProofs` | `Invariance` | `Spec => []IInv` |
| | `RecordsConsecutiveCorrect` | `Spec => []RecordsConsecutive` |
| | `PlacedOnceCorrect` | `Spec => []PlacedOnce` |
| | `Refinement` | `Spec => ImplementsDistribution` |
| | `ScannedCorrect` | `Spec => []Scanned` |
| | `GatherIndexCorrect` | `Spec => []GatherIndex` |
| `ObsFrameReadProofs` | `ReaderInvariance` | `ReaderSpec => []ReaderInv` |
| | `SourceIsReadOnce` | `ReaderSpec => []SourceReadOnce` |
| | `VariablesAreStoredWhole` | `ReaderSpec => []StoredWhole` |
| `ReadHaloProofs` | `ReadHaloInvariance` | `ReadHaloSpec => []ReadHaloInv` |
| | `Refinement` | `ReadHaloSpec => ImplementsHalo` |
| | `GathersEveryObsOnce` | `ReadHaloSpec => []EveryObsOnce` |
| `WriterSaveProofs` | `PoolInvariance` | `Spec => []PoolInv` |
| | `PoolIsConsistent` | `Spec => []PoolConsistent` |
| | `TilesAreInOrder` | `Spec => []TilesInOrder` |

`VectorProofs` has the lemmas about loops and collectives that the others rest on.
`Marked`, `Joined` and `SumBelow` (in `Vectors`) are recursive functions: the loop
that copies the marked elements of a vector, allGatherv and exclusiveScan. No induction
rule that takes a predicate is available, so the induction is over a set of
numbers: a set that has 0, and with each number the next, has all of them
(`InductionTo`, from the least element of the complement). From it come
`JoinedElements` (the elements of a rank stand behind those of the lower ranks,
whatever follows), `MarkedElements` and `SumOfLengths`; `OnceEach` says by counting
that a vector with each member of a set in it, and no longer than that, has each once.

### Halo

None of the safety properties is inductive. `WholeRecords` speaks of the
locations held, but the code decides by looking into two sets of records;
`PatchPartition` speaks of the end, but depends on what was sent. `IInv`
(in `Halo`) connects them:

* `HeldLocations`: a rank's vectors are the calls made whose record is near, in
  the order of the calls (`CallsInOrder`);
* `RecordsDecided`: the two sets divide the records seen by their first location, and
  the stored distance is that location's;
* `Mirrored`: `haloLocVector` and `haloLocRecords` equal the caller's vectors
  until they are cleared;
* `MaxPhase`, `MinlocPhase`: who has sent what to the two collectives. Every
  rank's contribution for a location is the distance of the location's *record*
  if it holds it, and infinity if not; and nobody is past a collective
  to which someone still has to contribute;
* `Flagged`: the patch flags of a rank that has finished say which locations
  it owns according to the contributions.

The proof has a lemma per action. `AssignRecordStep` turns on
`FirstLocationDecides` (a record's first location is the first call for it, so
that later calls leave `Near` alone), `SendMinlocStep` on
`DistLocIsSentDistance`. `PatchMeaning` then gives the partition: the owner of
a location is a rank with the least contribution (`OwnerIsClosest`, which
needs that finite sets of numbers have least elements); a location held
somewhere has a finite contribution, so its owner holds it. As contributions
depend on the record alone, all the locations of a record that a rank holds
have the same owner (`SentByRecord`), hence `RecordsOwnedWholeCorrect`.

The refinement maps a rank that is done to a closed rank with the patch its
flags say; a rank that is not done has no patch (`NoPatchYet`). `assignRecord`
is the abstract step of that name (`AssignRecordRefines`); sending to a
collective is a stutter; returning from the last one is the abstract
`ComputePatchLocs`, with an empty patch when nobody holds anything
(`NothingHeldRefines`) and else with the locations owned
(`FinishPatchLocsRefines`, which needs the ranks' agreement on contributions
from `MinlocPhase`).

For `GatherIndex` there is a second layer, `Indexed`, inductive together with `IInv`:
the indices of a rank that has finished are the places of its locations, its own
or not, in their owners' patches, after the patches of lower ranks (`IndexOf`).
`JoinedElements` and `MarkedElements` find the location at that place of the gathered
vector, and the patches, being disjoint, count what is held anywhere.

### Nonoverlapping

Each rank decides alone whether a record is its own. `IInv` says why they
agree: `Offered` (what the reader guarantees), `Counted` (`nextRecordToAssign` is
the number of records seen, mine or not), `Decided` (`myRecords` are the
records seen whose place, `PlaceOf`, is this rank), `HeldCalls` (the vectors hold
exactly the calls placed here) and `AllOffered`. `PlaceOf` depends on the input
alone: the record's number for RoundRobin, the partition of its first
location for Atlas. `PlacedOnceCorrect` follows, and `RecordsConsecutiveCorrect`
is the `ASSERT` of `RecordAssigner`.
In the refinement a rank that returns from the scan takes all that it holds.

For `GatherIndex` the second layer is `Scanned`: a rank behind the scan has counted
the locations of all lower ranks, and these have finished assigning, so that the
count stays right although higher ranks still assign. The offset plus the local index
is then the place in the gathered vector, by `JoinedElements`.

### ObsFrameRead

`SourceReadOnce` and `StoredWhole` compare the end of the loop over frames with
the source as a whole. `ReaderInv` says the same of every point on the way, for each
rank alone, in terms of two numbers: the rows below `Seen` have been checked,
and the locations below `Front` have a record number.

* `Progress`: the loops of a frame follow one another, and what each has done bounds
  the next;
* `Located`: `locIndex` is the kept locations of the frame, in order;
* `Numbered`: a record number is the number of records that begin earlier in the
  *source*, and the grouping map knows exactly the keys below `Front`. This is what makes
  the numbers independent of the frames;
* `Called`: every kept location below `Seen` has been offered to the distribution or is
  among those still to be;
* `CountedRows`: the counters are the cardinalities of the sets they count;
* `StoredRows`: what earlier frames stored is in place, `frame_loc_index` says
  which rows of this frame follow, and the cached selections are gone when a new frame
  is stored;
* `ChannelRows`: variables without Location are complete up to `frame_start`.

There is a lemma per action (`CheckLocationStep`, `NumberLocationStep`, ...), and in it a
step per conjunct; `OtherRank` deals with the ranks that stand still.

### ReadHalo

`ImplementsHalo` is `Halo`'s specification with the calls of the source in the place
of its arbitrary calls. What is needed beyond `ReaderInv` is `InStep`: the distribution of a
rank takes records as long as its reader is not done. Steps of the reader are
stutters, except the one that offers a location, which is `AssignRecord`: the
calls so far are a prefix of the calls of the source. As `Halo`'s theorems
are about any behaviour of its specification, they carry over through the
instance: `GathersEveryObsOnce` combines `Halo`'s `WholeRecords` and
`GatherIndex` with `ReaderInv`, which says what is stored.

### WriterPool

`TilesInOrder` speaks of the end and `MessagesExpected` of a moment; both depend
on numbers that ranks compute apart and never compare. `PoolInv` has, for the
values `p`, `l`, `m`, `n`, `t` that no step changes (patches, string lengths, several
files or one, number of groups, time rank):

* `PhasesInv`: nobody is past a collective that somebody has not entered;
* `PoolSet`: what each rank has computed in its phase, in closed form: its group and
  assignment from `Start` and `GroupIn`, its counts and offsets from `Below`, the number of
  values of lower ranks;
* `TransferInv`: which variable each rank has come to; a block that arrived is what
  the rank behind it sent for *this* variable; a message in flight is one that its
  receiver has not had and still needs. Tags of different variables of one sender
  differ (`TagIs`) although those of different senders may coincide, and
  a receiver goes on from a variable only when all of its ranks have sent it
  (`HasAll`);
* `FilesInv`: a file has its full size from the start, and each variable that a rank of
  the pool is behind is in place for all of its group, in the copy as in the original.

`WriterPoolProofs` has groupRanks (`StartStep`, `GroupInIs`, `PoolSize`: the groups are
intervals that follow one another, and every rank is in one), the sums, the phases,
the set-up and the transfer; `WriterFileProofs` has the names, the offsets
(`VarStartIs`, `ValuePlace`: the place of a value in the file computed from the
assignments is the one computed from `Below`), the writes, the rename and the copy;
`WriterSaveProofs` has the theorems. With parallel io ranks write one file: `FilePlace` shows that the places
of two groups are apart. `TilesAreInOrder` then joins the files: each
begins where the one before ends (`FileOrder`), every place belongs to a value of some
rank (`BelowCovers`), and both vectors have that value there (`FilesTile`).

### Only model-checked

* The liveness properties, which are out of reach of the prover: `Terminates`, `ReadsAll`,
  `Finishes`, `Completes` and `SaveReturns`.
* `ObsExtend`: no proof has been made.
* `Backends` and the conversions: what their recursive functions and folds compute for
  every input takes an induction over the data, for each of them one of its own as in
  `VectorProofs`; no proof has been made.

## 5. Not modelled

`PROJECT.json` gives the reason for each part. In short:

* the registry of distributions; the reader pool, which nothing constructs; the
  reader and writer backends, which open a file and hand it on;
* types and marshalling: descriptions of memory, without decisions;
* the Python interface, which is forwarding, the examples and the timing
  program, which are straight lines of library calls.

In the parts that are modelled: logging and wording; the geometry behind
distances and mesh partitions; rounding of floating point numbers other than
where it decides (`RecordKeys`, `SavedVectorReadsBack`); types of variables
where the code treats them alike; the libraries (MPI, HDF5, ODC, udunits, YAML)
beyond how the code uses them; the lifetime of HDF5 handles; the attributes and
groups that the writer pool creates; the failure of a rank, or of a file
operation in a collective phase, which the code answers with an exception that ends
the run.

## 6. Plan

What could follow:

1. Proofs for `ObsExtend` (`NumbersAgree`, `ExtendedOnce`).
2. Composition of reading with `Nonoverlapping`, and of reading, extension and
   saving: the file written holds each observation read once.
3. Longer sequences of calls on the backends, and several clients.
