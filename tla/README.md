# sensor-qaqc: specifications

TLA+ models of the `sensor_qaqc` package, the TLC configurations that check
them on small instances, and theorems about them that TLAPS proves for every
value of their constants. Paths such as `core/runner.py` are below
`src/src/sensor_qaqc/`.

Contents: [the system](#the-system) ·
[the modules](#the-modules) · [the runs](#the-runs) ·
[what the runs showed](#findings) · [fairness and deadlock](#fairness-and-deadlock) ·
[the proofs](#the-proofs) · [what is not modelled](#what-is-not-modelled) ·
[the plan](#the-plan)

## The system

`sensor_qaqc` turns a logger's export into a canonical record and judges it.
There are two halves, which meet in the record:

- **ingest** (`instruments/`, `cli/inspect_command.py`): choose a format for a
  path, load its tables, parse them, gate the parse against the statistics that
  the vendor's own app published in the file, reconcile what the file states
  with what an operator supplies, convert the stamps to UTC and place them on a
  uniform grid;
- **the check framework** (`core/`): a registry of checks, a runner that orders
  them by the capabilities they provide and consume, and a conformance battery
  that every registered check must survive.

The program is sequential: no threads, no network, nothing persisted. What is
hard about it is elsewhere, and the models are about that:

- *order and completeness*: a registry is filled in any order, may hold cycles
  and orphans, and is run several times;
- *partial failure*: a pipeline of some thirty refusals, any of which ends the
  work in the middle, and a check that stays silent half way down a chain;
- *files that passed through other hands*: rows lost, repeated, swapped or
  blanked, cells overwritten, statements in a file that contradict each other,
  a directory whose files come and go between selection and load;
- *clocks*: a zone label that is read once and applied to a record during
  which the local clock moved;
- *numeric boundaries*: ties that doubles decide one way or the other, a strict
  comparison in an exact test, an infinite sample number;
- *vacuity*: a battery case that could not run and looks like a pass;
- *configuration*: two YAML documents that decide how every file is read.

### Inventory

| component | state it keeps | operations | what is hard | correct when |
|---|---|---|---|---|
| check registry, `core/registry.py` | two dicts, kept in step | `register`, `get`, `provider_of`, iteration | a declaration refused half way, a second claim to an id or a capability | the two dicts never disagree; what landed never changes |
| check runner, `core/runner.py` | `emitted`, silent providers, `results`, per call | `run_checks`, `_execution_order` | registration order, cycles, missing providers, silence that spreads, a second call | providers first, the order is deterministic and minimal, nothing gated, no stale or forged capability, refusals are real |
| conformance battery, `core/battery.py`, `core/synthetic.py` | rung and tallies of one run | five case classes, two tiers | cases that never ran, seeds used twice, off-by-one of a critical count | a certificate means all five held, a refusal means one broke |
| data table parser, `instruments/tables.py` `parse_data` | three lists grown row by row | blank, read, refuse | one list out of step, a cell that fails in an unforeseen way | the lists are the non-blank rows, every blank one counted |
| details parser, `tables.py` `parse_details` | entries, series, section in force | row by row | a row moved across a heading | every entry is under its own heading |
| event parser, `tables.py` `parse_events` | columns by name, events, blanks | the header, then row by row | several marks in one row, unknown labels, header cells that name nothing | no mark under a named column is dropped |
| HOBOconnect reader, `instruments/onset/hoboconnect.py` | none between calls | `read` | one unit stated twice, one zone up to four times, partial statistics | one wrong statement never gets through; the gate gets all the statistics or none |
| generic CSV reader, `instruments/generic_csv.py` | none | `read` | a source that states nothing and publishes nothing | no numbering and no gate: only the grid protects it |
| format selection, `instruments/readers.py`, `containers.py` | none; the directory belongs to others | `reader_for`, `read_tables` | files that change between the two lookups | a vendor's file is never read without its gate |
| checksum gate, `instruments/checksum.py` | none | `verify_published_statistics` | rounding ties, deviation 0, samples without a reading | no false alarm, no silent loss |
| UTC and grid, `instruments/timezones.py`, `core/records.py` | none | `to_utc`, `to_uniform_grid` | clock transitions, gaps | nothing is filled, moved or merged |
| inspect command, `cli/inspect_command.py` | none | read, verify, render, exit code | exceptions nobody catches | exit 0 means what was recorded was read |
| reconciliation and assembly, `instruments/extraction.py`, `core/records.py` | none; an operator calls again | `outstanding_fields`, `assemble` | two places decide what is missing; corrections open new refusals | the file wins, provenance is exact, refusals lead to a record |
| requirements, `core/requirements.py` | value objects | `unmet_reason` | a gap fraction that is rounded twice and compared with `>` | a check is asked only about records it admits |
| verdicts, thresholds, check protocol | value objects | constructors, `for_variable` | few | part of Runner, see below |
| source catalogue, `instruments/sources.py` | a format per id, read from YAML | `parse_source_catalogue`, `for_format` | a slip of the hand that is accepted on loading and read otherwise later | a slip costs a complete source no fact that the report relies on |
| sensor catalogue, `instruments/sensors.py` | units per product, read from YAML | `parse_sensor_catalogue`, `for_product` | a fact without a citation, the facts of two products exchanged | every unit in a record is one of its product, and cited |
| command line, `cli/__main__.py`, `checks_commands.py`, `cli/registry.py` | none | parse, dispatch, list, show | exit codes that a cron job reads | every command ends with 0 or 1 |
| marine checks, `scripts/`, layer tests | none | | | see [not modelled](#what-is-not-modelled) |

How they meet: the command line dispatches to `inspect`, which loads the source
catalogue and calls selection, container, reader (which calls the
three parsers), gate and renderer (which calls UTC and grid) in that order;
`assemble` takes the same extraction, the operator's metadata and the sensor
catalogue (a document of its own), calls UTC and grid again and constructs the record, whose
constructor validates once more. `run_checks` takes a record, a threshold table
and a registry; the battery calls `run_checks` for each of its synthetic
records. There are no callbacks except `compute` and `positive_control`, which
belong to the checks.

## The modules

```
Registry <-- Runner --implements--> CheckRun       core/registry.py, core/runner.py
FalseAlarms, Synthetic                             core/battery.py, core/synthetic.py,
    <-- Battery --implements--> Certificate        core/requirements.py
DataTable <-- Ingest --implements--> Custody       tables.py, timezones.py, records.py,
              Ingest --uses--> Grid, Checksum      inspect_command.py, checksum.py
Details, EventLog <-- HoboReader                   tables.py, onset/hoboconnect.py
Yaml <-- SourceCatalogue, CommandLine <-- SourceSelection
                                                   cli/__main__.py, sources.py, readers.py,
                                                   containers.py, generic_csv.py
Yaml <-- SensorCatalogue <-- Assembly              sensors.py, extraction.py, records.py
```

(`<--` is EXTENDS, `--implements-->` a refinement, `--uses-->` a named INSTANCE.)

**Registry.** `checks` and `providerIds` are the two dicts, `registered` the
insertion order of the first (Python's dict keeps it, and the runner depends on
it). `Register` is the whole of `register`: the four validations as `Valid`,
then all three writes. `RefuseRegistration` is any of its early exceptions; it
leaves the state alone because every validation precedes the first write.

**Runner.** One step is one selection of `_execution_order` (`Schedule`), its
end, or one iteration of the loop of `run_checks`. `ScanEndsAt` is the scan of
`remaining` in registration order: it stops at the first check that can run
*or* that reaches a capability without a provider before one that merely waits,
because `all(...)` over `consumes` is lazy; which of two errors is reported
depends on that order. The payload of a capability is its origin, the check
and call that emitted it, so that a payload left over from another call or from
another check can be told apart. What a `compute` returns is the
environment's choice: any verdict, any set of names (declared or not), or an
exception. Between calls the caller may register more.

**CheckRun** is the abstract specification: checks with dependencies; each call
concludes every check once, after everything it depends on; a check that was
withheld (its compute never called) withholds all its dependents and is
INCONCLUSIVE; a refused call concludes nothing. It has no capabilities, no
dicts and no scan. Runner implements it under the mapping at its end.

**Synthetic** is a record as what it was made from and its grid: a seed, a gap
fraction, an interval, a number of points and which of them hold a reading.
Decimation is the slice `[::factor]`, masking keeps the grid. Its random numbers
are left out, since no property depends on them; `derive_seed` is the first eight
bytes of a SHA-256 and is taken as injective. A requirement is its kind and its
limit, compared as the code compares it: `gap_fraction` is `1.0 - n_valid / len`,
rounded twice, so a record with exactly the allowed fraction of gaps may come out
as having more, and `tie` says how (`1.0 - 0.85 > 0.15` is true). How many readings
`with_gaps` masks is a rounded product of doubles: the nearest whole number, either
of two where the exact product is half-way between them (`RoundedPercents`).

**Battery** is one run of one tier over one check: a step shows one record or
ends a case class. Verdicts on records that the check admits, reproduction and
exceptions are the environment's choice; a record it does not admit is answered by
the runner, with INCONCLUSIVE. Which of the declared controls the mapping of
negative controls still holds is part of the initial state. `shown` is the
history of the run, against which the properties count independently of the
program's own counters.

**Certificate** is the abstract specification of such a run, an examination with no
word on seeds, counters or the order of the classes: a fixed paper of questions, each
put once at most and after those it builds on; an answer that is fatal for its class
ends it there, and a verdict is final. Who is certified has answered every question,
alike where the answers must agree, with a tolerable number of alarms; nobody is
refused without a reason. In Battery the questions are the cases of the classes, the
control of a ladder is what its rungs build on, and which answers are fatal
(`Unwelcome`) is said once, apart from the actions that act on them.

**FalseAlarms** is the arithmetic of the two tiers' verdicts in whole numbers;
Battery compares it with a definition that counts outcomes. A rate that is exactly the
smoke tier's limit may compare either way in the code, which multiplies doubles
(`3.0 * 0.15` is below 0.45, so 9 alarms in 20 are too many for a bound of 0.15):
each check says by its `tie` which. The property that counts the alarms again takes
the same way, so it shows the tally, not how such a tie comes out. The full tier's
comparison with alpha is exact in the model; a sum of 200 doubles could differ from
it only for a probability within about 1e-13 of alpha.

**DataTable** is `parse_data`, a row per step, with the three conversions of a
cell as what they do: an empty value is NaN, an unreadable one a `ValueError`,
an infinite sample number an `OverflowError`. **Grid** and **Checksum** are
pure operators. **Ingest** puts them in line: a logger records, its app
exports rows and publishes statistics (computed by the same definitions with
the vendor's rounding to two decimals), an editor changes the file up to
`MaxEdits` times, `inspect` runs to its exit code, and `assemble` builds the
series. Readings are whole thousandths, so distances from
the published values are exact fractions, and a computed value nearer or farther
than the tolerance of 0.005 is told apart as the code does: the noise of doubles,
about 1e-12, does not reach across. At the tolerance itself it decides, and the code
leaves nothing to spare: 0.605 against a published 0.61 disagrees, because
`abs(0.605 - 0.61)` is 0.0050000000000000044, while other ties agree. `Verify`
therefore takes any set of the four compared statistics as those that agree at a tie
(more outcomes than the doubles of one file have). `HalfWay` says that a recording has
such a statistic. One case stays outside: the deviation of a long record is irrational
and may come within 1e-12 of half a place without being a tie.

**Custody** is the abstract specification of that line, without files, rows,
statistics or a local clock: a recording (instant to reading) is judged once and then
delivered as a series or not. A series that is *whole* has the recording's instants,
and at each the recording's reading or a visible gap; of one that is a *stretch* the
same holds between its ends, moved as a whole at most. In Ingest an exit of 0 with
published statistics is "whole", a numbered file with no stamp typed into it
"stretch".

**Details** and **EventLog** are `parse_details` and `parse_events`, a row per
step. EventLog starts from the cells of the event header: `EventColumns` are those
that name something other than the sample number, and what stands under any other
is never looked at, by `IsEmptyRow` and `IsEvent` either. A stamp may be there, be
empty or be a text that is no stamp. **HoboReader** runs them and then `_units`, `_statistics`, `_events` and
`_metadata`, each one step that accepts or refuses. A value the vendor wrote is
the key it was written for and the zone it names: enough to tell when it ends
up in another field.

**Yaml** is what `safe_load` returns, a tree of mappings, lists and scalars, and
how the catalogues look into it; `Str` is `str(raw.get(key, ""))`, for which
nothing after a key is the text `None`. **SourceCatalogue** is
`parse_source_catalogue`: which documents are refused, which crash it, and the
shapes it makes of the others. The regex engine is a table: a pattern's named
groups and what they capture in each header cell. **CommandLine** is the command
tree, what argparse accepts of it, and the exit codes.

**SourceSelection** puts these in line: a command from its arguments to its exit
code, over a directory in which a file may appear, vanish or change until it is
read. Its steps are the dispatch, the catalogue, `select_format`, the reader's
constructor, `read_tables`, the parsers and the gate. A table is of a kind
(vendor data, bare data, a log, details whose statistics agree, differ or are
missing); whether a parser finds what it needs in the header of that kind follows
from the shapes that the catalogue gave it.

**SensorCatalogue** is `parse_sensor_catalogue`. **Assembly** loads it and is then
the exchange around `assemble`. One step is one call, whose refusals are tried in
the order of the code, or one correction by an operator who withdraws what the
file contradicts and answers anything else with the truth.

In every module a definition named `Slip...` stands before the definition it
distorts: the same operator with one plausible programming slip (a dropped
guard, a list not reset, a comparison that is strict). No specification uses
them. They document which mistake each property would notice.

## The runs

`MC*.tla` give the constants their values. The longest run takes about two minutes.

| run | what it explores | bounds, and why they are enough |
|---|---|---|
| `runner` | Two calls of `run_checks`, interleaved with every order of offering fourteen declarations, every outcome of every compute; about 14 000 states | Five sound checks with three capabilities hold every shape: a provider and its consumer in either order, a chain of three, a check that consumes two capabilities, a cycle, an alternative provider of the same capability, a missing provider. One further rival for an id and eight declarations that break one rule each. Two calls are what a leak from one to the next needs |
| `runner_honesty` | the same, one call | finding 1 |
| `ingest` | Every pair of edits of a four-sample export in both formats; about 90 000 states | Four samples have two inner rows, so that loss at an end, loss inside and a swap of neighbours differ. Two edits are what it takes to hide one loss behind another change. The readings hold a constant record, values published away from what was read, and a sample without a reading; one recording spans the autumn transition |
| `ingest_spring` | Every untouched recording over the spring transition | finding 2 |
| `ingest_ties` | A constant recording half-way between two published values, untouched | finding 3 |
| `reader` | Every pair of edits of an export's details and event tables, or one edit of an export that states its unit or its zone otherwise somewhere; about 164 000 states | The details table is in its real order with every key the reader looks at; the log is numbered and has a row with one mark and a row with two. An edit may empty or overwrite a cell of either table, the stamps and the event header's cells among them |
| `selection` | `sensor-qaqc` from the command line to the exit code, in three situations: every path into every directory of two data files, two sidecars and a workbook, with one change at any time before the load; a catalogue with a slip of the hand, over complete sources; every command typed right or wrong; about 79 000 states | Selection looks at a name's presence once, so one change covers the window between the two lookups. The slips are a key left out, left empty, or given another value of its kind or of another: one in an entry of the vendor's, two in the bare format's, whose being mistaken for the vendor's is the danger. A slip and a change are not combined (the guard of `Change`) |
| `assembly` | Every first attempt of an operator against four kinds of source, and all the corrections that follow; about 244 000 states | Each field may be typed right, wrong or not at all, a position also off the map; the sources state everything, nothing, a position as well, or all but a unit and an interval. `sensors.yaml` is wrong in one place only for an operator who types the truth (`Init`): its outcome does not depend on the first attempt |
| `assembly_blank` | a source with a blank serial cell | finding 5 |
| `assembly_uncited` | as `assembly` | finding 6 |
| `battery` | Every verdict at every record of a run of either tier, for five checks; about 463 000 states | Two controls, two rungs and one gap suffice because the cases are loops whose body does not depend on the index; three and four realisations, rates in quarters and a gross factor of 2 where the code has 3.0 put the alarm count on both sides of both limits, and three alarms in three exactly at the smoke limit of a check whose `tie` refuses. The checks are one whose requirements exclude the coarse rung, one that excludes the gaps by a rounding, one whose control is too short for the ladder, one that the battery's records do not suit and one whose control has a gap of its own. TLC's integers are 32 bits wide: four draws of four faces are what exact counting can afford. The code's 20 and 200 draws are not reached; the formula is the same for every n |
| `battery_vacuous` | the same | finding 4 |

What they show:

*runner.* `ProvidersAreExact`, `RegistrationIsPermanent`: no order of offers
and refusals makes the two dicts disagree, gives a capability a second provider
or changes what landed. `ProvidersFirst` and `OrderIsLeast`: the schedule puts
providers first and is the lexicographically least such order by registration
position, compared with all of them. `RefusalsAreReal`: an ordering is refused
only for a closed knot of checks or a capability nobody provides.
`SilentLookupSucceeds`: the comment in the code that explains why naming the
silent provider cannot raise `KeyError` is right. `NothingGated`,
`HandedWhatWasDeclared`, `WithheldPropagates`: a result for every check; each
compute gets exactly what it declared, from its registered provider, in this
call; silence spreads to everything downstream. `CallEnds` and the refinement
`ImplementsCheckRun`.

*ingest.* `ParseIsAligned`: the three lists are, row by row, the non-blank
rows. `NoSampleLost`: with published statistics and exit 0, the stamps parsed
are the stamps logged, whatever two edits were made. Neither numbering nor
statistics nor grid shows this alone. `LossOnlyAtTheEnds`: with the
statistics cut away the numbering still leaves one contiguous stretch.
`SeriesIsFaithful`: the assembled series holds each reading at its instant and
NaN elsewhere. `UntouchedIsAccepted`: no false alarm, unless a statistic is exactly half-way between
two published values (finding 3). `TransitionIsRefused`:
autumn is refused, as documented (spring is finding 2). `InspectEnds`.
`ImplementsCustody`: the three steps from a file to a series, parse, UTC and grid, put
each reading at the instant of the sample it was taken at, which none of the above says.

Renumbering a column is not among the edits: someone who rewrites the sample
numbers after removing a row defeats the numbering by intent, and then only the
statistics remain.

*reader.* `EntriesAreUnderTheirHeading`, `FieldsAreWhatWasWritten`: no edit of
the details makes a field hold what was written for another one.
`OneWrongStatementIsRefused`: a wrong unit or zone gets through only when every
statement of it is wrong. `StatisticsAreWhole`: the gate is never handed a
part. `NamedMarksAreRead`: an accepted file has an event for every marked cell under a
column that its header names, in order, and no other. `WellFormedIsRead`: a file is
read exactly if it is well formed, which is said of its rows and headers and not of the
parser, and one nobody touched is. Well formed says nothing of the cells under an empty
cell of the event header: see below.

*selection.* `GateIsNeverSkipped`: whatever is typed, in the directory, in the
catalogue, and whenever it changes, exit 0 on data with the vendor's header means
that its details table was read and not found to differ. The presence test of the
selection does not ensure that; the header check of the parser does, and
therefore a bare format that describes the vendor's own header is the exception.
`CompleteSourcesAreRead`: with the shipped catalogue nothing complete is turned
away. `PointedFileIsRead`. `SlipsCostOnlyLogAndNumbering`: the catalogue's load
accepts more slips than it refuses, and still none of them leaves exit 0 with
another unit, zone, set of statistics or, where statistics are published, another
calendar; what a slip may cost unseen is the event log and the numbering.
`CommandEnds`: with exit code 0 or 1 or in a traceback (whose code is 1), never
with argparse's 2.

*assembly.* `ProvenanceIsExact`: the file wins and each field says where it is
from. `OutstandingSuffices`: an operator who supplies what `inspect` names is
never told that something is missing. `UnitsAreTheProducts`: a record's unit is
one that the sensor catalogue gives for its own product, in a fact that names a source
and a rationale and leaves neither an empty text; that either may be nothing at all is
finding 6.
`DiligenceIsRewarded`: one who obeys each refusal ends with a record if what the
file states is right and `sensors.yaml` is as shipped.

*battery.* `CertifiedIsConformant` and `RefusedForCause`: a run that certifies has
seen all five classes hold on records the check admits, one that refuses has seen
one break. `EveryDrawIsItsOwn`: n realisations are n seeds. `FullTierIsExact`: the
full tier refuses a bound exactly when that many alarms have a probability below
alpha. `ImplementsCertificate`: the order of the cases as well, which the others do not
see: a battery that degrades a control before it has proved it passes all of them.

### Findings

Six runs expect a violation. Each states what a docstring or a decision record
says and finds that the code does otherwise.

1. `runner_honesty`: a provider that returns INCONCLUSIVE and emits anyway
   leaves its consumers computing, and passing; the module docstring of
   `core/runner.py` (lines 11-14) says that they inherit.
2. `ingest_spring`: a record over the March transition has a hole of an hour
   and no duplicate stamp, so the grid accepts it, every later sample an hour
   off. `instruments/timezones.py` (15-18) says that such a record is refused.
3. `ingest_ties`: a recording of 0.605 throughout publishes 0.61, and the gate can
   refuse it untouched: `_within` (`instruments/checksum.py`, 159) compares the
   doubles' distance, 0.0050000000000000044, with half of the last place. The module
   docstring (17-20) says that any value within half of the last place is the same
   published number, and that this comparison, unlike `round()`, does not false-fail on
   a .xx5 tie. The model leaves open how a tie comes out; this one is refused.
4. `battery_vacuous`: a check that answers INCONCLUSIVE to every negative
   control is certified; ADR 0006 (40-43) says that INCONCLUSIVE can never
   silently satisfy "must not PASS".
5. `assembly_blank`: a blank cell is read as the empty string and counts as
   stated, so `inspect` does not name the field and `assemble` ends in a refusal
   that nothing supplied can cure; `outstanding_fields` says (200-201) that it
   names what the source left unsaid.
6. `assembly_uncited`: a fact of `sensors.yaml` with nothing after `source:` or
   `rationale:` is accepted, cited as the text `None`, and a record takes its unit from
   it (`instruments/sensors.py`, 79). The module docstring (10-12) says that the
   citation is enforced by construction, `sensors.yaml` (4-6) that the loader refuses a
   fact without both.

Met on the way, without a run of their own:

- If a cell of the event header is emptied, the marks under it are not read, the file
  is accepted and no note says so (`tables.py`, 267-271), although
  `test_hoboconnect_reader.py` (146) heads its refusals with "Anything the reader
  cannot place refuses; nothing is dropped quietly". The run `reader` makes that edit;
  `NamedMarksAreRead` and `WellFormedIsRead` say what holds of the file then.
- A CSV sample number `inf` raises `OverflowError` (`tables.py`, 354), which
  `inspect_command` does not catch although it says (145-146) that every refusal is one
  of the three it lists. The run `ingest` takes it as a traceback (`InspectEnds`).
- An events pattern without its `timezone` group is accepted on loading and ends in an
  `IndexError` once a bundle has been read, although `instruments/sources.py` (12-15)
  says that named groups are checked at load. The run `selection` takes it as a
  traceback (`RaiseNoSuchGroup`).

## Fairness and deadlock

The code has no scheduler: once called, a function runs until it returns or
raises. Weak fairness therefore stands on the steps *inside* a call and never
on the call itself. In the runner it is on `OrderStep` and `RunStep` (two loops over
finite lists; it assumes that every `compute` comes back), in Ingest on
`InspectStep`, in SourceSelection on `Main`, where the environment's changes are
bounded by `MaxChanges` and are under no fairness. In Assembly it is on
`LoadSensors`, and on `Call` and `Correct` as the assumption of the property itself:
an operator who does read each refusal and try again.

The cfgs set `CHECK_DEADLOCK FALSE` because every one of these programs stops:
a command exits, a record is built, a certificate is issued, the calls are used
up. That nothing stops *early* is what the liveness properties say. The battery and the
reader have none: each is a chain of bounded loops without a wait.

## The proofs

Each theorem is about the specification for every value of the constants that
satisfies its named assumptions: any set of declarations, any number of calls,
any recording, any number of edits, any catalogue and directory, any ladders and
any number of realisations.

| module | theorem | property |
|---|---|---|
| RunnerProofs | `RegistryIsTyped`, `RegistryProvidersAreExact`, `RegistrationsArePermanent` | `RegistryTypeOK`, `ProvidersAreExact`, `RegistrationIsPermanent` |
| | `RunnerIsTyped` | `RunnerTypeOK` |
| | `ProvidersAlwaysFirst` | `ProvidersFirst` |
| | `SilentLookupAlwaysSucceeds` | `SilentLookupSucceeds` |
| | `NothingIsGated` | `NothingGated` |
| | `HandedAlwaysWhatWasDeclared` | `HandedWhatWasDeclared` |
| | `WithheldAlwaysPropagates` | `WithheldPropagates` |
| | `RunnerImplementsRegistry`, `SessionsKeepTheRegistry` | a session of the runner is a behaviour of `RegistrySpec` |
| RunnerRefinement | `RunnerImplementsCheckRun` | `ImplementsCheckRun` |
| | `RefusalsAreAlwaysReal` | `RefusalsAreReal` |
| RunnerProofs | `OrderIsAlwaysLeast` | `OrderIsLeast` |
| IngestProofs | `IngestIsTyped` | `IngestTypeOK`, which no run lists |
| | `ParseIsAlwaysAligned` | `ParseIsAligned` |
| | `NoSampleIsEverLost`, if the local clock never moves forwards | `NoSampleLost` |
| | `LossIsOnlyAtTheEnds` | `LossOnlyAtTheEnds` |
| | `SeriesIsAlwaysFaithful` | `SeriesIsFaithful` |
| | `TransitionIsAlwaysRefused`, if the clock stays or moves back by an interval or more | `TransitionIsRefused` |
| | `UntouchedIsAlwaysAccepted` | `UntouchedIsAccepted` |
| | `IngestImplementsCustody`, if the clock never moves forwards and the label states its offset at the first sample | `ImplementsCustody` |
| FalseAlarmsProofs | `BinomialTestIsExact` | the full tier's test is a count of outcomes, for every n and rate |
| BatteryProofs | `BatteryIsTyped` | `BatteryTypeOK`, which no run lists |
| | `CertifiedIsAlwaysConformant`, `RefusalsAreForCause` | `CertifiedIsConformant`, `RefusedForCause` |
| | `EveryDrawIsAlwaysItsOwn` | `EveryDrawIsItsOwn` |
| | `FullTierIsAlwaysExact` | `FullTierIsExact` |
| | `BatteryImplementsCertificate` | `ImplementsCertificate` |
| | `CertificatesAreEarned` | what the abstract certificate promises its reader, of every run |
| | `GapsNeverAdmit`, `DecimationNeverAdmits` | what a requirement keeps out, the ladders keep out |
| AssemblyProofs | `ExchangeIsTyped`, `ProvenanceIsAlwaysExact`, `OutstandingAlwaysSuffices` | `AssemblyTypeOK`, which no run lists, `ProvenanceIsExact`, `OutstandingSuffices` |
| | `UnitsAreAlwaysTheProducts` | `UnitsAreTheProducts` |
| HoboReaderProofs | `EntriesAlwaysUnderTheirHeading` | `EntriesAreUnderTheirHeading` |
| | `StatisticsAreAlwaysWhole` | `StatisticsAreWhole` |
| | `FieldsAlwaysAsWritten` | `FieldsAreWhatWasWritten` |
| | `WrongUnitIsAlwaysRefused` | `WrongUnitIsRefused`, one half of `OneWrongStatementIsRefused` |
| | `WrongStatementsAreAlwaysRefused` | `OneWrongStatementIsRefused` |
| | `NamedMarksAreAlwaysRead` | `NamedMarksAreRead` |
| | `WellFormedIsAlwaysRead` | `WellFormedIsRead` |
| SourceSelectionProofs | `VendorFilesAreAlwaysGated` | `GateIsNeverSkipped` |
| | `PointedFileIsAlwaysRead` | `PointedFileIsRead` |
| | `CompleteSourcesAreAlwaysRead` | `CompleteSourcesAreRead` |
| | `SlipsCostNoMore`, if `SlipsAreApart` and `OneUnitAndZone` | `SlipsCostOnlyLogAndNumbering` |

**Registry.** `RegistryInv` adds `IterationIsExact` (the dict and its order have
the same keys, each once, under the declaration's own id) to the properties.
Without it a refused second claim to an id could not be told from an overwrite.

**Runner.** None of the runner's invariants is inductive. `RunnerInv` is their
inductive strengthening, one conjunct per kind of fact:

- `RegistryInv` and `RunnerTypeOK`;
- `OrderInv`: the order is duplicate free, drawn from the registry and
  providers first, and complete as soon as the loop runs;
- `LoopInv`: after `cursor` iterations exactly the first `cursor` checks are
  concluded, and each capability one of them provides is either emitted or on
  record as silent *under that check's name*. This is the missing half of
  `SilentLookupSucceeds`: providers come first, so they are among those
  concluded, so what they did not emit is recorded;
- `PayloadInv`: everything in `emitted` is from the registered provider, in this
  call, from a compute that ran. It is what makes `HandedWhatWasDeclared` and
  `WithheldPropagates` hold, and it depends on `_validate_capabilities`: because
  providers are unique, an emission that passes the declared-names test can
  displace nobody's.

**The refinement.** `MapInv` adds to `RunnerInv` that nothing is concluded while
the order is made and that only concluded checks were computed. The mapped
`Conclude` step needs all of it: dependencies concluded (`ProvidersFirst`),
withheld ones propagating (`PayloadInv`), one conclusion per check (duplicate
free order). `RefusalsAreReal` is from the same module: the set of checks that
remain is itself the closed knot.

**The order.** `OrderIsLeast` speaks of the finished order; what the greedy scan
keeps true on the way is `GreedyInv`: whatever was registered before a
scheduled check and is not scheduled before it could not run at that point. An
order that beat the program's would, at the first place they differ, have to
schedule there a check that could not run.

**Ingest.** `IngestInv` follows the command:

- until the first edit the rows are the recording;
- every edit but a typed stamp only damages rows: one that still has a number has
  the stamp of that sample or none that can be read (`RowsInv`);
- the numbers read so far are consecutive, because the parser refuses a jump
  (`ReadInv`). With `RowsInv` this is `LossOnlyAtTheEnds`;
- a gate that agrees has seen as many stamps as were logged, the first and the last
  of them the vendor's (`GateInv`);
- an exit of 0 says that the stamps fit the grid, if the file is numbered.

`NoSampleIsEverLost` needs the last two only, and holds of typed stamps too: stamps
on a grid are at least an interval apart, so as many as fit between the two ends
have no choice of place. The argument is lost where the local clock moves forwards,
since the ends are then an hour further apart than the samples are many, which is
what finding 2 is about; hence the hypothesis on the clock. Where it moves back the
true ends leave too little room, and nothing is accepted.

`ParseIsAligned` says which row each element came from by rank: a row that is kept is
element number `Rank(i)`, the number of kept rows up to it. A rank grows by one or not
at all from row to row, which is an induction over numbers, where a filtered sequence
would be one over data.

`UntouchedIsAlwaysAccepted` says that the gate has no false alarm, for any recording
with two samples and one reading of which no statistic is half-way, whatever the gate
does at a tie. Its sums are recursive functions; that these exist,
and add one term per step, is shown first, by the least index at which a claim could
fail (`HoldsUpTo`). The variance the deviation is computed from is then not negative
(`OneMoreReading`, which is Cauchy-Schwarz one term at a time); a published average is
within half a place of the exact one, strictly if it is no tie (`RoundedIsWithin`), and
a rounded deviation exists (`RoundedDeviationIsWithin`); the extremes are readings.

`IngestImplementsCustody` needs the readings too: `ReadingsInv` says that a row with a
number has the reading of that sample or none, whatever was done to it, because other
hands move rows and damage cells but type no readings, and so has what is parsed. Stamps of
consecutive samples on the grid are all from one side of a transition
(`ClockStandsStill`), so the grid's points are the samples' instants
(`FullGridPoints`) plus what the clock was moved by; that is zero when the whole
recording is there, since its first sample is.

**Battery.** Three invariants. `HistoryInv` says where a run stands in the order of
its case classes and that nothing was shown from the same place twice; records of
different places are different records, by seed, gap or interval, which is
`EveryDrawIsItsOwn`. `CertificationInv` says that everything shown so far was good
for its class and that every place passed has been shown. `TallyInv` says that
`failures` is the number of alarms in the history, which is what the two tiers'
verdicts are computed from. A refusal is then traced to its cause by the action
that made it.

The refinement maps the history to a sheet of answers and the place to nothing: a step
that shows a record is an `Ask`, one that ends a class a stutter, the last one of a run
a `Judge`. That a question is new, and that what it builds on is answered, is
`HistoryInv` and `CertificationInv`; that an open examination has no fatal answer needs
each action's own condition against `Unwelcome`. `CertificatesAreEarned` is proved of
the sheet (a question has one answer, none of them fatal, each on a record that it may
be put about) and then carried over.

**Synthetic records.** The slice `[::factor]` keeps the points whose place is a multiple
of the factor (`SliceIsEveryFactorth`), so it injects what is kept into what was there
and ends no later. Hence decimation never brings a record up to a minimum of readings
or of time, and masking never brings it under an allowed fraction of gaps, ties
included: of an inadmissible control no masked rung is admissible, and no decimated one
where it lacked readings or time. An allowed fraction of gaps may well be met after
decimation (the points that are kept may be the full ones).

**The binomial test.** `BinomialTestIsExact` compares the test the code computes, with
`math.comb` and powers, with one that knows no formula: of the `RateScale ^ n` equally
likely outcomes of n draws, count those that raise at least so many alarms. Taking the
last draw off an outcome shows that the outcomes with k alarms obey Pascal's rule
(`DroppingADraw`), and the formula obeys it too (`MassSteps`); so the mass is the
count (`MassCounts`), the accumulated sum is the count of those with at most k
(`CumulativeCounts`), and the critical value is the least whose complement is below
alpha (`CriticalIsRare`). `FullTierIsAlwaysExact` adds `FarInv`: what the state holds of
the false-alarm class is the number of alarms among as many realisations as the ladder
has, for the declared rate, when the verdict is reached.

**Assembly.** The type invariant is inductive only with the fact that a conflict
names nothing but fields a file may state: withdrawing a contradicted value
never withdraws the variable, which has no default. `UnitsAreAlwaysTheProducts` keeps
that the catalogue in force is the one read from an accepted document (`SensorsInv`).

**The reader.** `ReaderInv` follows the details parser: the section in force is
the nearest heading above the row to read (without this, filing an entry under
the wrong heading could not be excluded), and whatever was written for a key
stays beside it, because an edit moves rows and empties cells but types nothing
into them. An entry therefore holds what was written for its own key or is
empty; the seven statistics and the metadata are looked up by key and refuse an
empty cell where they convert it. A unit is settled in two steps
(header against series row, then symbol), so a wrong one that survives was stated by
both, whatever other series rows there are (`UnitInv`). For the zone, `SampleTimesInv`
says that all rows which still hold a sample time agree with each other and with the
entry made of one of them, wherever they were moved or repeated; so an accepted
statistic speaks for every row left. The number of edits plays no part, so
what the run shows for two holds for any number.

A row of the log has a sequence of marks, the non-blank cells under named columns in
column order; they too are given by rank. `NamedMarksAreAlwaysRead` keeps, while the log is read, that the
events so far are those of the rows above the row to read. `WellFormedIsAlwaysRead`
needs the converse of each refusal: with every parser it keeps that the rows above are
free of whatever would be refused, and at each refusal it names the row that is not
well formed.

**Selection.** `SelectionInv` relates the chosen format to the container and the
tables read, says that an accepted catalogue has a data table in every format, and
that an exit of 0 has passed the gate. Both properties then hold for any catalogue,
any directory and any number of changes. `CompletenessInv` follows an undisturbed
command on a complete source: of the packaged formats with the source's container the
vendor's is tried first, because it has the most tables, and it is present, so the
bare format is never reached; every cell its parsers look for is there.

`SlipsCostNoMore` finds what `SlipsCostOnlyLogAndNumbering` takes, which is false of
catalogues in general. `SlipsAreApart`: a vendor's entry still declares a zone, and
either the bare entry is as shipped (then it finds nothing in a vendor's table) or the
vendor's entries have their container and tables as shipped, three, and the bare one
fewer (then theirs is tried first). `OneUnitAndZone`: no header in the directory states
another unit or zone of those the program knows. Anything else in the catalogue may be
slipped, in every entry at once, and the report still has the file's unit, zone and
statistics: what a slipped pattern captures is refused as no unit or no zone, or is the
file's. `SlipsInv` keeps which format a complete source is read as, and from which
table. TLC evaluates both conditions on the slips of the runs.

**Assumptions**, which TLC evaluates on every run: `DeclarationsAssumption` (a
declaration is a record of its type), `VerdictsAssumption` (INCONCLUSIVE is a
verdict), `ExtractionsAssumption` and `OperatorAssumption` (every field is there,
possibly None), `ExportsAssumption` (each value in an export stands beside the key
it is for, and the number of edits is known),
`VendorAssumption` (a file nobody touched is well formed and has the events that were
logged), `EmptyTextAssumption`, `UnitsAssumption` (the vendor's unit is one the
reader knows), `SampleTimesAssumption` (it writes a sample time once),
`IngestAssumption` (a recording is a sequence of readings, the
interval is positive), `CellsAssumption` (an empty, unreadable or infinite cell is no
number, and the three differ),
`MappingsAssumption` and `RungsAssumption` (a mapping has a key once, the ladders
repeat no rung), `RealisationsAssumption`, `SamplesAssumption` and
`ChecksAssumption` (a declared bound is between 0 and 1, a control has two points),
`RateScaleAssumption`, `GrossFactorAssumption` and `AlphaAssumption` (scales and
alpha are in range), `SuffixAssumption` (every directory is over the same names),
`DirectoryAssumption` (a directory is none of its own files), `PackagedAssumption` (which
tables the packaged catalogue names, that it locates the vendor's columns, and that its
bare entry does not find its own in them),
`ContentsAssumption` (the vendor's tables are among the contents a file may have, and
None is no unit), and the bounds
`MaxCallsAssumption`, `MaxEditsAssumption` and `MaxChangesAssumption`. Three theorems
of IngestProofs have a hypothesis of their own on the clock, and one of
SourceSelectionProofs on slips and headers, in the table above.

**Only model-checked**: the liveness properties, `CallEnds`, `InspectEnds`,
`CommandEnds` and `DiligenceIsRewarded` (the prover has no ENABLED and no fairness).
Every invariant, action property and refinement that a passing run lists is a theorem.

## What is not modelled

- *Constructors of value objects* (verdicts, thresholds, provenance): single
  refusals of a malformed constant. Where they act at run time they are part of a
  module: an INCONCLUSIVE without a reason is a compute that raises, an unknown
  variable ends a call. `MaxOfFloors` is the maximum of a tuple, and no check
  combines floors yet.
- *argparse itself*: `--help`, abbreviated options, the wording of usage errors;
  and what the commands print: the report, the listing of a check.
- *The regex engine, the YAML parser, the csv module and Excel's own failures*: a
  pattern is a table of what it matches, a document the tree that comes of it, a
  damaged container an exception.
- *Marine checks, and the station, baseline and report commands*: no code yet.
- *The vendor's text formats* (`parse_stamp`, intervals, modes): a cell is readable
  or is not.
- *Two checks of the record's constructor*: that an already gridded series is
  regular, and that a logged event carries UTC; `assemble` hands it the grid and the
  UTC instants it has just made.
- *`scripts/`* (a gate that runs four subprocesses, a fixture generator) and the
  static layer tests.

## The plan

Done, in the order of what a silent mistake would cost: Registry and Runner with
CheckRun, Ingest with its parts and Custody, Battery with its records, its requirements
and Certificate, Assembly with the sensor catalogue, HoboReader, and the command from its arguments
to its exit code with the source catalogue; proofs about each of them.

Left, when the code has them: marine checks with floors to combine, and the station,
baseline and report commands.
