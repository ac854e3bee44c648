# A TLA+ model of PETAce-Verse

PETAce-Verse is a small C++ library of oblivious transfer (OT) protocols for two
parties: the Naor-Pinkas base OT, the IKNP 1-out-of-2 OT extension and the KKRT
1-out-of-n OT extension. This directory models the three protocols as their code
runs them and the programs that run the protocols after one another over one
connection, checks small instances with TLC and proves the main results for all
values of the constants with TLAPS. Paths below are relative to the root of the
repository.

## The system

| Component | State | Operations | Interacts with |
|---|---|---|---|
| `src/verse/util` | none | XOR of 128-bit `block`s, `bit_from_blocks`, `matrix_transpose`, `send_block`, `recv_block` | all protocols; the network |
| `base-ot/naor-pinkas-ot` | `base_ot_sizes_`, curve, generator; all else is local to a call | `NaorPinkasSender::send`, `NaorPinkasReceiver::receive` | each other, by three vectors of curve points in a call |
| `two-choose-one/iknp` | `base_ot_sizes_`, `ext_ot_sizes_`, `prng_`, `base_choices_` | `set_base_ots`, `send`, `receive` | each other, by one matrix in a call; the results of base OTs |
| `n-choose-one/kkrt` | `base_ot_sizes_`, `ext_ot_sizes_`, `prng_`, `base_choices_`, `q_mat` | `set_base_ots`, `send`, `encode`, `receive` | as IKNP |
| `verse_factory.h` | `creator_map_` of one singleton per interface | `register_verse`, `build` | static registrars, programs |
| abstract interfaces (`base_ot_*.h`, `ot_ext_*.h`, `nco_ot_ext_*.h`) | the sizes | pure virtual | programs |
| PETAce-Network, PETAce-Solo | external | byte stream, AES generator, SHA-256, elliptic curve | all protocols |
| `bench/`, `example/` | the command line, one connection, the protocol objects of a case | `main`, three benches with their handlers, three examples | all of the above |
| `test/` | the programs of the tests | the calls of one protocol | all of the above |

Two processes run, one per party. They share nothing but a byte stream in each
direction. Nothing in the code names the call a message belongs to, and nothing
is persisted: two objects agree because both were created with the same
parameters, both were given halves of the same base OT, and every call moves
the state of both by the same amount. Nothing times out or retries, so the hard
behaviours are these.

* **Running ahead.** `IknpOtExtReceiver::receive` and `KkrtNcoOtExtReceiver::receive`
  only send. The receiver can be any number of calls ahead; the sender draws
  from its generators what the receiver drew long ago.
* **State across calls.** Generators advance, `q_mat` is replaced by every
  `send` and answers `encode` until the next one, `set_base_ots` can be called again.
* **One party fails.** Parameters are checked by both parties separately; a
  party that throws has to do so before it has sent anything, and the other has
  to throw too, or it waits for good.
* **Blocking in the middle of a call.** A Naor-Pinkas sender sends, waits and
  continues; the receiver may have returned in between.
* **A stream without frames.** The case `all` runs three protocols after one
  another, base OTs in one direction and extensions in the other, over a stream
  that says nothing of where a message ends. A bench catches its exceptions and
  `main` goes on to the next protocol over the same stream.
* **Index arithmetic.** Columns of generator output become rows of blocks by
  `matrix_transpose`; sender and receiver must agree on indices, tweaks and padding.

What makes each component correct: for a base OT and for IKNP, the receiver's
message is the one of the sender's pair that its choice bit names, in every
call; for KKRT, `encode` of the receiver's choice is the receiver's message;
generators stay in step and no pad is used twice; a refused call is refused by
both; every call returns and leaves the stream empty. For a session: a call reads
the message its peer sent for that call and all of it, what a call demands of
its caller holds whenever a program makes it, the two programs never wait for each
other, and both finish.

## The modules

| Module | What it is |
|---|---|
| `Blocks` | blocks as sets of bit positions, `bit_from_blocks`, transposition of a column of blocks |
| `MatrixTranspose`, `MCMatrixTranspose` | `matrix_transpose` with its loops, register and shifts |
| `MatrixTransposeProofs` | its inductive invariant and its theorems |
| `RandomOt` | abstract specification: what a random 1-out-of-2 OT promises its two callers |
| `NaorPinkasOt`, `MCNaorPinkasOt` | the base OT |
| `NaorPinkasProofs` | its inductive invariant and its theorems |
| `Seeds` | results of base OTs and generators, shared by the two extensions |
| `IknpOtExt`, `MCIknpOtExt` | the IKNP extension |
| `IknpOtExtInv` | its inductive invariant, also checked by TLC |
| `IknpOtExtProofs` | its theorems, with the refinement |
| `SeedLemmas` | lemmas about blocks, seeds and generators that the proofs of both extensions use |
| `RandomNcoOt` | abstract specification: what a random 1-out-of-n OT promises |
| `KkrtOtExt`, `MCKkrtOtExt` | the KKRT extension |
| `KkrtOtExtInv` | its inductive invariant, also checked by TLC |
| `KkrtOtExtProofs` | its theorems |
| `VerseFactory`, `MCVerseFactory` | the factories and their static registrars |
| `VerseFactoryProofs` | its inductive invariant and its theorems |
| `VerseSession`, `MCVerseSession` | the programs: base OT and extensions composed over one byte stream |
| `VerseSessionProofs` | its types, two of its inductive invariants and their theorems |
| `VerseSessionPaths` | the inductive invariant and the theorems of what comes before a transfer that an exception leaves out |

Definitions that a comment calls a variant are plausible mistakes in the code;
no specification uses them. They show that the properties can fail.

### How state and actions correspond to the code

**`IknpOtExt`.** `sPrng`, `base_choices` and `rPrng` are the members of the two
classes; a generator is its seed and the number of blocks it has yielded. `net`
is the stream from receiver to sender, in matrices: `send_block` and
`recv_block` move `rows * cols` blocks, the same on both sides. `SenderSend` is
the whole of `send`: its guard is the blocking `recv_block`, everything before
it is local, so the call is one step. `ReceiverReceive` is the whole of
`receive`, which never blocks. `SenderThrow` and `ReceiverThrow` are the
exceptions, taken before any effect. `ReceiverOverrun` is a `receive` with more
rows than a block has bits: `matrix_transpose` then leaves its buffers, which
is undefined, so the party takes no further step and nothing is claimed of its
results. `RunBaseOt` is the programs' part: it appends a base OT result, which
each party installs when it gets to it. `set_base_ots` can happen at any time,
also between calls and on one side first. `sent`, `received` and
`received[k].from` are history: what each call returned and the position it
drew from.

**`KkrtOtExt`.** As above; a call has its own number of transfers `n`, padded by
`Pad`, and `q_mat` is what `encode` reads. `encode` changes nothing and is the
operator `Encode`. The model's premise is that the programs agree on the size
of a call up to the padding: a `send` that expects another number of rows would
wait for good or leave rows for the next call, and the code has no means to
detect it.

**`NaorPinkasOt`.** `SenderOffers` and `SenderReturns` are the two halves of
`send` around `recv_data`; `pending` is what the first half keeps in local
variables. `ReceiverReceive` is the whole of `receive`, which waits at its
start. Secret keys are drawn by `\E`.

**`MatrixTranspose`.** `Load` and `Store` are the bodies of the middle and the
inner loop. An input bit is represented by the number of its place, so one
behaviour shows where every bit of every input goes.

**`VerseFactory`.** The registrars are `static` objects in a header, so each
translation unit that includes it has its own six and runs them when it is
initialised, in an order among units that nothing fixes. `Initialise` is one of
them, `RegisterCustom` a registration of the program's own, which can only come
after the six of the same unit. `build` changes nothing and is the operator `Build`.

**`VerseSession`.** `NpSend`, `NpReceive`, `IknpSend`, `IknpReceive`, `KkrtSend` and
`KkrtReceive` say what a call transfers on its side, in order and in bytes, computed
from its own parameters as the code does. `NpBody`, `IknpBody`, `KkrtBody`, `Bench`
and `BenchMain` put them together as the benches and `main` do, `Example` as the
examples do. A party's `script` is the result, and `pc` where the party is in it.
`BenchConnect` is the `main` of `bench.cpp` up to the connection, with the defaults of
the two lists, their check and what each party takes from them. `ExampleConnect`
is one turn of the loop of `example.cpp`. `SendData` and `RecvData` move any number of
the remaining bytes, as many as the connection takes (`Room`) or holds (`Ready`).
`RunLocal` is an operation without transfer. `Throw` is an exception: it
leaves the case, and the handler's party goes on with the next one on the same
connection. `sent` and `got` are the counters that the log lines print, and
`held` the sizes of the objects. `reached`, the counters at every place
of the script, is history. The values that calls compute are left to the modules of
the protocols: this module is about which bytes belong to which call.

## The runs

Every run finishes in well under a minute.

| Run | Instance | Checks |
|---|---|---|
| `iknp` | blocks of 2 bits; parameters (2,4), (2,2), (2,3), (3,4); every choice block; 1 base OT; 4 blocks per generator | `TypeOK`, `IInv`, `ChosenMessages`, `RejectedAlike`, `ImplementsRandomOt`, `AllCallsReturn` |
| `iknp_repeated` | 2 base OTs installed at any time by either side; (2,4) and the size (4,2) that only the receiver accepts | `IInv`, `StreamsInStep`, `ChosenUntilRenewed`, `SeedsMatch`, `PadsFresh` |
| `iknp_second_base_ot` | both parties install 2 base OTs, then call | **violates** `ChosenMessages` |
| `iknp_double_base` | base OTs of two blocks | **violates** `RejectedAlike` |
| `kkrt` | base OTs of 1 and 2 blocks and of a refused size; calls of 1, 2, 3 transfers; 3 blocks per generator | `TypeOK`, `IInv`, `EncodesChosen`, `StreamsInStep`, `PadsFresh`, `NeverStuck`, `ImplementsRandomNcoOt`, `AllCallsReturn` |
| `kkrt_second_base_ot` | both parties install 2 base OTs, then call | **violates** `EncodesChosen` |
| `naor_pinkas` | group of order 5; 1 or 2 instances in a call, 2 in all | `TypeOK`, `ChosenMessages`, `MessagesDiffer`, `OneInFlight`, `ImplementsRandomOt`, `AllCallsReturn` |
| `matrix_transpose` | sizes in units of 16 instead of 128: 16x16, 32x16, 16x32, 48x32, two refused | `TypeOK`, `ReturnsTransposed` |
| `verse_factory` | 3 units, 2 registrations of a program | `BuildsLibrary` |
| `session` | every case, one of an unknown name, 1 or 2 calls, refused lists, 2 examples after one another, 1 exception | `TypeOK`, `MessagesWhole`, `OneCaseContained`, `LogsAgree`, `DutiesMet`, `NeverStuck`, `BothFinish` |
| `session_log` | the IKNP bench | **violates** `LogBracketed` |
| `session_hosts` | two machines, listed in the order of the parties | **violates** `ListsFindOther` |

**Bounds.** `W`, the bits of a block, is 2 instead of 128: base OTs then have
2 or 4 instances, all 4 blocks can be choices, and a call of 4 transfers has
two columns, so that transposition and the tweaks of a second column occur.
`StreamLen` bounds what a generator is asked for, hence the calls: with 4, two
calls of two columns or four of one, and the receiver may make all of them
before the sender's first. `MaxBaseOts` is 1 where the promises to the callers are
checked and 2 where renewal is the question: with 2 either side can be given a base OT
before, between and after calls while the other is still at its first. The generator is a table without repeated rows
and the hash a permutation that is no translation, so that blocks do not agree
by accident. In KKRT the sizes 1, 2, 3 give a padded call, an exact one, and one
of two columns that is padded, so `q_mat` grows and shrinks. For Naor-Pinkas
order 5 is the smallest with two pairs of inverse points; with it the
draw that makes both keys equal happens. The loops of
`matrix_transpose` move by 16 rows and 8 columns whatever the size, so multiples
of 16 have every case that multiples of 128 have. In a session blocks
and points are single bytes and `ExtOts` is 4, so an IKNP matrix has 4 bytes and a
KKRT matrix 16. `Capacity` is 7: the first fits into the connection, also
behind the rest of another message, and the second never does, so a receiver that runs
ahead and one that has to wait both occur. Two calls are the fewest with a
next call to take bytes from, and two examples the fewest that follow one
another; one exception can strike at any place of either party. The theorems
below have no such bounds.

Deadlock is not checked: programs end, and a party waits for good after the
other threw.

**Fairness.** `FairSpec` has weak fairness of each party's steps (and of running
the base OT). It says that a process that can go on does: the loops of
`bench/verse_bench.cpp` call `send` or `receive` again and again, and `recv_data`
returns when the bytes are there. Nothing is assumed of the speed of one party
against the other. For the extension it is used with parameters that both
support or both refuse. In a session only `SendData`, `RecvData` and `RunLocal`
are fair: `send_data` and `recv_data` return when they can. Users need not select
anything and a connection need not be made; `BothFinish` starts when it is.

### Where sessions are not safe

`MessagesWhole` and `LogsAgree` ask for equal cases and equal numbers of calls, and in
every case, `all` included, they speak of the places up to the first transfer that an
exception leaves out (`WholeUntil`). What the protocols before it have exchanged stays
whole, also where the other party has still to read it after the exception. Behind that
place nothing is promised in the case `all`: bytes of a later protocol are taken
for the rest of the one that was left. `OneCaseContained` shows that a case of one protocol
keeps to whole messages even then, and with different numbers of calls; one party may wait
for good. The code says nothing about exceptions in the case `all`, so this is a
limit of the promise and not a finding.

### What the violations show

* **`set_base_ots` twice** (`iknp_ot_ext.cpp:32`, `kkrt_nco_ot_ext.cpp:31`).
  Generators are appended to `prng_`, and `send` uses the first ones; choices
  are inserted at the front of `base_choices_`, and `send` uses the first ones.
  After a second base OT, old generators are corrected with new choices and the
  parties disagree, even if both installed both base OTs before the first call.
  `SeedsMatch` (which holds) shows that the generators themselves stay with the
  first base OT, so the choices are what goes wrong; `ChosenUntilRenewed` (which
  holds too) that only the sender's second `set_base_ots` does it, and a receiver may
  be given as many as one likes.
* **Base OTs of more than 128 instances** (`iknp_ot_ext.cpp:37` and `:101`).
  The sender throws, the receiver has no such check, sends its matrix and
  leaves the buffers of `matrix_transpose`.
* **The log of the IKNP bench** (`verse_bench.cpp:119`). It begins as `iknp_ot` and ends
  as `np_ot`, so whoever pairs the lines `begin` and `end` of a case, as
  `bench/README.md` describes them, finds an end of a case that did not begin.
* **Lists of hosts** (`bench.cpp:103`). Party `p` connects to `host[p]` at the
  other's port and listens at `port[p]`. With two machines the host lists have to be
  in the opposite order of the port lists; the documented command uses one machine,
  where it cannot be seen.

## The proofs

TLAPS checks the theorems for every block size, set of parameters, generator
and hash, number of calls and interleaving.

**IKNP (`IknpOtExtProofs`).** `ChosenMessages` is not inductive: it says nothing
about matrices that are still on the stream. `IInv` (in `IknpOtExtInv`) adds
what ties a call together: `received[k].from` fixes every block of call `k`.
`BaseOtInstalled` says that the first `Rows` generators, which calls use, have the seeds
of the first base OT, as `set_base_ots` appends behind them; `Positions` that the
sender's generators stand at `From(Len(sent) + 1)`, where the receiver's stood for the
call at the head of the stream; `Contents` that the stream holds the matrices of the
last calls, in order, and that messages are hashes of the first pads. All of this is
about generators, and holds however often either side calls `set_base_ots`,
before, between and after calls. What ends with the sender's second base OT is what
depends on `base_choices`, so the promise is part of `IInv` as `ChosenUntilRenewed`. The
central lemma is that the sender's corrected rows are, with the choices of the first
base OT, the receiver's first pads, XORed with the sender's choices where the
receiver's choice bit is 1. Proved without any premise on the number of base OTs:
`Invariance`, `TypeCorrectness`, `ChosenUntilRenewedHolds`, `SeedsMatchHolds`,
`StreamsStayInStep`, `PadsStayFresh`; and `RefinementUntilRenewed`: as long as
`sInstalled <= 1`, the behaviour is one of `RandomOt`. `iknp_second_base_ot` shows
that this condition is needed. The programs of the repository run one base OT for a pair of
objects (`MaxBaseOts = 1`), for which `ChosenMessagesHold` and `Refinement` follow.
`RejectedAlikeHolds` is proved from `RefusedInv` for all parameters whose base OTs are not of
several whole blocks; these are the ones of `iknp_double_base`.

**KKRT (`KkrtOtExtProofs`).** `IInv` (in `KkrtOtExtInv`) has the parts of IKNP's.
Here `received[k].from` and the number of choices of call `k` fix its pads, so
`Positions` moves by the padded columns of each call, and `Contents` also says that
`q_mat` is what the last answered call leaves there, rows of padding included. A `send`
may ask for another number of transfers than the call has, as long as it pads to the
same rows; `SenderRows` shows that this changes nothing. The central lemma,
`MaskedRow`, is that the corrected rows are the receiver's pads XORed with the
code word where the bits of `base_choices_` are 1, which `encode` takes off again
for the choice of that transfer. That the chained hash of a row is a block is
`ChainType`, by the least block at which it would not be. As in IKNP, only what
depends on the sender's choices, here also the contents of `q_mat`, is stated under
`sInstalled <= 1`. Proved for any number of base OTs: `Invariance`, `TypeCorrectness`,
`StreamsStayInStep`, `PadsStayFresh`, `NeverStuckHolds` (from `RefusedInv` besides);
until the sender is given a second one: `EncodesUntilRenewedHolds`,
`RefinementUntilRenewed`, where `kkrt_second_base_ot` shows that the condition is needed;
and with `MaxBaseOts = 1`: `EncodesChosenHolds`, `Refinement`.

**Naor-Pinkas (`NaorPinkasProofs`).** The invariant adds what is in flight: the
keys on the way to the receiver are those `pending` holds the secrets of, and an
answer on the way to the sender is the offer that fits the receiver's recorded
messages. Proved from it: `Invariance`, `TypeCorrectness`, `ChosenMessagesHold`
(the laws of the group), `MessagesDifferHold` (the encoding), `OneInFlightHolds`,
`Refinement`.

**Transposition (`MatrixTransposeProofs`).** For every pair of sizes and every unit that
is a multiple of 16, hence also for 128. `Loaded` says where in the register the bits
of the current block stand that are not stored yet; nothing is said of the bits that
shifts carry across bytes, since none of them reaches the mask within 8 shifts. `Written`
says that the places written are those of the blocks that are done and of the last
columns of the current one, each with its transposed bit. Proved: `Invariance`,
`TypeCorrectness`, `ReturnsTransposedHolds`.

**Factory (`VerseFactoryProofs`).** The invariant says which schemes a unit has
registered so far, and that under the library's interfaces and schemes there is
only the library's creator: whoever registers anything else has run the six
registrars before, and `insert` keeps what is there. Proved: `Invariance`,
`TypeCorrectness`, `BuildsLibraryHolds`.

**Sessions (`VerseSessionProofs`, `VerseSessionPaths`).** The safety properties of a
session, for every size, capacity and number of calls, from three invariants.

`Twin` does not count bytes message by message but compares the two parties.
`Alike` says that the two scripts mirror each other, up to the end of the shorter one
when the numbers of calls differ: at every place one sends what the other
receives, or neither transfers anything. It holds of all scripts that `Connect` installs for
one and the same case (`BenchMainAlike`, `ExampleAlike`), from `Paired`, the same for equal
numbers (`PairedCalls`, `PairedConcat`, `BenchMainPaired`), and from
`BodyPrefix`: fewer calls do the first operations of more calls. `InStep` relates the
counters to the places. An exception takes a party to a place it did not run to, so the
invariant names for each party the place `ran[p]` until which it did run its
script (`Left`). Until there `reached` grows by an operation's bytes at every place
(`Stepwise`); the present counters are those of that place and the part that is
done (`Counted`); where both have been, what one had sent is what the other had
received (`Crossed`); and the party that is ahead has received nothing since
(`Ahead`), as it would need bytes of an operation the other has not come to. In
a script of one protocol (`OneJob`) an exception leads to the end, so `ran` stays
and nothing else changes (`ThrowInStep`); in the case `all` it leads to another protocol,
which is why `Twin` is stated for one case, or for no exception and equal numbers.
Proved: `TypeCorrectness`, `TwinHolds`, and from it
`OneCaseContainedHolds` and `NeverStuckHolds`. The last is
deadlock freedom: of two parties at the same place one finds bytes or room, and
one that is behind finds all that the other has sent for its place.

`Paths` is for every case and every exception, and says less: of each party, that its
counters have grown at every place by the bytes of the operation there or not at
all (`Walked`), and of two that run the same case, that their scripts mirror each other
(`Fitted`). An exception keeps it, as nothing moves at the places it leads past. The rest
follows in each state. Up to a place until which nothing was left out both have run
every operation (`NotLeftOut`), so by the least place at which they would not, what one had
sent is what the other had received (`CrossedUntil`); and a message that was received has
been sent to its end (`SentBefore`), as without it fewer bytes were sent than received.
Proved: `PathsHold`, and from it `MessagesWholeHolds` and `LogsAgreeHolds`.

`Equipped` is about one party. `Orderly` says of its script that within a run of
places of one job the offers come before `set_base_ots`, this before every matrix, and
a received matrix before `encode`, and that only the first operation of a job makes new
objects; it is proved of each program and of protocols one after another
(`BenchMainOrderly`, `ExampleOrderly`). `HeldOf` says that each of these calls has left
its size in `held`. An exception does not disturb it, as it leads to the first
operation of another job (`AfterJobPlace`), before which nothing of that job has run.
Proved: `EquippedHolds`, and from it `DutiesMetHolds`.

**Assumptions.** They are named in the modules that declare the constants: sizes
are positive; base OTs give seeds as the base OT promises; the curve is a
commutative group on whose points multiplication distributes; a compressed
point and its inverse differ in the first byte and agree on the rest; the hash
has no collisions on the bytes it is applied to (used only for
`MessagesDiffer`). One event of probability 2^-256 is left out, by a condition
in `ReceiverReceive`: the receiver drawing the sender's secret.

**Only model-checked.** Liveness (`AllCallsReturn`, `BothFinish`), which is beyond the
prover, as is `ENABLED`: `NeverStuckHolds` is the safety part of `BothFinish`, stated with the
guards of the steps (`CanStep`), and that of `AllCallsReturn` is `NeverStuckHolds` for KKRT,
`RejectedAlikeHolds` for IKNP, whose sender has no other reason not to take a matrix, and
`OneInFlightHolds` for the base OT. TLC checks `ImplementsRandomOt` and `ImplementsRandomNcoOt`
with one base OT only; that they hold until the sender is given a second one is proved. Every invariant that a passing run checks has its theorem.

## Not modelled

* Secrecy: no property speaks about what a party learns.
* PETAce-Network and PETAce-Solo, beyond what the code here relies on: an ordered
  and reliable stream, generators determined by their seed, a hash that is a
  function, a group. A connection that breaks in the middle of a transfer is
  not modelled, and neither are two processes that are given the same party.
* The values of a whole session: `VerseSession` follows bytes and sizes, and the
  extensions take as given the result of a base OT that `NaorPinkasOt` is proved to
  deliver (both speak of it as `RandomOt` does).
* What happens after a caller breaks a duty that the code does not check
  (`base_ot_sizes` 0, too few choices, calls before `set_base_ots`, `encode`
  outside of the last call) is undefined. `DutiesMet` shows that the programs
  here never do: most of it compares the sizes that they give, which are constants of the
  scripts; what depends on the behaviour is what the objects hold when a call is made.
* Parties that disagree on the parameters of a protocol object or, in KKRT, on the
  padded size of a call. `IknpOtExt` counts whole matrices and `KkrtOtExt` presumes
  equal padded sizes; that the two sides of the programs here compute equal sizes is a part of
  `VerseSession`, where each computes its own bytes (`MessagesWhole`, `NeverStuck`, `BothFinish`).
* Build files, tests, benchmark timing, the wording of the output.

## Plan

1. `Blocks`, `RandomOt`, `IknpOtExt` with its invariant and proofs; `NaorPinkasOt`
   with its proofs (done).
2. `KkrtOtExt` with `RandomNcoOt`, `MatrixTranspose` (modelled and checked);
   `VerseFactory` with its proofs (done).
3. `VerseSession`: the programs over one byte stream, base OT and extensions
   composed, with its proofs (done).
4. `KkrtOtExtInv` and `KkrtOtExtProofs`: an inductive invariant with padded sizes, the
   safety properties of KKRT and its refinement (done).
5. Theorems of both extensions for any number of base OTs, and `MatrixTransposeProofs`
   for every size (done).
6. Proofs of `OneCaseContained`, `NeverStuck` and `DutiesMet` of sessions (done); of
   `MessagesWhole` and `LogsAgree` with exceptions (`VerseSessionPaths`, done).
7. The safety part of `AllCallsReturn` for KKRT, as `NeverStuck` is that of
   `BothFinish` (done).
