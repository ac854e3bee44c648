-------------------------- MODULE VerseSessionProofs --------------------------
(***************************************************************************)
(* Theorems about VerseSession, for every size of blocks, points and       *)
(* extensions, every capacity of the connection and number of iterations.  *)
(* The scripts of two parties that run the same case mirror each other     *)
(* operation by operation, and those of one protocol do up to the end of   *)
(* the shorter one when the numbers of calls differ.  The first inductive  *)
(* invariant, Twin, says that where both parties have been, what one had   *)
(* sent is what the other had received, and that the party ahead has only  *)
(* sent since; a party that an exception took to the end has stopped at an *)
(* earlier place.  The second one, Equipped, says what the calls of the    *)
(* present job have left in a party's objects.                             *)
(***************************************************************************)
EXTENDS VerseSession, SequenceTheorems, WellFoundedInduction, TLAPS

-----------------------------------------------------------------------------
(* Scripts that mirror each other.                                         *)

\* Operations of jobs J: a transfer moves something.
Ops(J) == [do : Do, what : What, bytes : Nat, job : J, call : Nat]

Transfer == {"send", "recv"}

\* Two operations that fit: a transfer and its other end, or no transfers.
Mirrors(a, b) ==
    IF a.do \in Transfer
    THEN /\ a.bytes > 0
         /\ b.do \in Transfer /\ b.do # a.do
         /\ a = [b EXCEPT !.do = a.do] /\ b = [a EXCEPT !.do = b.do]
    ELSE b.do \notin Transfer

Paired(J, s, t) ==
    /\ s \in Seq(Ops(J)) /\ t \in Seq(Ops(J))
    /\ Len(s) = Len(t)
    /\ \A k \in 1 .. Len(s) : Mirrors(s[k], t[k])

LEMMA PairedConverse ==
    ASSUME NEW J, NEW s, NEW t, Paired(J, s, t)
    PROVE  Paired(J, t, s)
<1>1. ASSUME NEW k \in 1 .. Len(t) PROVE Mirrors(t[k], s[k])
  <2>1. s[k] \in Ops(J) /\ t[k] \in Ops(J) /\ Mirrors(s[k], t[k])
    BY DEF Paired
  <2>2. s[k].do \in Transfer => t[k].bytes = s[k].bytes
    BY <2>1 DEF Mirrors, Ops
  <2> QED  BY <2>1, <2>2 DEF Mirrors, Ops
<1> QED  BY <1>1 DEF Paired

LEMMA PairedConcat ==
    ASSUME NEW J, NEW s, NEW t, NEW u, NEW v, Paired(J, s, t), Paired(J, u, v)
    PROVE  Paired(J, s \o u, t \o v)
<1> USE DEF Paired
<1>1. /\ s \o u \in Seq(Ops(J)) /\ t \o v \in Seq(Ops(J))
      /\ Len(s \o u) = Len(s) + Len(u) /\ Len(t \o v) = Len(s) + Len(u)
  <2>1. s \in Seq(Ops(J)) /\ t \in Seq(Ops(J)) /\ u \in Seq(Ops(J)) /\ v \in Seq(Ops(J))
    OBVIOUS
  <2>2. s \o u \in Seq(Ops(J)) /\ Len(s \o u) = Len(s) + Len(u)
    BY <2>1, ConcatProperties
  <2>3. t \o v \in Seq(Ops(J)) /\ Len(t \o v) = Len(t) + Len(v)
    BY <2>1, ConcatProperties
  <2> QED  BY <2>2, <2>3
<1>2. ASSUME NEW k \in 1 .. Len(s \o u) PROVE Mirrors((s \o u)[k], (t \o v)[k])
  <2>1. CASE k <= Len(s)
    <3>1. (s \o u)[k] = s[k] /\ (t \o v)[k] = t[k]
      BY <1>1, <2>1, ConcatProperties
    <3> QED  BY <3>1, <2>1
  <2>2. CASE k > Len(s)
    <3>1. (s \o u)[k] = u[k - Len(s)] /\ (t \o v)[k] = v[k - Len(s)]
      BY <1>1, <2>2, ConcatProperties
    <3>2. k - Len(s) \in 1 .. Len(u)
      BY <1>1, <2>2
    <3> QED  BY <3>1, <3>2
  <2> QED  BY <1>1, <2>1, <2>2
<1> QED  BY <1>1, <1>2

\* Operations that fit still do when they are numbered alike.
LEMMA MirrorsCalled ==
    ASSUME NEW J, NEW a \in Ops(J), NEW b \in Ops(J), NEW c \in Nat, Mirrors(a, b)
    PROVE  Mirrors([a EXCEPT !.call = c], [b EXCEPT !.call = c])
<1>1. PICK x, y : x = [a EXCEPT !.call = c] /\ y = [b EXCEPT !.call = c]
  OBVIOUS
<1>2. /\ x = [do |-> a.do, what |-> a.what, bytes |-> a.bytes, job |-> a.job, call |-> c]
      /\ y = [do |-> b.do, what |-> b.what, bytes |-> b.bytes, job |-> b.job, call |-> c]
  BY <1>1 DEF Ops
<1>3. CASE a.do \in Transfer
  <2>1. /\ a.bytes > 0 /\ b.do \in Transfer /\ b.do # a.do
        /\ a.what = b.what /\ a.bytes = b.bytes /\ a.job = b.job
    BY <1>3 DEF Mirrors, Ops
  <2>2. /\ x.do = a.do /\ y.do = b.do /\ x.bytes > 0
        /\ x = [y EXCEPT !.do = x.do] /\ y = [x EXCEPT !.do = y.do]
    BY <1>2, <2>1
  <2> QED  BY <1>1, <1>3, <2>1, <2>2 DEF Mirrors
<1>4. CASE a.do \notin Transfer
  <2>1. x.do = a.do /\ y.do = b.do /\ b.do \notin Transfer
    BY <1>2, <1>4 DEF Mirrors
  <2> QED  BY <1>1, <1>4, <2>1 DEF Mirrors
<1> QED  BY <1>3, <1>4

\* A loop body of one or two operations.
LEMMA PairedCalls ==
    ASSUME NEW J, NEW s, NEW t, Paired(J, s, t), NEW n \in Nat, Len(s) \in {1, 2}
    PROVE  Paired(J, Calls(n, s), Calls(n, t))
<1> DEFINE L == Len(s)
<1>1. n * L \in Nat /\ Len(t) = L
  BY DEF Paired
<1>2. ASSUME NEW k \in 1 .. n * L
      PROVE  ((k - 1) % L) + 1 \in 1 .. L /\ ((k - 1) \div L) + 1 \in Nat
  BY <1>1
<1>3. ASSUME NEW k \in 1 .. n * L
      PROVE  /\ Calls(n, s)[k] \in Ops(J) /\ Calls(n, t)[k] \in Ops(J)
             /\ Mirrors(Calls(n, s)[k], Calls(n, t)[k])
  <2> DEFINE i == ((k - 1) % L) + 1
             c == ((k - 1) \div L) + 1
  <2>1. Calls(n, s)[k] = [s[i] EXCEPT !.call = c] /\ Calls(n, t)[k] = [t[i] EXCEPT !.call = c]
    BY <1>1 DEF Calls
  <2>2. i \in 1 .. L /\ c \in Nat
    BY <1>2
  <2> HIDE DEF i, c
  <2>3. s[i] \in Ops(J) /\ t[i] \in Ops(J) /\ Mirrors(s[i], t[i])
    BY <2>2 DEF Paired
  <2>4. [s[i] EXCEPT !.call = c] \in Ops(J) /\ [t[i] EXCEPT !.call = c] \in Ops(J)
    BY <2>2, <2>3 DEF Ops
  <2>5. Mirrors([s[i] EXCEPT !.call = c], [t[i] EXCEPT !.call = c])
    BY <2>2, <2>3, MirrorsCalled
  <2> QED  BY <2>1, <2>4, <2>5
<1>4. /\ Calls(n, s) \in Seq(Ops(J)) /\ Len(Calls(n, s)) = n * L
      /\ Calls(n, t) \in Seq(Ops(J)) /\ Len(Calls(n, t)) = n * L
  <2>1. Calls(n, s) \in [1 .. n * L -> Ops(J)] /\ Calls(n, t) \in [1 .. n * L -> Ops(J)]
    BY <1>1, <1>3 DEF Calls
  <2> QED  BY <1>1, <2>1, SMTT(30)
<1> QED  BY <1>3, <1>4 DEF Paired

LEMMA PairedInJob ==
    ASSUME NEW J, NEW s, NEW t, Paired(J, s, t), NEW job \in Jobs
    PROVE  Paired(Jobs, InJob(job, s), InJob(job, t))
<1>1. Len(s) \in Nat /\ DOMAIN s = 1 .. Len(s) /\ DOMAIN t = 1 .. Len(s)
  BY DEF Paired
<1>2. ASSUME NEW k \in 1 .. Len(s)
      PROVE  /\ InJob(job, s)[k] \in Ops(Jobs) /\ InJob(job, t)[k] \in Ops(Jobs)
             /\ Mirrors(InJob(job, s)[k], InJob(job, t)[k])
  <2>1. /\ InJob(job, s)[k] = [s[k] EXCEPT !.job = job]
        /\ InJob(job, t)[k] = [t[k] EXCEPT !.job = job]
    BY <1>1 DEF InJob
  <2>2. s[k] \in Ops(J) /\ t[k] \in Ops(J) /\ Mirrors(s[k], t[k])
    BY DEF Paired
  <2>3. [s[k] EXCEPT !.job = job] \in Ops(Jobs) /\ [t[k] EXCEPT !.job = job] \in Ops(Jobs)
    BY <2>2 DEF Ops
  <2>4. Mirrors([s[k] EXCEPT !.job = job], [t[k] EXCEPT !.job = job])
    BY <2>2 DEF Mirrors, Ops
  <2> QED  BY <2>1, <2>3, <2>4
<1>3. /\ InJob(job, s) \in [1 .. Len(s) -> Ops(Jobs)]
      /\ InJob(job, t) \in [1 .. Len(s) -> Ops(Jobs)]
  BY <1>1, <1>2 DEF InJob
<1>4. /\ InJob(job, s) \in Seq(Ops(Jobs)) /\ Len(InJob(job, s)) = Len(s)
      /\ InJob(job, t) \in Seq(Ops(Jobs)) /\ Len(InJob(job, t)) = Len(s)
  BY <1>1, <1>3
<1> QED  BY <1>2, <1>4 DEF Paired

-----------------------------------------------------------------------------
(* The scripts of the programs.                                            *)

None == {"none"}

LEMMA LocalOps ==
    ASSUME NEW a \in What, NEW b \in What, NEW do \in Do \ Transfer
    PROVE  Paired(None, <<Op(do, a, 0)>>, <<Op(do, b, 0)>>)
BY DEF Paired, Mirrors, Ops, Op, Transfer, Do, None

LEMMA NpCalls ==
    ASSUME NEW b \in Nat \ {0}
    PROVE  /\ Paired(None, NpSend(b), NpReceive(b)) /\ Len(NpSend(b)) = 2
           /\ Paired(None, NpReceive(b), NpSend(b)) /\ Len(NpReceive(b)) = 2
<1> DEFINE m == 2 * b * PointLen
           l == b * PointLen
<1>1. m \in Nat \ {0} /\ l \in Nat \ {0}
  BY SizesAssumption
<1>2. /\ NpSend(b) = <<Op("send", "keys", m), Op("recv", "offers", l)>>
      /\ NpReceive(b) = <<Op("recv", "keys", m), Op("send", "offers", l)>>
  BY DEF NpSend, NpReceive
<1> HIDE DEF m, l
<1>3. /\ \A d \in Transfer, w \in What, n \in {m, l} : Op(d, w, n) \in Ops(None)
      /\ \A w \in What, n \in {m, l} : Mirrors(Op("send", w, n), Op("recv", w, n))
      /\ \A w \in What, n \in {m, l} : Mirrors(Op("recv", w, n), Op("send", w, n))
  BY <1>1 DEF Op, Ops, Mirrors, Transfer, Do, None
<1>4. "keys" \in What /\ "offers" \in What /\ "send" \in Transfer /\ "recv" \in Transfer
  BY DEF What, Transfer
<1>5. Paired(None, NpSend(b), NpReceive(b)) /\ Len(NpSend(b)) = 2
  BY <1>2, <1>3, <1>4 DEF Paired
<1> QED  BY <1>5, PairedConverse DEF Paired

LEMMA MatrixCalls ==
    ASSUME NEW m \in Nat \ {0}
    PROVE  Paired(None, <<Op("recv", "matrix", m)>>, <<Op("send", "matrix", m)>>)
BY DEF Paired, Mirrors, Ops, Op, Transfer, Do, What, None

\* Whole blocks of transfers are as many.
LEMMA PadWhole ==
    ASSUME NEW n \in Nat, n % W = 0
    PROVE  Pad(n) = n
BY DEF Pad

\* The two parties' formulas for the size of a matrix agree.
LEMMA Matrices ==
    /\ \E m \in Nat \ {0} : /\ IknpSend(W, ExtOts) = <<Op("recv", "matrix", m)>>
                            /\ IknpReceive(W, ExtOts) = <<Op("send", "matrix", m)>>
    /\ \E m \in Nat \ {0} : /\ KkrtSend(4 * W, ExtOts) = <<Op("recv", "matrix", m)>>
                            /\ KkrtReceive(4 * W, ExtOts) = <<Op("send", "matrix", m)>>
<1> USE SizesAssumption
<1> DEFINE c == ExtOts \div W
<1>1. c \in Nat \ {0} /\ ExtOts = W * c
  OBVIOUS
<1>2. (4 * W) \div W = 4
  OBVIOUS
<1>3. Pad(ExtOts) = ExtOts
  BY PadWhole
<1> HIDE DEF c
<1>4. \A a, b \in Nat \ {0} : a * b \in Nat \ {0}
  OBVIOUS
<1>5. (W * c) * BlockLen \in Nat \ {0} /\ ((4 * W) * c) * BlockLen \in Nat \ {0}
  BY <1>1, <1>4
<1>6. (ExtOts * 4) * BlockLen = ((4 * W) * c) * BlockLen
  BY <1>1
<1>7. /\ IknpSend(W, ExtOts) = <<Op("recv", "matrix", (W * c) * BlockLen)>>
      /\ IknpReceive(W, ExtOts) = <<Op("send", "matrix", (W * c) * BlockLen)>>
  BY DEF IknpSend, IknpReceive, c
<1>8. /\ KkrtSend(4 * W, ExtOts) = <<Op("recv", "matrix", ((4 * W) * c) * BlockLen)>>
      /\ KkrtReceive(4 * W, ExtOts) = <<Op("send", "matrix", ((4 * W) * c) * BlockLen)>>
  BY <1>2, <1>3, <1>6 DEF KkrtSend, KkrtReceive, c
<1> QED  BY <1>5, <1>7, <1>8

LEMMA ExtendedPaired ==
    ASSUME NEW b \in Nat \ {0}, NEW n \in Nat, NEW m \in Nat \ {0},
           NEW sending, sending = <<Op("recv", "matrix", m)>>,
           NEW receiving, receiving = <<Op("send", "matrix", m)>>
    PROVE  Paired(None, Extended(0, b, n, sending, receiving),
                        Extended(1, b, n, sending, receiving))
<1> DEFINE install == <<Op("local", "set_base_ots", 0)>>
<1>1. Paired(None, NpReceive(b), NpSend(b))
  BY NpCalls
<1>2. Paired(None, install, install)
  BY LocalOps DEF Do, Transfer, What
<1>3. Paired(None, sending, receiving) /\ Len(sending) = 1
  BY MatrixCalls
<1>4. Paired(None, Calls(n, sending), Calls(n, receiving))
  BY <1>3, PairedCalls
<1> HIDE DEF install
<1>5. Paired(None, NpReceive(b) \o install, NpSend(b) \o install)
  BY <1>1, <1>2, PairedConcat
<1>6. Paired(None, (NpReceive(b) \o install) \o Calls(n, sending),
                   (NpSend(b) \o install) \o Calls(n, receiving))
  BY <1>4, <1>5, PairedConcat
<1> QED  BY <1>6 DEF Extended, install

LEMMA BodyPaired ==
    ASSUME NEW job \in Jobs, NEW n \in Nat
    PROVE  Paired(None, Body(job, 0, n), Body(job, 1, n))
<1>1. W \in Nat \ {0} /\ 4 * W \in Nat \ {0}
  BY SizesAssumption
<1>2. CASE job = "np_ot"
  <2>1. Paired(None, Calls(n, NpSend(W)), Calls(n, NpReceive(W)))
    BY <1>1, NpCalls, PairedCalls
  <2> QED  BY <1>2, <2>1 DEF Body, NpBody
<1>3. CASE job = "iknp_ot"
  <2>1. PICK m \in Nat \ {0} : /\ IknpSend(W, ExtOts) = <<Op("recv", "matrix", m)>>
                               /\ IknpReceive(W, ExtOts) = <<Op("send", "matrix", m)>>
    BY Matrices
  <2>2. Paired(None, IknpBody(0, n), IknpBody(1, n))
    BY <1>1, <2>1, ExtendedPaired DEF IknpBody
  <2> QED  BY <1>3, <2>2 DEF Body
<1>4. CASE job = "kkrt_ot"
  <2>1. PICK m \in Nat \ {0} : /\ KkrtSend(4 * W, ExtOts) = <<Op("recv", "matrix", m)>>
                               /\ KkrtReceive(4 * W, ExtOts) = <<Op("send", "matrix", m)>>
    BY Matrices
  <2>2. Paired(None, KkrtBody(0, n), KkrtBody(1, n))
    BY <1>1, <2>1, ExtendedPaired DEF KkrtBody
  <2> QED  BY <1>4, <2>2 DEF Body
<1> QED  BY <1>2, <1>3, <1>4 DEF Jobs

LEMMA BenchPaired ==
    ASSUME NEW job \in Jobs, NEW n \in Nat
    PROVE  Paired(Jobs, Bench(job, 0, n), Bench(job, 1, n))
<1> DEFINE first == <<Op("begin", job, 0)>>
           last == <<Op("end", EndName(job), 0)>>
<1>1. Paired(None, first, first) /\ Paired(None, last, last)
  <2>1. job \in What /\ EndName(job) \in What
    BY DEF What, Jobs, EndName
  <2>2. "begin" \in Do \ Transfer /\ "end" \in Do \ Transfer
    BY DEF Do, Transfer
  <2> QED  BY <2>1, <2>2, LocalOps
<1> HIDE DEF first, last
<1>2. Paired(None, first \o Body(job, 0, n), first \o Body(job, 1, n))
  BY <1>1, BodyPaired, PairedConcat
<1>3. Paired(None, (first \o Body(job, 0, n)) \o last, (first \o Body(job, 1, n)) \o last)
  BY <1>1, <1>2, PairedConcat
<1> QED  BY <1>3, PairedInJob DEF Bench, first, last

LEMMA ExamplePaired ==
    ASSUME NEW job \in Jobs
    PROVE  Paired(Jobs, Example(job, 0), Example(job, 1))
<1> DEFINE show == <<Op("local", "show", 0)>>
           encode == <<Op("local", "encode", 0)>>
<1>1. Paired(None, show, show) /\ Paired(None, encode, show)
  <2>1. "show" \in What /\ "encode" \in What /\ "local" \in Do \ Transfer
    BY DEF What, Do, Transfer
  <2> QED  BY <2>1, LocalOps
<1> HIDE DEF show, encode
<1>2. CASE job = "np_ot"
  <2>1. Paired(None, Body(job, 0, 1) \o show, Body(job, 1, 1) \o show)
    BY <1>1, BodyPaired, PairedConcat
  <2>2. Example(job, 0) = InJob(job, Body(job, 0, 1) \o show)
        /\ Example(job, 1) = InJob(job, Body(job, 1, 1) \o show)
    BY <1>2 DEF Example, NpExample, Body, show
  <2> QED  BY <2>1, <2>2, PairedInJob
<1>3. CASE job = "iknp_ot"
  <2>1. Paired(None, Body(job, 0, 1) \o show, Body(job, 1, 1) \o show)
    BY <1>1, BodyPaired, PairedConcat
  <2>2. Example(job, 0) = InJob(job, Body(job, 0, 1) \o show)
        /\ Example(job, 1) = InJob(job, Body(job, 1, 1) \o show)
    BY <1>3 DEF Example, IknpExample, Body, show
  <2> QED  BY <2>1, <2>2, PairedInJob
<1>4. CASE job = "kkrt_ot"
  <2>1. Paired(None, Body(job, 0, 1) \o encode, Body(job, 1, 1) \o show)
    BY <1>1, BodyPaired, PairedConcat
  <2>2. Example(job, 0) = InJob(job, Body(job, 0, 1) \o encode)
        /\ Example(job, 1) = InJob(job, Body(job, 1, 1) \o show)
    BY <1>4 DEF Example, KkrtExample, Body, show, encode
  <2> QED  BY <2>1, <2>2, PairedInJob
<1> QED  BY <1>2, <1>3, <1>4 DEF Jobs

LEMMA EmptyPaired == Paired(Jobs, <<>>, <<>>)
BY DEF Paired

LEMMA BenchMainPaired ==
    ASSUME NEW case, NEW n \in Nat
    PROVE  Paired(Jobs, BenchMain(case, 0, n), BenchMain(case, 1, n))
<1>1. CASE case = "all"
  <2>1. /\ Paired(Jobs, Bench("np_ot", 0, n), Bench("np_ot", 1, n))
        /\ Paired(Jobs, Bench("iknp_ot", 0, n), Bench("iknp_ot", 1, n))
        /\ Paired(Jobs, Bench("kkrt_ot", 0, n), Bench("kkrt_ot", 1, n))
    BY BenchPaired DEF Jobs
  <2>2. Paired(Jobs, Bench("np_ot", 0, n) \o Bench("iknp_ot", 0, n),
                     Bench("np_ot", 1, n) \o Bench("iknp_ot", 1, n))
    BY <2>1, PairedConcat
  <2>3. Paired(Jobs, (Bench("np_ot", 0, n) \o Bench("iknp_ot", 0, n)) \o Bench("kkrt_ot", 0, n),
                     (Bench("np_ot", 1, n) \o Bench("iknp_ot", 1, n)) \o Bench("kkrt_ot", 1, n))
    BY <2>1, <2>2, PairedConcat
  <2> QED  BY <1>1, <2>3 DEF BenchMain
<1>2. CASE case # "all"
  BY <1>2, BenchPaired, EmptyPaired DEF BenchMain
<1> QED  BY <1>1, <1>2

-----------------------------------------------------------------------------
(* The shape of the scripts.                                               *)

\* A script that ends with an operation that is no transfer.
Closed(s) ==
    /\ s \in Seq(Ops(Jobs))
    /\ \A k \in 1 .. Len(s) : s[k].do \in Transfer => s[k].bytes > 0 /\ k < Len(s)

\* The scripts of two parties that may run a case a different number of times:
\* before the last operation of the shorter one they mirror each other.
Alike(s, t) ==
    /\ Closed(s) /\ Closed(t)
    /\ \A k \in Nat : k \in 1 .. Len(s) - 1 /\ k \in 1 .. Len(t) - 1 => Mirrors(s[k], t[k])

OneJob(s) == \A k, l \in 1 .. Len(s) : s[k].job = s[l].job

LEMMA AlikeConverse ==
    ASSUME NEW s, NEW t, Alike(s, t)
    PROVE  Alike(t, s)
<1>1. ASSUME NEW k \in Nat, k \in 1 .. Len(t) - 1, k \in 1 .. Len(s) - 1
      PROVE  Mirrors(t[k], s[k])
  <2>1. s \in Seq(Ops(Jobs)) /\ t \in Seq(Ops(Jobs)) /\ Mirrors(s[k], t[k])
    BY <1>1 DEF Alike, Closed
  <2>2. s[k] \in Ops(Jobs) /\ t[k] \in Ops(Jobs)
    BY <1>1, <2>1
  <2>3. s[k].do \in Transfer => t[k].bytes = s[k].bytes
    BY <2>1, <2>2 DEF Mirrors, Ops
  <2> QED  BY <2>1, <2>2, <2>3 DEF Mirrors, Ops
<1> QED  BY <1>1 DEF Alike

\* Scripts that mirror each other to their ends are alike.
LEMMA PairedAlike ==
    ASSUME NEW s, NEW t, Paired(Jobs, s, t), Len(s) > 0 => s[Len(s)].do \notin Transfer
    PROVE  Alike(s, t)
<1>1. /\ s \in Seq(Ops(Jobs)) /\ t \in Seq(Ops(Jobs)) /\ Len(s) \in Nat /\ Len(t) = Len(s)
      /\ \A k \in 1 .. Len(s) : Mirrors(s[k], t[k]) /\ s[k] \in Ops(Jobs) /\ t[k] \in Ops(Jobs)
  BY DEF Paired
<1>2. ASSUME NEW k \in 1 .. Len(s)
      PROVE  /\ s[k].do \in Transfer => s[k].bytes > 0 /\ t[k].bytes > 0 /\ t[k].do \in Transfer
             /\ t[k].do \in Transfer => s[k].do \in Transfer
  <2>1. Mirrors(s[k], t[k]) /\ s[k] \in Ops(Jobs) /\ t[k] \in Ops(Jobs)
    BY <1>1
  <2>2. s[k].do \in Transfer => s[k].bytes = t[k].bytes
    BY <2>1 DEF Mirrors, Ops
  <2> QED  BY <2>1, <2>2 DEF Mirrors
<1>3. ASSUME NEW k \in 1 .. Len(s), s[k].do \in Transfer \/ t[k].do \in Transfer
      PROVE  k < Len(s)
  <2>1. s[k].do \in Transfer
    BY <1>2, <1>3
  <2>2. k # Len(s)
    BY <1>1, <2>1
  <2> QED  BY <1>1, <2>2
<1> QED  BY <1>1, <1>2, <1>3 DEF Alike, Closed

\* The places of a script of three parts.
LEMMA Sandwich ==
    ASSUME NEW S, NEW a \in S, NEW body \in Seq(S), NEW z \in S,
           NEW s, s = <<a>> \o body \o <<z>>
    PROVE  /\ s \in Seq(S) /\ Len(s) = Len(body) + 2 /\ Len(body) \in Nat
           /\ s[1] = a /\ s[Len(body) + 2] = z
           /\ \A k \in 1 .. Len(body) : s[k + 1] = body[k]
<1>1. /\ <<a>> \in Seq(S) /\ Len(<<a>>) = 1 /\ <<a>>[1] = a
      /\ <<z>> \in Seq(S) /\ Len(<<z>>) = 1 /\ <<z>>[1] = z
      /\ Len(body) \in Nat
  OBVIOUS
<1> DEFINE c == <<a>> \o body
<1>2. /\ c \in Seq(S) /\ Len(c) = 1 + Len(body) /\ c[1] = a
      /\ \A k \in 1 .. Len(body) : c[k + 1] = body[k]
  <2>1. c \in Seq(S) /\ Len(c) = 1 + Len(body)
    BY <1>1, ConcatProperties
  <2>2. \A k \in 1 .. 1 + Len(body) : c[k] = IF k <= 1 THEN <<a>>[k] ELSE body[k - 1]
    BY <1>1, ConcatProperties
  <2> QED  BY <1>1, <2>1, <2>2
<1> HIDE DEF c
<1>3. s \in Seq(S) /\ Len(s) = Len(c) + 1
  BY <1>1, <1>2, ConcatProperties DEF c
<1>4. \A k \in 1 .. Len(c) + 1 : s[k] = IF k <= Len(c) THEN c[k] ELSE <<z>>[k - Len(c)]
  BY <1>1, <1>2, ConcatProperties DEF c
<1> QED  BY <1>1, <1>2, <1>3, <1>4

LEMMA Appended ==
    ASSUME NEW S, NEW body \in Seq(S), NEW z \in S, NEW s, s = body \o <<z>>
    PROVE  /\ s \in Seq(S) /\ Len(s) = Len(body) + 1 /\ Len(body) \in Nat
           /\ s[Len(body) + 1] = z
           /\ \A k \in 1 .. Len(body) : s[k] = body[k]
<1>1. <<z>> \in Seq(S) /\ Len(<<z>>) = 1 /\ <<z>>[1] = z /\ Len(body) \in Nat
  OBVIOUS
<1>2. s \in Seq(S) /\ Len(s) = Len(body) + 1
  BY <1>1, ConcatProperties
<1>3. \A k \in 1 .. Len(body) + 1 : s[k] = IF k <= Len(body) THEN body[k] ELSE <<z>>[k - Len(body)]
  BY <1>1, ConcatProperties
<1> QED  BY <1>1, <1>2, <1>3

\* A loop of n iterations begins a longer one.
LEMMA CallsPlaces ==
    ASSUME NEW n \in Nat, NEW ops \in Seq(Ops(None)), Len(ops) \in {1, 2}
    PROVE  /\ Calls(n, ops) \in Seq(Ops(None)) /\ Len(Calls(n, ops)) = n * Len(ops)
           /\ \A k \in 1 .. n * Len(ops) :
                 /\ Calls(n, ops)[k] = [ops[((k - 1) % Len(ops)) + 1] EXCEPT
                                            !.call = ((k - 1) \div Len(ops)) + 1]
                 /\ ((k - 1) % Len(ops)) + 1 \in 1 .. Len(ops)
<1> DEFINE L == Len(ops)
<1>1. n * L \in Nat
  OBVIOUS
<1>2. ASSUME NEW k \in 1 .. n * L
      PROVE  ((k - 1) % L) + 1 \in 1 .. L /\ ((k - 1) \div L) + 1 \in Nat
  BY <1>1
<1>3. ASSUME NEW k \in 1 .. n * L
      PROVE  [ops[((k - 1) % L) + 1] EXCEPT !.call = ((k - 1) \div L) + 1] \in Ops(None)
  <2>1. ops[((k - 1) % L) + 1] \in Ops(None) /\ ((k - 1) \div L) + 1 \in Nat
    BY <1>2
  <2> QED  BY <2>1 DEF Ops
<1>4. Calls(n, ops) \in [1 .. n * L -> Ops(None)]
  BY <1>3 DEF Calls
<1>5. Calls(n, ops) \in Seq(Ops(None)) /\ Len(Calls(n, ops)) = n * L
  BY <1>1, <1>4
<1> QED  BY <1>2, <1>5 DEF Calls

\* A body: the base OT of an extension and its installation, then the calls.
Lead(p, b) ==
    (IF p = 0 THEN NpReceive(b) ELSE NpSend(b)) \o <<Op("local", "set_base_ots", 0)>>

First(job, p) == IF job = "np_ot" THEN <<>> ELSE Lead(p, BaseOtSizes(job))

Loop(job, p) ==
    CASE job = "np_ot" -> IF p = 0 THEN NpSend(W) ELSE NpReceive(W)
      [] job = "iknp_ot" -> IF p = 0 THEN IknpSend(W, ExtOts) ELSE IknpReceive(W, ExtOts)
      [] job = "kkrt_ot" -> IF p = 0 THEN KkrtSend(4 * W, ExtOts) ELSE KkrtReceive(4 * W, ExtOts)

LEMMA LeadPlaces ==
    ASSUME NEW p \in Party, NEW b \in Nat \ {0}
    PROVE  /\ Lead(p, b) \in Seq(Ops(None)) /\ Len(Lead(p, b)) = 3
           /\ Lead(p, b)[1].what = "keys" /\ Lead(p, b)[2].what = "offers"
           /\ Lead(p, b)[3].what = "set_base_ots"
           /\ \A k \in 1 .. 3 : Lead(p, b)[k].do \in Transfer \cup {"local"}
<1> DEFINE np == IF p = 0 THEN NpReceive(b) ELSE NpSend(b)
           install == Op("local", "set_base_ots", 0)
<1>1. np \in Seq(Ops(None)) /\ Len(np) = 2
  BY NpCalls DEF Paired
<1>2. np[1].what = "keys" /\ np[2].what = "offers" /\ np[1].do \in Transfer /\ np[2].do \in Transfer
  BY DEF NpReceive, NpSend, Op, Transfer
<1>3. install \in Ops(None) /\ install.what = "set_base_ots" /\ install.do = "local"
  BY DEF Op, Ops, None, Do, What
<1>4. Lead(p, b) = np \o <<install>>
  BY DEF Lead
<1> HIDE DEF np, install
<1>5. /\ Lead(p, b) \in Seq(Ops(None)) /\ Len(Lead(p, b)) = 3
      /\ Lead(p, b)[1] = np[1] /\ Lead(p, b)[2] = np[2] /\ Lead(p, b)[3] = install
  <2>1. PICK s : s = Lead(p, b)
    OBVIOUS
  <2>2. s = np \o <<install>>
    BY <1>4, <2>1
  <2>3. /\ s \in Seq(Ops(None)) /\ Len(s) = Len(np) + 1 /\ s[Len(np) + 1] = install
        /\ \A k \in 1 .. Len(np) : s[k] = np[k]
    BY <1>1, <1>3, <2>2, Appended
  <2> QED  BY <1>1, <2>1, <2>3
<1> QED  BY <1>2, <1>3, <1>5

LEMMA BodyParts ==
    ASSUME NEW job \in Jobs, NEW p \in Party
    PROVE  /\ First(job, p) \in Seq(Ops(None))
           /\ Len(First(job, p)) = IF job = "np_ot" THEN 0 ELSE 3
           /\ Loop(job, p) \in Seq(Ops(None)) /\ Len(Loop(job, p)) \in {1, 2}
           /\ \A i \in 1 .. Len(Loop(job, p)) :
                 /\ Loop(job, p)[i].do \in Transfer
                 /\ IF job = "np_ot" THEN Loop(job, p)[i].what \in {"keys", "offers"}
                                     ELSE /\ Loop(job, p)[i].what = "matrix"
                                          /\ Loop(job, p)[i].do = IF p = 0 THEN "recv" ELSE "send"
           /\ job # "np_ot" => Len(Loop(job, p)) = 1
           /\ \A n : Body(job, p, n) = First(job, p) \o Calls(n, Loop(job, p))
<1>1. W \in Nat \ {0} /\ 4 * W \in Nat \ {0}
  BY SizesAssumption
<1>2. /\ NpReceive(W) \in Seq(Ops(None)) /\ Len(NpReceive(W)) = 2
      /\ NpSend(W) \in Seq(Ops(None)) /\ Len(NpSend(W)) = 2
  BY <1>1, NpCalls DEF Paired
<1>3. CASE job = "np_ot"
  <2>1. First(job, p) = <<>> /\ Loop(job, p) = IF p = 0 THEN NpSend(W) ELSE NpReceive(W)
    BY <1>3 DEF First, Loop
  <2>2. \A n : Body(job, p, n) = Calls(n, Loop(job, p))
    BY <1>3, <2>1 DEF Body, NpBody
  <2>3. ASSUME NEW n PROVE <<>> \o Calls(n, Loop(job, p)) = Calls(n, Loop(job, p))
    BY DEF Calls
  <2>4. \A i \in 1 .. 2 : /\ NpSend(W)[i].do \in Transfer /\ NpReceive(W)[i].do \in Transfer
                          /\ NpSend(W)[i].what \in {"keys", "offers"}
                          /\ NpReceive(W)[i].what \in {"keys", "offers"}
    BY DEF NpSend, NpReceive, Op, Transfer
  <2>5. Loop(job, p) = NpSend(W) \/ Loop(job, p) = NpReceive(W)
    BY <2>1
  <2>6. /\ Loop(job, p) \in Seq(Ops(None)) /\ Len(Loop(job, p)) = 2
        /\ \A i \in 1 .. 2 : /\ Loop(job, p)[i].do \in Transfer
                            /\ Loop(job, p)[i].what \in {"keys", "offers"}
    BY <1>2, <2>4, <2>5
  <2>7. \A n : Body(job, p, n) = First(job, p) \o Calls(n, Loop(job, p))
    BY <2>1, <2>2, <2>3
  <2>8. First(job, p) \in Seq(Ops(None)) /\ Len(First(job, p)) = 0
    BY <2>1
  <2>9. \A i \in 1 .. Len(Loop(job, p)) : /\ Loop(job, p)[i].do \in Transfer
                                          /\ Loop(job, p)[i].what \in {"keys", "offers"}
    BY <2>6
  <2> QED  BY <1>3, <2>6, <2>7, <2>8, <2>9
<1>4. ASSUME job # "np_ot" PROVE First(job, p) \in Seq(Ops(None)) /\ Len(First(job, p)) = 3
  <2>1. BaseOtSizes(job) \in Nat \ {0}
    BY <1>1 DEF BaseOtSizes
  <2> QED  BY <1>4, <2>1, LeadPlaces DEF First
<1>5. ASSUME NEW s, NEW m \in Nat \ {0}, NEW do \in Transfer, s = <<Op(do, "matrix", m)>>
      PROVE  /\ s \in Seq(Ops(None)) /\ Len(s) = 1
             /\ \A i \in 1 .. Len(s) : s[i].what = "matrix" /\ s[i].do = do /\ s[i].do \in Transfer
  <2>1. Op(do, "matrix", m) \in Ops(None) /\ Op(do, "matrix", m).what = "matrix"
        /\ Op(do, "matrix", m).do = do
    BY DEF Op, Ops, None, Do, What, Transfer
  <2> QED  BY <1>5, <2>1
<1>6. "send" \in Transfer /\ "recv" \in Transfer
  BY DEF Transfer
<1>7. CASE job = "iknp_ot"
  <2>1. PICK m \in Nat \ {0} : /\ IknpSend(W, ExtOts) = <<Op("recv", "matrix", m)>>
                               /\ IknpReceive(W, ExtOts) = <<Op("send", "matrix", m)>>
    BY Matrices
  <2>2. Loop(job, p) = <<Op(IF p = 0 THEN "recv" ELSE "send", "matrix", m)>>
    BY <1>7, <2>1 DEF Loop
  <2>3. \A n : Body(job, p, n) = First(job, p) \o Calls(n, Loop(job, p))
    BY <1>7 DEF Body, IknpBody, Extended, First, Lead, Loop, BaseOtSizes
  <2> QED  BY <1>4, <1>5, <1>6, <1>7, <2>2, <2>3
<1>8. CASE job = "kkrt_ot"
  <2>1. PICK m \in Nat \ {0} : /\ KkrtSend(4 * W, ExtOts) = <<Op("recv", "matrix", m)>>
                               /\ KkrtReceive(4 * W, ExtOts) = <<Op("send", "matrix", m)>>
    BY Matrices
  <2>2. Loop(job, p) = <<Op(IF p = 0 THEN "recv" ELSE "send", "matrix", m)>>
    BY <1>8, <2>1 DEF Loop
  <2>3. \A n : Body(job, p, n) = First(job, p) \o Calls(n, Loop(job, p))
    BY <1>8 DEF Body, KkrtBody, Extended, First, Lead, Loop, BaseOtSizes
  <2> QED  BY <1>4, <1>5, <1>6, <1>8, <2>2, <2>3
<1> QED  BY <1>3, <1>7, <1>8 DEF Jobs

\* The calls of a body begin those of a longer one.
LEMMA BodyPrefix ==
    ASSUME NEW job \in Jobs, NEW p \in Party, NEW m \in Nat, NEW n \in Nat, m <= n
    PROVE  /\ Body(job, p, m) \in Seq(Ops(None)) /\ Body(job, p, n) \in Seq(Ops(None))
           /\ Len(Body(job, p, m)) <= Len(Body(job, p, n))
           /\ \A k \in 1 .. Len(Body(job, p, m)) : Body(job, p, m)[k] = Body(job, p, n)[k]
<1> DEFINE first == First(job, p)
           loop == Loop(job, p)
           f == Len(first)
           l == Len(loop)
<1>1. /\ first \in Seq(Ops(None)) /\ f \in Nat /\ loop \in Seq(Ops(None)) /\ l \in {1, 2}
      /\ \A i : Body(job, p, i) = first \o Calls(i, loop)
  BY BodyParts
<1> HIDE DEF first, loop
<1>2. ASSUME NEW i \in Nat
      PROVE  /\ Calls(i, loop) \in Seq(Ops(None)) /\ Len(Calls(i, loop)) = i * l
             /\ \A k \in 1 .. i * l : Calls(i, loop)[k] = [loop[((k - 1) % l) + 1] EXCEPT
                                                             !.call = ((k - 1) \div l) + 1]
  BY <1>1, CallsPlaces
<1>3. m * l \in Nat /\ n * l \in Nat /\ m * l <= n * l
  BY <1>1
<1>4. ASSUME NEW i \in Nat
      PROVE  /\ Body(job, p, i) \in Seq(Ops(None)) /\ Len(Body(job, p, i)) = f + Len(Calls(i, loop))
             /\ \A k \in 1 .. f + Len(Calls(i, loop)) :
                   Body(job, p, i)[k] = IF k <= f THEN first[k] ELSE Calls(i, loop)[k - f]
  <2>1. PICK c : c = Calls(i, loop)
    OBVIOUS
  <2>2. c \in Seq(Ops(None)) /\ Body(job, p, i) = first \o c
    BY <1>1, <1>2, <2>1
  <2>3. /\ first \o c \in Seq(Ops(None)) /\ Len(first \o c) = f + Len(c)
        /\ \A k \in 1 .. f + Len(c) : (first \o c)[k] = IF k <= f THEN first[k] ELSE c[k - f]
    BY <1>1, <2>2, ConcatProperties
  <2> QED  BY <2>1, <2>2, <2>3
<1>5. ASSUME NEW k \in 1 .. f + m * l PROVE Body(job, p, m)[k] = Body(job, p, n)[k]
  <2>1. k \in 1 .. f + Len(Calls(m, loop)) /\ k \in 1 .. f + Len(Calls(n, loop))
    BY <1>1, <1>2, <1>3, SMTT(30)
  <2>2. CASE k <= f
    BY <1>4, <2>1, <2>2
  <2>3. CASE k > f
    <3>1. k - f \in 1 .. m * l /\ k - f \in 1 .. n * l
      BY <1>1, <1>3, <2>3
    <3>2. Calls(m, loop)[k - f] = Calls(n, loop)[k - f]
      BY <1>2, <3>1
    <3> QED  BY <1>1, <1>4, <2>1, <2>3, <3>2
  <2> QED  BY <1>1, <1>3, <2>2, <2>3
<1>6. Len(Body(job, p, m)) = f + m * l /\ Len(Body(job, p, n)) = f + n * l
  BY <1>2, <1>4
<1> QED  BY <1>1, <1>3, <1>4, <1>5, <1>6

\* What the operations of a body are.
LEMMA BodyPlaces ==
    ASSUME NEW job \in Jobs, NEW p \in Party, NEW n \in Nat, NEW b, b = Body(job, p, n)
    PROVE  /\ b \in Seq(Ops(None))
           /\ job = "np_ot" => \A k \in 1 .. Len(b) : /\ b[k].do \in Transfer
                                                      /\ b[k].what \in {"keys", "offers"}
           /\ job # "np_ot" =>
                 /\ Len(b) = n + 3
                 /\ \A k \in 1 .. 3 : b[k].do \in Transfer \cup {"local"}
                 /\ b[1].what = "keys" /\ b[2].what = "offers" /\ b[3].what = "set_base_ots"
                 /\ \A k \in 4 .. n + 3 : /\ b[k].what = "matrix"
                                          /\ b[k].do = IF p = 0 THEN "recv" ELSE "send"
<1> DEFINE first == First(job, p)
           loop == Loop(job, p)
           l == Len(loop)
<1>1. /\ first \in Seq(Ops(None)) /\ loop \in Seq(Ops(None)) /\ l \in {1, 2}
      /\ Len(first) = IF job = "np_ot" THEN 0 ELSE 3
      /\ b = first \o Calls(n, loop)
  BY BodyParts
<1>2. \A i \in 1 .. l :
         /\ loop[i].do \in Transfer
         /\ IF job = "np_ot" THEN loop[i].what \in {"keys", "offers"}
                             ELSE /\ loop[i].what = "matrix"
                                  /\ loop[i].do = IF p = 0 THEN "recv" ELSE "send"
  BY BodyParts
<1>3. job # "np_ot" => l = 1
  BY BodyParts
<1>4. PICK c : c = Calls(n, loop)
  OBVIOUS
<1> HIDE DEF first, loop
<1>5. /\ c \in Seq(Ops(None)) /\ Len(c) = n * l /\ n * l \in Nat
      /\ \A k \in 1 .. n * l : \E i \in 1 .. l : \E d : c[k] = [loop[i] EXCEPT !.call = d]
  <2>1. /\ c \in Seq(Ops(None)) /\ Len(c) = n * l
        /\ \A k \in 1 .. n * l : /\ c[k] = [loop[((k - 1) % l) + 1] EXCEPT
                                              !.call = ((k - 1) \div l) + 1]
                                /\ ((k - 1) % l) + 1 \in 1 .. l
    BY <1>1, <1>4, CallsPlaces
  <2>2. n * l \in Nat
    BY <1>1
  <2>3. ASSUME NEW k \in 1 .. n * l
        PROVE  \E i \in 1 .. l : \E d : c[k] = [loop[i] EXCEPT !.call = d]
    <3>1. PICK i, d : i = ((k - 1) % l) + 1 /\ d = ((k - 1) \div l) + 1
      OBVIOUS
    <3>2. i \in 1 .. l /\ c[k] = [loop[i] EXCEPT !.call = d]
      BY <2>1, <3>1
    <3> QED  BY <3>2
  <2> QED  BY <2>1, <2>2, <2>3
<1>6. /\ b \in Seq(Ops(None)) /\ Len(b) = Len(first) + Len(c)
      /\ \A k \in 1 .. Len(first) + Len(c) :
            b[k] = IF k <= Len(first) THEN first[k] ELSE c[k - Len(first)]
  <2>1. b = first \o c
    BY <1>1, <1>4
  <2>2. first \in Seq(Ops(None)) /\ c \in Seq(Ops(None))
    BY <1>1, <1>5
  <2>3. /\ first \o c \in Seq(Ops(None)) /\ Len(first \o c) = Len(first) + Len(c)
        /\ \A k \in 1 .. Len(first) + Len(c) :
              (first \o c)[k] = IF k <= Len(first) THEN first[k] ELSE c[k - Len(first)]
    BY <2>2, ConcatProperties
  <2> QED  BY <2>1, <2>3
<1>7. ASSUME NEW k \in 1 .. n * l
      PROVE  \E i \in 1 .. l : c[k].do = loop[i].do /\ c[k].what = loop[i].what
  <2>1. PICK i \in 1 .. l : \E d : c[k] = [loop[i] EXCEPT !.call = d]
    BY <1>5
  <2>2. loop[i] \in Ops(None)
    BY <1>1, <2>1
  <2>3. c[k].do = loop[i].do /\ c[k].what = loop[i].what
    BY <2>1, <2>2 DEF Ops
  <2> QED  BY <2>3
<1>8. CASE job = "np_ot"
  <2>1. Len(b) = n * l /\ \A k \in 1 .. n * l : b[k] = c[k]
    BY <1>1, <1>5, <1>6, <1>8
  <2>2. \A k \in 1 .. Len(b) : b[k].do \in Transfer /\ b[k].what \in {"keys", "offers"}
    BY <1>2, <1>7, <1>8, <2>1, SMTT(30)
  <2> QED  BY <1>6, <1>8, <2>2
<1>9. CASE job # "np_ot"
  <2>1. Len(first) = 3 /\ n * l = n /\ Len(c) = n /\ Len(b) = n + 3
    <3>1. l = 1 /\ Len(first) = 3
      BY <1>1, <1>3, <1>9
    <3>2. n * l = n
      BY <3>1
    <3> QED  BY <1>5, <1>6, <3>1, <3>2
  <2>2. BaseOtSizes(job) \in Nat \ {0} /\ first = Lead(p, BaseOtSizes(job))
    BY <1>9, SizesAssumption DEF BaseOtSizes, First, first
  <2>3. /\ first[1].what = "keys" /\ first[2].what = "offers" /\ first[3].what = "set_base_ots"
        /\ \A k \in 1 .. 3 : first[k].do \in Transfer \cup {"local"}
    BY <2>2, LeadPlaces
  <2>4. b[1] = first[1] /\ b[2] = first[2] /\ b[3] = first[3]
    BY <1>6, <2>1
  <2>5. \A k \in 1 .. 3 : b[k] = first[k]
    BY <1>6, <2>1
  <2>6. ASSUME NEW k \in 4 .. n + 3
        PROVE  b[k].what = "matrix" /\ b[k].do = IF p = 0 THEN "recv" ELSE "send"
    <3>1. k - 3 \in 1 .. n /\ b[k] = c[k - 3]
      BY <1>6, <2>1
    <3> QED  BY <1>2, <1>7, <1>9, <2>1, <3>1
  <2> QED  BY <1>6, <1>9, <2>1, <2>3, <2>4, <2>5, <2>6
<1> QED  BY <1>8, <1>9

LEMMA InJobPlaces ==
    ASSUME NEW job \in Jobs, NEW ops \in Seq(Ops(None)), NEW s, s = InJob(job, ops)
    PROVE  /\ s \in Seq(Ops(Jobs)) /\ Len(s) = Len(ops)
           /\ \A k \in 1 .. Len(ops) : /\ s[k] = [ops[k] EXCEPT !.job = job]
                                       /\ s[k].job = job
                                       /\ s[k].do = ops[k].do /\ s[k].what = ops[k].what
<1>1. Len(ops) \in Nat /\ DOMAIN ops = 1 .. Len(ops)
  OBVIOUS
<1>2. ASSUME NEW k \in 1 .. Len(ops)
      PROVE  /\ [ops[k] EXCEPT !.job = job] \in Ops(Jobs)
             /\ [ops[k] EXCEPT !.job = job].job = job
             /\ [ops[k] EXCEPT !.job = job].do = ops[k].do
             /\ [ops[k] EXCEPT !.job = job].what = ops[k].what
  <2>1. ops[k] \in Ops(None)
    BY <1>2
  <2> QED  BY <2>1 DEF Ops
<1>3. s = [k \in 1 .. Len(ops) |-> [ops[k] EXCEPT !.job = job]]
  BY <1>1 DEF InJob
<1>4. s \in [1 .. Len(ops) -> Ops(Jobs)]
  BY <1>2, <1>3
<1>5. s \in Seq(Ops(Jobs)) /\ Len(s) = Len(ops)
  BY <1>1, <1>4
<1> QED  BY <1>2, <1>3, <1>5

LEMMA BenchPlaces ==
    ASSUME NEW job \in Jobs, NEW p \in Party, NEW n \in Nat, NEW s, s = Bench(job, p, n),
           NEW b, b = Body(job, p, n)
    PROVE  /\ b \in Seq(Ops(None)) /\ s \in Seq(Ops(Jobs))
           /\ Len(b) \in Nat /\ Len(s) = Len(b) + 2
           /\ s[1].do = "begin" /\ s[1].what = job
           /\ s[Len(b) + 2].do = "end" /\ s[Len(b) + 2].what \in Jobs
           /\ \A k \in 1 .. Len(b) : /\ s[k + 1] = [b[k] EXCEPT !.job = job]
                                     /\ s[k + 1].do = b[k].do /\ s[k + 1].what = b[k].what
           /\ \A k \in 1 .. Len(s) : s[k].job = job
<1> DEFINE a == Op("begin", job, 0)
           z == Op("end", EndName(job), 0)
<1>1. b \in Seq(Ops(None))
  BY BodyPlaces
<1>2. /\ a \in Ops(None) /\ a.do = "begin" /\ a.what = job
      /\ z \in Ops(None) /\ z.do = "end" /\ z.what \in Jobs
  <2>1. job \in What /\ EndName(job) \in What /\ EndName(job) \in Jobs
    BY DEF What, Jobs, EndName
  <2> QED  BY <2>1 DEF Op, Ops, None, Do
<1>3. PICK t : t = <<a>> \o b \o <<z>>
  OBVIOUS
<1>4. s = InJob(job, t)
  BY <1>3 DEF Bench
<1> HIDE DEF a, z
<1>5. /\ t \in Seq(Ops(None)) /\ Len(t) = Len(b) + 2 /\ Len(b) \in Nat
      /\ t[1] = a /\ t[Len(b) + 2] = z
      /\ \A k \in 1 .. Len(b) : t[k + 1] = b[k]
  BY <1>1, <1>2, <1>3, Sandwich
<1>6. /\ s \in Seq(Ops(Jobs)) /\ Len(s) = Len(t)
      /\ \A k \in 1 .. Len(t) : /\ s[k] = [t[k] EXCEPT !.job = job]
                                /\ s[k].job = job
                                /\ s[k].do = t[k].do /\ s[k].what = t[k].what
  BY <1>4, <1>5, InJobPlaces
<1>7. \A k \in 1 .. Len(b) : k + 1 \in 1 .. Len(t)
  BY <1>5
<1>8. 1 \in 1 .. Len(t) /\ Len(b) + 2 \in 1 .. Len(t)
  BY <1>5
<1> QED  BY <1>1, <1>2, <1>5, <1>6, <1>7, <1>8, SMTT(30)

LEMMA ExamplePlaces ==
    ASSUME NEW job \in Jobs, NEW p \in Party, NEW s, s = Example(job, p),
           NEW b, b = Body(job, p, 1)
    PROVE  /\ b \in Seq(Ops(None)) /\ s \in Seq(Ops(Jobs))
           /\ Len(b) \in Nat /\ Len(s) = Len(b) + 1
           /\ s[Len(b) + 1].do = "local"
           /\ s[Len(b) + 1].what = IF job = "kkrt_ot" /\ p = 0 THEN "encode" ELSE "show"
           /\ \A k \in 1 .. Len(b) : /\ s[k] = [b[k] EXCEPT !.job = job]
                                     /\ s[k].do = b[k].do /\ s[k].what = b[k].what
           /\ \A k \in 1 .. Len(s) : s[k].job = job
<1> DEFINE z == Op("local", IF job = "kkrt_ot" /\ p = 0 THEN "encode" ELSE "show", 0)
<1>1. b \in Seq(Ops(None))
  BY BodyPlaces
<1>2. /\ z \in Ops(None) /\ z.do = "local"
      /\ z.what = IF job = "kkrt_ot" /\ p = 0 THEN "encode" ELSE "show"
  BY DEF Op, Ops, None, Do, What
<1>3. PICK t : t = b \o <<z>>
  OBVIOUS
<1>4. s = InJob(job, t)
  <2>1. CASE job = "np_ot"
    BY <1>3, <2>1 DEF Example, NpExample, Body
  <2>2. CASE job = "iknp_ot"
    BY <1>3, <2>2 DEF Example, IknpExample, Body
  <2>3. CASE job = "kkrt_ot"
    BY <1>3, <2>3 DEF Example, KkrtExample, Body
  <2> QED  BY <2>1, <2>2, <2>3 DEF Jobs
<1> HIDE DEF z
<1>5. /\ t \in Seq(Ops(None)) /\ Len(t) = Len(b) + 1 /\ Len(b) \in Nat
      /\ t[Len(b) + 1] = z /\ \A k \in 1 .. Len(b) : t[k] = b[k]
  BY <1>1, <1>2, <1>3, Appended
<1>6. /\ s \in Seq(Ops(Jobs)) /\ Len(s) = Len(t)
      /\ \A k \in 1 .. Len(t) : /\ s[k] = [t[k] EXCEPT !.job = job]
                                /\ s[k].job = job
                                /\ s[k].do = t[k].do /\ s[k].what = t[k].what
  BY <1>4, <1>5, InJobPlaces
<1>7. Len(b) + 1 \in 1 .. Len(t) /\ \A k \in 1 .. Len(b) : k \in 1 .. Len(t)
  BY <1>5
<1>8. s[Len(b) + 1].do = z.do /\ s[Len(b) + 1].what = z.what
  BY <1>5, <1>6, <1>7
<1>9. ASSUME NEW k \in 1 .. Len(b)
      PROVE  s[k] = [b[k] EXCEPT !.job = job] /\ s[k].do = b[k].do /\ s[k].what = b[k].what
  BY <1>5, <1>6, <1>7
<1> QED  BY <1>1, <1>2, <1>5, <1>6, <1>8, <1>9

-----------------------------------------------------------------------------
(* One case, run any number of times.                                      *)

LEMMA BenchAlike ==
    ASSUME NEW job \in Jobs, NEW n \in Nat
    PROVE  Alike(Bench(job, 0, n), Bench(job, 1, n))
<1>1. PICK s, b : s = Bench(job, 0, n) /\ b = Body(job, 0, n)
  OBVIOUS
<1>2. Paired(Jobs, s, Bench(job, 1, n))
  BY <1>1, BenchPaired
<1>3. 0 \in Party
  BY DEF Party
<1>4. Len(b) \in Nat /\ Len(s) = Len(b) + 2 /\ s[Len(b) + 2].do = "end"
  BY <1>1, <1>3, BenchPlaces
<1>5. s[Len(s)].do \notin Transfer
  BY <1>4 DEF Transfer
<1> QED  BY <1>1, <1>2, <1>5, PairedAlike

\* Before its end a bench of m calls is the beginning of one of n.
LEMMA BenchPrefix ==
    ASSUME NEW job \in Jobs, NEW p \in Party, NEW m \in Nat, NEW n \in Nat, m <= n,
           NEW s, s = Bench(job, p, m), NEW t, t = Bench(job, p, n)
    PROVE  /\ s \in Seq(Ops(Jobs)) /\ t \in Seq(Ops(Jobs)) /\ Len(s) <= Len(t)
           /\ \A k \in 1 .. Len(s) - 1 : s[k] = t[k]
<1>1. PICK b, c : b = Body(job, p, m) /\ c = Body(job, p, n)
  OBVIOUS
<1>2. /\ b \in Seq(Ops(None)) /\ c \in Seq(Ops(None)) /\ Len(b) <= Len(c)
      /\ \A k \in 1 .. Len(b) : b[k] = c[k]
  BY <1>1, BodyPrefix
<1>3. /\ s \in Seq(Ops(Jobs)) /\ Len(b) \in Nat /\ Len(s) = Len(b) + 2
      /\ \A k \in 1 .. Len(b) : s[k + 1] = [b[k] EXCEPT !.job = job]
  BY <1>1, BenchPlaces
<1>4. /\ t \in Seq(Ops(Jobs)) /\ Len(c) \in Nat /\ Len(t) = Len(c) + 2
      /\ \A k \in 1 .. Len(c) : t[k + 1] = [c[k] EXCEPT !.job = job]
  BY <1>1, BenchPlaces
<1>5. ASSUME NEW k \in 1 .. Len(b) PROVE s[k + 1] = t[k + 1]
  <2>1. k \in 1 .. Len(c) /\ b[k] = c[k]
    BY <1>2, <1>3, <1>4
  <2>2. s[k + 1] = [b[k] EXCEPT !.job = job] /\ t[k + 1] = [c[k] EXCEPT !.job = job]
    BY <1>3, <1>4, <2>1
  <2> QED  BY <2>1, <2>2
<1>6. s[1] = t[1]
  <2>1. PICK a, y, z : a = Op("begin", job, 0) /\ y = <<a>> \o b /\ z = <<a>> \o c
    OBVIOUS
  <2>2. PICK e : e = Op("end", EndName(job), 0)
    OBVIOUS
  <2>3. a \in Ops(None) /\ e \in Ops(None)
    <3>1. job \in What /\ EndName(job) \in What
      BY DEF What, Jobs, EndName
    <3> QED  BY <2>1, <2>2, <3>1 DEF Op, Ops, None, Do
  <2>4. PICK v, w : v = <<a>> \o b \o <<e>> /\ w = <<a>> \o c \o <<e>>
    OBVIOUS
  <2>5. s = InJob(job, v) /\ t = InJob(job, w)
    BY <1>1, <2>1, <2>2, <2>4 DEF Bench
  <2>6. v \in Seq(Ops(None)) /\ Len(v) = Len(b) + 2 /\ v[1] = a
    BY <1>2, <2>3, <2>4, Sandwich
  <2>7. w \in Seq(Ops(None)) /\ Len(w) = Len(c) + 2 /\ w[1] = a
    BY <1>2, <2>3, <2>4, Sandwich
  <2>8. s[1] = [v[1] EXCEPT !.job = job]
    <3>1. 1 \in 1 .. Len(v)
      BY <1>3, <2>6
    <3>2. \A k \in 1 .. Len(v) : s[k] = [v[k] EXCEPT !.job = job]
      BY <2>5, <2>6, InJobPlaces
    <3> QED  BY <3>1, <3>2
  <2>9. t[1] = [w[1] EXCEPT !.job = job]
    <3>1. 1 \in 1 .. Len(w)
      BY <1>4, <2>7
    <3>2. \A k \in 1 .. Len(w) : t[k] = [w[k] EXCEPT !.job = job]
      BY <2>5, <2>7, InJobPlaces
    <3> QED  BY <3>1, <3>2
  <2> QED  BY <2>6, <2>7, <2>8, <2>9
<1>7. ASSUME NEW k \in 1 .. Len(s) - 1 PROVE s[k] = t[k]
  <2>1. CASE k = 1
    BY <1>6, <2>1
  <2>2. CASE k # 1
    <3>1. k - 1 \in 1 .. Len(b) /\ (k - 1) + 1 = k
      BY <1>3, <2>2
    <3> QED  BY <1>5, <3>1
  <2> QED  BY <2>1, <2>2
<1> QED  BY <1>2, <1>3, <1>4, <1>7

LEMMA BenchesAlike ==
    ASSUME NEW job \in Jobs, NEW m \in Nat, NEW n \in Nat
    PROVE  Alike(Bench(job, 0, m), Bench(job, 1, n))
<1>1. PICK s0, s1, t0, t1 : /\ s0 = Bench(job, 0, m) /\ s1 = Bench(job, 1, m)
                            /\ t0 = Bench(job, 0, n) /\ t1 = Bench(job, 1, n)
  OBVIOUS
<1>2. Alike(s0, s1) /\ Alike(t0, t1)
  BY <1>1, BenchAlike
<1>3. 0 \in Party /\ 1 \in Party
  BY DEF Party
<1>4. CASE m <= n
  <2>1. /\ s0 \in Seq(Ops(Jobs)) /\ t0 \in Seq(Ops(Jobs)) /\ Len(s0) <= Len(t0)
        /\ \A k \in 1 .. Len(s0) - 1 : s0[k] = t0[k]
    BY <1>1, <1>3, <1>4, BenchPrefix
  <2>2. Len(s0) \in Nat /\ Len(t0) \in Nat
    BY <2>1
  <2>3. ASSUME NEW k \in Nat, k \in 1 .. Len(s0) - 1, k \in 1 .. Len(t1) - 1
        PROVE  Mirrors(s0[k], t1[k])
    <3>1. k \in 1 .. Len(t0) - 1 /\ s0[k] = t0[k]
      BY <2>1, <2>2, <2>3
    <3> QED  BY <1>2, <2>3, <3>1 DEF Alike
  <2> QED  BY <1>1, <1>2, <2>3 DEF Alike
<1>5. CASE n <= m
  <2>1. /\ t1 \in Seq(Ops(Jobs)) /\ s1 \in Seq(Ops(Jobs)) /\ Len(t1) <= Len(s1)
        /\ \A k \in 1 .. Len(t1) - 1 : t1[k] = s1[k]
    BY <1>1, <1>3, <1>5, BenchPrefix
  <2>2. Len(s1) \in Nat /\ Len(t1) \in Nat
    BY <2>1
  <2>3. ASSUME NEW k \in Nat, k \in 1 .. Len(s0) - 1, k \in 1 .. Len(t1) - 1
        PROVE  Mirrors(s0[k], t1[k])
    <3>1. k \in 1 .. Len(s1) - 1 /\ t1[k] = s1[k]
      BY <2>1, <2>2, <2>3
    <3> QED  BY <1>2, <2>3, <3>1 DEF Alike
  <2> QED  BY <1>1, <1>2, <2>3 DEF Alike
<1> QED  BY <1>4, <1>5

LEMMA EmptyAlike == Alike(<<>>, <<>>)
BY DEF Alike, Closed

LEMMA ExampleAlike ==
    ASSUME NEW job \in Jobs
    PROVE  Alike(Example(job, 0), Example(job, 1))
<1>1. PICK s, b : s = Example(job, 0) /\ b = Body(job, 0, 1)
  OBVIOUS
<1>2. 0 \in Party
  BY DEF Party
<1>3. Len(b) \in Nat /\ Len(s) = Len(b) + 1 /\ s[Len(b) + 1].do = "local"
  BY <1>1, <1>2, ExamplePlaces
<1>4. s[Len(s)].do \notin Transfer
  BY <1>3 DEF Transfer
<1> QED  BY <1>1, <1>4, ExamplePaired, PairedAlike

\* A case that both run the same number of times, and one of a single protocol
\* that they run any number of times.
LEMMA BenchMainAlike ==
    ASSUME NEW case, NEW m \in Nat, NEW n \in Nat, case = "all" => m = n
    PROVE  /\ Alike(BenchMain(case, 0, m), BenchMain(case, 1, n))
           /\ case # "all" => OneJob(BenchMain(case, 0, m)) /\ OneJob(BenchMain(case, 1, n))
<1>1. 0 \in Party /\ 1 \in Party
  BY DEF Party
<1>2. CASE case = "all"
  <2>1. PICK s, x, y : /\ s = BenchMain(case, 0, m)
                       /\ x = Bench("np_ot", 0, m) \o Bench("iknp_ot", 0, m)
                       /\ y = Bench("kkrt_ot", 0, m)
    OBVIOUS
  <2>2. s = x \o y
    BY <1>2, <2>1 DEF BenchMain
  <2>3. /\ Bench("np_ot", 0, m) \in Seq(Ops(Jobs)) /\ Bench("iknp_ot", 0, m) \in Seq(Ops(Jobs))
        /\ y \in Seq(Ops(Jobs))
    BY <1>1, <2>1, BenchPlaces DEF Jobs
  <2>4. x \in Seq(Ops(Jobs))
    BY <2>1, <2>3, ConcatProperties
  <2>5. PICK b : b = Body("kkrt_ot", 0, m)
    OBVIOUS
  <2>6. Len(b) \in Nat /\ Len(y) = Len(b) + 2 /\ y[Len(b) + 2].do = "end"
    <3>1. "kkrt_ot" \in Jobs
      BY DEF Jobs
    <3> QED  BY <1>1, <2>1, <2>5, <3>1, BenchPlaces, SMTT(30)
  <2>7. /\ Len(s) = Len(x) + Len(y) /\ Len(x) \in Nat
        /\ \A k \in 1 .. Len(x) + Len(y) : s[k] = IF k <= Len(x) THEN x[k] ELSE y[k - Len(x)]
    BY <2>2, <2>3, <2>4, ConcatProperties
  <2>8. s[Len(s)] = y[Len(y)]
    BY <2>6, <2>7
  <2>9. s[Len(s)].do \notin Transfer
    BY <2>6, <2>8 DEF Transfer
  <2> QED  BY <1>2, <2>1, <2>9, BenchMainPaired, PairedAlike
<1>3. CASE case # "all" /\ case \in Jobs
  <2>1. /\ BenchMain(case, 0, m) = Bench(case, 0, m)
        /\ BenchMain(case, 1, n) = Bench(case, 1, n)
    BY <1>3 DEF BenchMain
  <2>2. ASSUME NEW p \in Party, NEW i \in Nat PROVE OneJob(Bench(case, p, i))
    <3>1. PICK s, b : s = Bench(case, p, i) /\ b = Body(case, p, i)
      OBVIOUS
    <3>2. \A k \in 1 .. Len(s) : s[k].job = case
      BY <1>3, <3>1, BenchPlaces, SMTT(30)
    <3> QED  BY <3>1, <3>2 DEF OneJob
  <2> QED  BY <1>1, <1>3, <2>1, <2>2, BenchesAlike
<1>4. CASE case # "all" /\ case \notin Jobs
  <2>1. BenchMain(case, 0, m) = <<>> /\ BenchMain(case, 1, n) = <<>>
    BY <1>4 DEF BenchMain
  <2> QED  BY <2>1, EmptyAlike DEF OneJob
<1> QED  BY <1>2, <1>3, <1>4

-----------------------------------------------------------------------------
(* What comes before a call within its job.                                *)

\* Places l to k of a script are of one job.
InRun(s, l, k) == \A i \in l .. k : s[i].job = s[k].job

Preceded(s, k, what) == \E l \in 1 .. k - 1 : InRun(s, l, k) /\ s[l].what = what

\* The rows of the one that encodes.
Received(s, k) ==
    \E l \in 1 .. k - 1 : InRun(s, l, k) /\ s[l].what = "matrix" /\ s[l].do = "recv"

OrderlyAt(s, k) ==
    /\ s[k].do = "begin" => s[k].what \in Jobs /\ (k > 1 => s[k - 1].job # s[k].job)
    /\ s[k].what = "set_base_ots" => Preceded(s, k, "offers")
    /\ s[k].what = "matrix" => Preceded(s, k, "set_base_ots")
    /\ s[k].what = "encode" => s[k].job = "kkrt_ot" /\ Received(s, k)

Orderly(s) == s \in Seq(Ops(Jobs)) /\ \A k \in 1 .. Len(s) : OrderlyAt(s, k)

\* A job after another one.
LEMMA OrderlyConcat ==
    ASSUME NEW s, NEW t, Orderly(s), Orderly(t), NEW u, u = s \o t,
           Len(s) > 0, Len(t) > 0, s[Len(s)].job # t[1].job
    PROVE  /\ Orderly(u) /\ Len(u) = Len(s) + Len(t) /\ u[Len(u)] = t[Len(t)]
<1>0. PICK m : m = Len(s)
  OBVIOUS
<1>1. /\ s \in Seq(Ops(Jobs)) /\ t \in Seq(Ops(Jobs)) /\ m \in Nat \ {0} /\ Len(t) \in Nat
  BY <1>0 DEF Orderly
<1>2. /\ u \in Seq(Ops(Jobs)) /\ Len(u) = m + Len(t)
      /\ \A k \in 1 .. m + Len(t) : u[k] = IF k <= m THEN s[k] ELSE t[k - m]
  BY <1>0, <1>1, ConcatProperties
<1>3. /\ \A k \in 1 .. m : u[k] = s[k]
      /\ \A k \in 1 .. Len(t) : u[m + k] = t[k]
  BY <1>1, <1>2, SMTT(30)
<1>4. ASSUME NEW k \in 1 .. m PROVE OrderlyAt(u, k)
  <2>1. OrderlyAt(s, k)
    BY <1>0 DEF Orderly
  <2>2. u[k] = s[k] /\ (k > 1 => u[k - 1] = s[k - 1])
    <3>1. k > 1 => k - 1 \in 1 .. m
      BY <1>1
    <3> QED  BY <1>3, <3>1
  <2>3. ASSUME NEW l \in 1 .. k - 1
        PROVE  u[l] = s[l] /\ (InRun(s, l, k) => InRun(u, l, k))
    <3>1. \A i \in l .. k : i \in 1 .. m
      BY <1>1
    <3>2. l \in l .. k
      BY <1>1
    <3> QED  BY <1>3, <3>1, <3>2 DEF InRun
  <2> QED  BY <2>1, <2>2, <2>3 DEF OrderlyAt, Preceded, Received
<1>5. ASSUME NEW k \in 1 .. Len(t) PROVE OrderlyAt(u, m + k)
  <2>1. OrderlyAt(t, k)
    BY DEF Orderly
  <2>2. u[m + k] = t[k]
    BY <1>3
  <2>3. \/ u[(m + k) - 1].job # u[m + k].job
        \/ k > 1 /\ u[(m + k) - 1] = t[k - 1]
    <3>1. CASE k = 1
      <4>1. (m + k) - 1 = m /\ m \in 1 .. m
        BY <1>1, <3>1
      <4>2. u[(m + k) - 1] = s[m] /\ u[m + k] = t[1]
        BY <1>3, <2>2, <3>1, <4>1
      <4> QED  BY <1>0, <4>2
    <3>2. CASE k > 1
      <4>1. (m + k) - 1 = m + (k - 1) /\ k - 1 \in 1 .. Len(t)
        BY <1>1, <3>2
      <4> QED  BY <1>3, <3>2, <4>1
    <3>3. k = 1 \/ k > 1
      BY <1>1
    <3> QED  BY <3>1, <3>2, <3>3, Zenon
  <2>4. ASSUME NEW l \in 1 .. k - 1
        PROVE  /\ m + l \in 1 .. (m + k) - 1
               /\ u[m + l] = t[l]
               /\ InRun(t, l, k) => InRun(u, m + l, m + k)
    <3>1. m + l \in 1 .. (m + k) - 1 /\ l \in 1 .. Len(t)
      BY <1>1
    <3>2. ASSUME InRun(t, l, k), NEW i \in m + l .. m + k PROVE u[i].job = u[m + k].job
      <4>1. i - m \in l .. k /\ i - m \in 1 .. Len(t) /\ m + (i - m) = i
        BY <1>1, <3>1
      <4>2. u[i] = t[i - m]
        BY <1>3, <4>1
      <4> QED  BY <2>2, <3>2, <4>1, <4>2 DEF InRun
    <3> QED  BY <1>3, <3>1, <3>2 DEF InRun
  <2>5. \A what : Preceded(t, k, what) => Preceded(u, m + k, what)
    BY <2>4 DEF Preceded
  <2>6. Received(t, k) => Received(u, m + k)
    BY <2>4 DEF Received
  <2>7. u[m + k].do = "begin" => /\ u[m + k].what \in Jobs
                                 /\ (m + k > 1 => u[(m + k) - 1].job # u[m + k].job)
    BY <2>1, <2>2, <2>3 DEF OrderlyAt
  <2> QED  BY <2>1, <2>2, <2>5, <2>6, <2>7 DEF OrderlyAt
<1>6. ASSUME NEW k \in 1 .. Len(u) PROVE OrderlyAt(u, k)
  <2>1. CASE k <= m
    BY <1>1, <1>4, <2>1
  <2>2. CASE k > m
    <3>1. k - m \in 1 .. Len(t) /\ m + (k - m) = k
      BY <1>1, <1>2, <2>2
    <3> QED  BY <1>5, <3>1
  <2> QED  BY <1>1, <2>1, <2>2
<1>7. u[Len(u)] = t[Len(t)]
  BY <1>1, <1>2, <1>3
<1> QED  BY <1>0, <1>2, <1>6, <1>7 DEF Orderly

\* Within one job.
LEMMA OneJobOrderly ==
    ASSUME NEW job \in Jobs, NEW s \in Seq(Ops(Jobs)), \A k \in 1 .. Len(s) : s[k].job = job,
           \A k \in 1 .. Len(s) :
              /\ s[k].do = "begin" => s[k].what \in Jobs /\ k = 1
              /\ s[k].what = "set_base_ots" => \E l \in 1 .. k - 1 : s[l].what = "offers"
              /\ s[k].what = "matrix" => \E l \in 1 .. k - 1 : s[l].what = "set_base_ots"
              /\ s[k].what = "encode" => /\ job = "kkrt_ot"
                                         /\ \E l \in 1 .. k - 1 : /\ s[l].what = "matrix"
                                                                  /\ s[l].do = "recv"
    PROVE  Orderly(s)
<1>1. Len(s) \in Nat
  OBVIOUS
<1>2. ASSUME NEW k \in 1 .. Len(s) PROVE OrderlyAt(s, k)
  <2>1. \A l \in 1 .. k - 1 : InRun(s, l, k)
    BY <1>1 DEF InRun
  <2>2. \A what : (\E l \in 1 .. k - 1 : s[l].what = what) => Preceded(s, k, what)
    BY <2>1 DEF Preceded
  <2>3. (\E l \in 1 .. k - 1 : s[l].what = "matrix" /\ s[l].do = "recv") => Received(s, k)
    BY <2>1 DEF Received
  <2>4. s[k].do = "begin" => s[k].what \in Jobs /\ (k > 1 => s[k - 1].job # s[k].job)
    BY <1>1
  <2> QED  BY <2>2, <2>3, <2>4 DEF OrderlyAt
<1> QED  BY <1>2 DEF Orderly

LEMMA BenchOrderly ==
    ASSUME NEW job \in Jobs, NEW p \in Party, NEW n \in Nat, NEW s, s = Bench(job, p, n)
    PROVE  Orderly(s) /\ Len(s) > 0 /\ s[1].job = job /\ s[Len(s)].job = job
<1>1. PICK b : b = Body(job, p, n)
  OBVIOUS
<1>2. /\ b \in Seq(Ops(None)) /\ s \in Seq(Ops(Jobs))
      /\ Len(b) \in Nat /\ Len(s) = Len(b) + 2
      /\ s[1].do = "begin" /\ s[1].what = job
      /\ s[Len(b) + 2].do = "end" /\ s[Len(b) + 2].what \in Jobs
      /\ \A k \in 1 .. Len(b) : /\ s[k + 1] = [b[k] EXCEPT !.job = job]
                                /\ s[k + 1].do = b[k].do /\ s[k + 1].what = b[k].what
      /\ \A k \in 1 .. Len(s) : s[k].job = job
  BY <1>1, BenchPlaces
<1>3. ASSUME NEW k \in 1 .. Len(s)
      PROVE  \/ k = 1
             \/ k = Len(s)
             \/ k - 1 \in 1 .. Len(b) /\ s[k].do = b[k - 1].do /\ s[k].what = b[k - 1].what
  <2>1. SUFFICES ASSUME k # 1, k # Len(s)
                 PROVE  k - 1 \in 1 .. Len(b) /\ s[k].do = b[k - 1].do /\ s[k].what = b[k - 1].what
    OBVIOUS
  <2>2. k - 1 \in 1 .. Len(b) /\ (k - 1) + 1 = k
    BY <1>2, <2>1
  <2> QED  BY <1>2, <2>2
<1>4. \A w \in Jobs : w # "set_base_ots" /\ w # "matrix" /\ w # "encode"
  BY DEF Jobs
<1>5. ASSUME job = "np_ot" PROVE Orderly(s)
  <2>1. \A k \in 1 .. Len(b) : b[k].do \in Transfer /\ b[k].what \in {"keys", "offers"}
    BY <1>1, <1>5, BodyPlaces
  <2>2. ASSUME NEW k \in 1 .. Len(s)
        PROVE  /\ s[k].do = "begin" => s[k].what \in Jobs /\ k = 1
               /\ s[k].what # "set_base_ots" /\ s[k].what # "matrix" /\ s[k].what # "encode"
    <3>1. CASE k = 1
      BY <1>2, <1>4, <3>1
    <3>2. CASE k = Len(s)
      BY <1>2, <1>4, <3>2
    <3>3. CASE k - 1 \in 1 .. Len(b) /\ s[k].do = b[k - 1].do /\ s[k].what = b[k - 1].what
      BY <2>1, <3>3 DEF Transfer
    <3> QED  BY <1>3, <3>1, <3>2, <3>3
  <2> QED  BY <1>2, <2>2, OneJobOrderly
<1>6. ASSUME job # "np_ot" PROVE Orderly(s)
  <2>1. /\ Len(b) = n + 3
        /\ \A k \in 1 .. 3 : b[k].do \in Transfer \cup {"local"}
        /\ b[1].what = "keys" /\ b[2].what = "offers" /\ b[3].what = "set_base_ots"
        /\ \A k \in 4 .. n + 3 : /\ b[k].what = "matrix"
                                 /\ b[k].do = IF p = 0 THEN "recv" ELSE "send"
    BY <1>1, <1>6, BodyPlaces
  <2>2. /\ s[2].what = "keys" /\ s[3].what = "offers" /\ s[4].what = "set_base_ots"
        /\ Len(s) = n + 5
    <3>1. 1 \in 1 .. Len(b) /\ 2 \in 1 .. Len(b) /\ 3 \in 1 .. Len(b)
      BY <2>1
    <3>2. s[1 + 1].what = b[1].what /\ s[2 + 1].what = b[2].what /\ s[3 + 1].what = b[3].what
      BY <1>2, <3>1
    <3> QED  BY <1>2, <2>1, <3>2
  <2>3. ASSUME NEW k \in 1 .. Len(s)
        PROVE  /\ s[k].do = "begin" => s[k].what \in Jobs /\ k = 1
               /\ s[k].what = "set_base_ots" => k = 4
               /\ s[k].what = "matrix" => k > 4
               /\ s[k].what # "encode"
    <3>1. CASE k = 1
      BY <1>2, <1>4, <3>1
    <3>2. CASE k = Len(s)
      BY <1>2, <1>4, <3>2
    <3>3. CASE k - 1 \in 1 .. Len(b) /\ s[k].do = b[k - 1].do /\ s[k].what = b[k - 1].what
      <4>1. CASE k - 1 \in 1 .. 3
        <5>1. k - 1 = 1 \/ k - 1 = 2 \/ k - 1 = 3
          BY <4>1
        <5>2. s[k].what \in {"keys", "offers", "set_base_ots"} /\ s[k].do # "begin"
          BY <2>1, <3>3, <4>1, <5>1 DEF Transfer
        <5>3. s[k].what = "set_base_ots" => k - 1 = 3
          BY <2>1, <3>3, <5>1
        <5> QED  BY <5>2, <5>3
      <4>2. CASE k - 1 \notin 1 .. 3
        <5>1. k - 1 \in 4 .. n + 3
          BY <2>1, <3>3, <4>2
        <5>2. s[k].what = "matrix" /\ s[k].do # "begin"
          BY <2>1, <3>3, <5>1
        <5> QED  BY <5>1, <5>2
      <4> QED  BY <4>1, <4>2
    <3> QED  BY <1>3, <3>1, <3>2, <3>3
  <2>4. ASSUME NEW k \in 1 .. Len(s)
        PROVE  /\ s[k].what = "set_base_ots" => \E l \in 1 .. k - 1 : s[l].what = "offers"
               /\ s[k].what = "matrix" => \E l \in 1 .. k - 1 : s[l].what = "set_base_ots"
    <3>1. s[k].what = "set_base_ots" => 3 \in 1 .. k - 1
      BY <2>3
    <3>2. s[k].what = "matrix" => 4 \in 1 .. k - 1
      BY <2>3
    <3> QED  BY <2>2, <3>1, <3>2
  <2>5. \A k \in 1 .. Len(s) :
           /\ s[k].do = "begin" => s[k].what \in Jobs /\ k = 1
           /\ s[k].what = "set_base_ots" => \E l \in 1 .. k - 1 : s[l].what = "offers"
           /\ s[k].what = "matrix" => \E l \in 1 .. k - 1 : s[l].what = "set_base_ots"
           /\ s[k].what = "encode" => /\ job = "kkrt_ot"
                                      /\ \E l \in 1 .. k - 1 : /\ s[l].what = "matrix"
                                                               /\ s[l].do = "recv"
    BY <2>3, <2>4
  <2>6. s \in Seq(Ops(Jobs)) /\ \A k \in 1 .. Len(s) : s[k].job = job
    BY <1>2
  <2> QED  BY <2>5, <2>6, OneJobOrderly
<1>7. 1 \in 1 .. Len(s) /\ Len(s) \in 1 .. Len(s) /\ Len(s) > 0
  BY <1>2
<1>8. Orderly(s)
  BY <1>5, <1>6
<1> QED  BY <1>2, <1>7, <1>8

LEMMA ExampleOrderly ==
    ASSUME NEW job \in Jobs, NEW p \in Party, NEW s, s = Example(job, p)
    PROVE  Orderly(s)
<1>1. PICK b : b = Body(job, p, 1)
  OBVIOUS
<1>2. /\ b \in Seq(Ops(None)) /\ s \in Seq(Ops(Jobs))
      /\ Len(b) \in Nat /\ Len(s) = Len(b) + 1
      /\ s[Len(b) + 1].do = "local"
      /\ s[Len(b) + 1].what = IF job = "kkrt_ot" /\ p = 0 THEN "encode" ELSE "show"
      /\ \A k \in 1 .. Len(b) : /\ s[k] = [b[k] EXCEPT !.job = job]
                                /\ s[k].do = b[k].do /\ s[k].what = b[k].what
      /\ \A k \in 1 .. Len(s) : s[k].job = job
  BY <1>1, ExamplePlaces
<1>3. \A k \in 1 .. Len(s) : k = Len(s) \/ k \in 1 .. Len(b)
  BY <1>2
<1>4. CASE job = "np_ot"
  <2>1. \A k \in 1 .. Len(b) : b[k].do \in Transfer /\ b[k].what \in {"keys", "offers"}
    BY <1>1, <1>4, BodyPlaces
  <2>2. ASSUME NEW k \in 1 .. Len(s)
        PROVE  /\ s[k].do # "begin"
               /\ s[k].what # "set_base_ots" /\ s[k].what # "matrix" /\ s[k].what # "encode"
    <3>1. CASE k = Len(s)
      BY <1>2, <1>4, <3>1
    <3>2. CASE k \in 1 .. Len(b)
      BY <1>2, <2>1, <3>2 DEF Transfer
    <3> QED  BY <1>3, <3>1, <3>2
  <2> QED  BY <1>2, <2>2, OneJobOrderly
<1>5. CASE job # "np_ot"
  <2>1. /\ Len(b) = 4
        /\ \A k \in 1 .. 3 : b[k].do \in Transfer \cup {"local"}
        /\ b[1].what = "keys" /\ b[2].what = "offers" /\ b[3].what = "set_base_ots"
        /\ b[4].what = "matrix" /\ b[4].do = IF p = 0 THEN "recv" ELSE "send"
    <3>1. PICK n \in Nat : n = 1
      OBVIOUS
    <3>2. /\ Len(b) = n + 3
          /\ \A k \in 1 .. 3 : b[k].do \in Transfer \cup {"local"}
          /\ b[1].what = "keys" /\ b[2].what = "offers" /\ b[3].what = "set_base_ots"
          /\ \A k \in 4 .. n + 3 : /\ b[k].what = "matrix"
                                   /\ b[k].do = IF p = 0 THEN "recv" ELSE "send"
      <4>1. b = Body(job, p, n)
        BY <1>1, <3>1
      <4> QED  BY <1>5, <4>1, BodyPlaces
    <3>3. 4 \in 4 .. n + 3 /\ n + 3 = 4
      BY <3>1
    <3> QED  BY <3>2, <3>3
  <2>2. /\ s[1].what = "keys" /\ s[2].what = "offers" /\ s[3].what = "set_base_ots"
        /\ s[4].what = "matrix" /\ s[4].do = b[4].do /\ Len(s) = 5
        /\ \A k \in 1 .. 4 : s[k].do # "begin"
    <3>1. \A k \in 1 .. 4 : s[k].do = b[k].do /\ s[k].what = b[k].what
      BY <1>2, <2>1
    <3>2. \A k \in 1 .. 4 : b[k].do # "begin"
      BY <2>1 DEF Transfer
    <3> QED  BY <1>2, <2>1, <3>1, <3>2
  <2>3. ASSUME NEW k \in 1 .. Len(s)
        PROVE  /\ s[k].do # "begin"
               /\ s[k].what = "set_base_ots" => \E l \in 1 .. k - 1 : s[l].what = "offers"
               /\ s[k].what = "matrix" => \E l \in 1 .. k - 1 : s[l].what = "set_base_ots"
               /\ s[k].what = "encode" => /\ job = "kkrt_ot"
                                          /\ \E l \in 1 .. k - 1 : /\ s[l].what = "matrix"
                                                                   /\ s[l].do = "recv"
    <3>1. k = 1 \/ k = 2 \/ k = 3 \/ k = 4 \/ k = 5
      BY <2>2
    <3>2. CASE k = 1 \/ k = 2
      BY <2>2, <3>2
    <3>3. CASE k = 3
      <4>1. 2 \in 1 .. k - 1
        BY <3>3
      <4> QED  BY <2>2, <3>3, <4>1
    <3>4. CASE k = 4
      <4>1. 3 \in 1 .. k - 1
        BY <3>4
      <4> QED  BY <2>2, <3>4, <4>1
    <3>5. CASE k = 5
      <4>1. 4 \in 1 .. k - 1 /\ s[4].what = "matrix"
        BY <2>2, <3>5
      <4>2. s[5].do = "local" /\ s[5].what = IF job = "kkrt_ot" /\ p = 0 THEN "encode" ELSE "show"
        BY <1>2, <2>1
      <4>3. p = 0 => s[4].do = "recv"
        BY <2>1, <2>2
      <4> QED  BY <3>5, <4>1, <4>2, <4>3
    <3> QED  BY <3>1, <3>2, <3>3, <3>4, <3>5
  <2>4. \A k \in 1 .. Len(s) :
           /\ s[k].do = "begin" => s[k].what \in Jobs /\ k = 1
           /\ s[k].what = "set_base_ots" => \E l \in 1 .. k - 1 : s[l].what = "offers"
           /\ s[k].what = "matrix" => \E l \in 1 .. k - 1 : s[l].what = "set_base_ots"
           /\ s[k].what = "encode" => /\ job = "kkrt_ot"
                                      /\ \E l \in 1 .. k - 1 : /\ s[l].what = "matrix"
                                                               /\ s[l].do = "recv"
    BY <2>3
  <2> QED  BY <1>2, <2>4, OneJobOrderly, SMTT(30)
<1> QED  BY <1>4, <1>5

LEMMA BenchMainOrderly ==
    ASSUME NEW case, NEW p \in Party, NEW n \in Nat
    PROVE  Orderly(BenchMain(case, p, n))
<1>1. CASE case = "all"
  <2>1. PICK a, b, c, d, e : /\ a = Bench("np_ot", p, n) /\ b = Bench("iknp_ot", p, n)
                             /\ c = Bench("kkrt_ot", p, n) /\ d = a \o b /\ e = d \o c
    OBVIOUS
  <2>2. "np_ot" \in Jobs /\ "iknp_ot" \in Jobs /\ "kkrt_ot" \in Jobs
    BY DEF Jobs
  <2>3. /\ Orderly(a) /\ Len(a) > 0 /\ a[Len(a)].job = "np_ot"
        /\ Orderly(b) /\ Len(b) > 0 /\ b[1].job = "iknp_ot" /\ b[Len(b)].job = "iknp_ot"
        /\ Orderly(c) /\ Len(c) > 0 /\ c[1].job = "kkrt_ot"
    BY <2>1, <2>2, BenchOrderly
  <2>4. Orderly(d) /\ Len(d) = Len(a) + Len(b) /\ d[Len(d)] = b[Len(b)]
    <3>1. /\ a[Len(a)].job # b[1].job
          /\ Orderly(a) /\ Orderly(b) /\ Len(a) > 0 /\ Len(b) > 0 /\ d = a \o b
      BY <2>1, <2>3
    <3> HIDE DEF Orderly
    <3> QED  BY <3>1, OrderlyConcat
  <2>5. Len(d) > 0
    BY <2>3, <2>4 DEF Orderly
  <2>6. Orderly(e)
    <3>1. d[Len(d)].job # c[1].job
      BY <2>3, <2>4
    <3> QED  BY <2>1, <2>3, <2>4, <2>5, <3>1, OrderlyConcat
  <2> QED  BY <1>1, <2>1, <2>6 DEF BenchMain
<1>2. CASE case # "all" /\ case \in Jobs
  <2>1. PICK s : s = Bench(case, p, n)
    OBVIOUS
  <2>2. Orderly(s)
    BY <1>2, <2>1, BenchOrderly
  <2> QED  BY <1>2, <2>1, <2>2 DEF BenchMain
<1>3. CASE case # "all" /\ case \notin Jobs
  BY <1>3 DEF BenchMain, Orderly
<1> QED  BY <1>1, <1>2, <1>3

-----------------------------------------------------------------------------
(* Types.                                                                  *)

LEMMA ScriptTypes ==
    ASSUME NEW p \in Party
    PROVE  /\ \A job \in Jobs : Example(job, p) \in Seq(Operation)
           /\ \A case : \A n \in Nat : BenchMain(case, p, n) \in Seq(Operation)
<1>1. p = 0 \/ p = 1
  BY DEF Party
<1>2. Ops(Jobs) = Operation
  BY DEF Ops, Operation
<1> QED  BY <1>1, <1>2, ExamplePaired, BenchMainPaired DEF Paired

LEMMA HoldingType ==
    ASSUME NEW h \in Holdings, NEW op \in Operation
    PROVE  Holding(h, op) \in Holdings
<1> USE SizesAssumption
<1>1. BaseOtSizes(op.job) \in Nat
  BY DEF BaseOtSizes
<1>2. Pad(ExtOts) \in Nat
  BY DEF Pad
<1>3. h.prng + h.base \in Nat
  BY DEF Holdings
<1>4. /\ Nothing \in Holdings
      /\ [h EXCEPT !.base = BaseOtSizes(op.job)] \in Holdings
      /\ [h EXCEPT !.prng = h.prng + h.base] \in Holdings
      /\ [h EXCEPT !.q_mat = Pad(ExtOts)] \in Holdings
  BY <1>1, <1>2, <1>3 DEF Nothing, Holdings
<1> QED  BY <1>4, Zenon DEF Holding

\* An exception leads to the first place of another job, or to the end.
LEMMA AfterJobPlace ==
    ASSUME TypeOK, NEW p \in Party
    PROVE  /\ AfterJob(p) \in pc[p] .. Len(script[p]) + 1
           /\ \A k \in pc[p] .. AfterJob(p) - 1 : /\ k \in 1 .. Len(script[p])
                                                 /\ script[p][k].job = Present(p).job
           /\ AfterJob(p) <= Len(script[p]) => script[p][AfterJob(p)].job # Present(p).job
<1> DEFINE S == {k \in pc[p] .. Len(script[p]) + 1 :
                    k = Len(script[p]) + 1 \/ script[p][k].job # Present(p).job}
<1>1. /\ pc[p] \in Nat /\ Len(script[p]) \in Nat
      /\ pc[p] \in 1 .. Len(script[p]) + 1
  BY DEF TypeOK
<1>2. S \subseteq Nat /\ Len(script[p]) + 1 \in S
  BY <1>1
<1> HIDE DEF S
<1>3. PICK k \in S : \A l \in S : ~(<<l, k>> \in OpToRel(<, Nat))
  BY <1>2, NatLessThanWellFounded, WFMin
<1>4. ASSUME NEW l \in S PROVE k <= l
  <2>1. SUFFICES ASSUME l < k PROVE FALSE
    BY <1>2
  <2>2. <<l, k>> \in OpToRel(<, Nat)
    BY <1>2, <2>1 DEF OpToRel
  <2> QED  BY <1>3, <2>2
<1>5. AfterJob(p) \in S /\ \A l \in S : AfterJob(p) <= l
  BY <1>4 DEF AfterJob, S
<1>6. PICK a : a = AfterJob(p)
  OBVIOUS
<1>7. a \in pc[p] .. Len(script[p]) + 1 /\ a \in Nat
  BY <1>1, <1>5, <1>6 DEF S
<1>8. ASSUME NEW l \in pc[p] .. a - 1
      PROVE  l \in 1 .. Len(script[p]) /\ script[p][l].job = Present(p).job
  <2>1. l \in pc[p] .. Len(script[p]) + 1 /\ l \in 1 .. Len(script[p]) /\ l < a
    BY <1>1, <1>7
  <2>2. l \notin S
    BY <1>5, <1>6, <1>7, <2>1
  <2> QED  BY <2>1, <2>2 DEF S
<1>9. a <= Len(script[p]) => script[p][a].job # Present(p).job
  BY <1>1, <1>5, <1>6, <1>7 DEF S
<1> QED  BY <1>6, <1>7, <1>8, <1>9

\* What a step of a party leaves of the types: the command lines and scripts are
\* as they were.
Located ==
    /\ pc' \in [Party -> Nat] /\ moved' \in [Party -> Nat]
    /\ reached' \in [Party -> Seq(Place)] /\ held' \in [Party -> Holdings]
    /\ \A q \in Party : /\ pc'[q] \in 1 .. Len(script[q]) + 1
                        /\ Len(reached'[q]) = pc'[q]
                        /\ moved'[q] > 0 => /\ pc'[q] <= Len(script[q])
                                            /\ moved'[q] < script[q][pc'[q]].bytes

Balanced ==
    /\ sent' \in [Party -> Nat] /\ got' \in [Party -> Nat]
    /\ \A q \in Party : sent'[q] - got'[Other(q)] \in 0 .. Capacity

\* What a completed operation leaves.
LEMMA CompleteType ==
    ASSUME TypeOK, NEW p \in Party, ~Idle(p), Complete(p), UNCHANGED script,
           sent' \in [Party -> Nat], got' \in [Party -> Nat]
    PROVE  /\ Located
           /\ pc' = [pc EXCEPT ![p] = @ + 1]
           /\ reached' = [reached EXCEPT ![p] = Append(@, [sent |-> sent'[p], got |-> got'[p]])]
<1> DEFINE now == [sent |-> sent'[p], got |-> got'[p]]
<1>1. now \in Place /\ reached[p] \in Seq(Place) /\ Len(reached[p]) = pc[p]
  BY DEF TypeOK, Place
<1>2. pc[p] \in Nat /\ Len(script[p]) \in Nat /\ pc[p] \in 1 .. Len(script[p])
  BY DEF TypeOK, Idle
<1>3. Present(p) \in Operation
  BY <1>2 DEF TypeOK, Present
<1>4. Holding(held[p], Present(p)) \in Holdings
  BY <1>3, HoldingType DEF TypeOK
<1>5. Append(reached[p], now) \in Seq(Place) /\ Len(Append(reached[p], now)) = pc[p] + 1
  BY <1>1, AppendProperties
<1>6. /\ pc' = [pc EXCEPT ![p] = @ + 1]
      /\ moved' = [moved EXCEPT ![p] = 0]
      /\ reached' = [reached EXCEPT ![p] = Append(reached[p], now)]
      /\ held' = [held EXCEPT ![p] = Holding(held[p], Present(p))]
  BY DEF Complete, TypeOK
<1> HIDE DEF now
<1>7. /\ pc' \in [Party -> Nat] /\ moved' \in [Party -> Nat]
      /\ reached' \in [Party -> Seq(Place)] /\ held' \in [Party -> Holdings]
  BY <1>2, <1>4, <1>5, <1>6 DEF TypeOK
<1>8. ASSUME NEW q \in Party
      PROVE  /\ pc'[q] \in 1 .. Len(script[q]) + 1
             /\ Len(reached'[q]) = pc'[q]
             /\ moved'[q] > 0 => /\ pc'[q] <= Len(script[q])
                                 /\ moved'[q] < script[q][pc'[q]].bytes
  <2>1. CASE q = p
    BY <1>2, <1>5, <1>6, <2>1 DEF TypeOK
  <2>2. CASE q # p
    <3>1. pc'[q] = pc[q] /\ reached'[q] = reached[q] /\ moved'[q] = moved[q]
      BY <1>6, <2>2 DEF TypeOK
    <3>2. pc[q] \in Nat /\ Len(script[q]) \in Nat
      BY DEF TypeOK
    <3>3. /\ pc[q] \in 1 .. Len(script[q]) + 1 /\ Len(reached[q]) = pc[q]
          /\ moved[q] > 0 => ~Idle(q) /\ moved[q] < Present(q).bytes
      BY DEF TypeOK
    <3> QED  BY <3>1, <3>2, <3>3 DEF Idle, Present
  <2> QED  BY <2>1, <2>2
<1> QED  BY <1>6, <1>7, <1>8 DEF now, Located

\* The same of a transfer that goes on or completes.
LEMMA ProgressType ==
    ASSUME TypeOK, NEW p \in Party, ~Idle(p), UNCHANGED script,
           NEW n \in Nat, moved[p] + n <= Present(p).bytes, Progress(p, n),
           sent' \in [Party -> Nat], got' \in [Party -> Nat]
    PROVE  Located
<1>1. CASE moved[p] + n = Present(p).bytes
  <2>1. Complete(p)
    BY <1>1 DEF Progress
  <2> QED  BY <2>1, CompleteType
<1>2. CASE moved[p] + n # Present(p).bytes
  <2>1. moved' = [moved EXCEPT ![p] = @ + n] /\ UNCHANGED <<pc, reached, held>>
    BY <1>2 DEF Progress
  <2>2. pc[p] \in Nat /\ Len(script[p]) \in Nat /\ pc[p] \in 1 .. Len(script[p])
    BY DEF TypeOK, Idle
  <2>3. Present(p) \in Operation /\ moved[p] \in Nat
    BY <2>2 DEF TypeOK, Present
  <2>4. moved'[p] < script[p][pc[p]].bytes /\ moved'[p] \in Nat
    <3>1. Present(p).bytes \in Nat
      BY <2>3 DEF Operation
    <3>2. moved'[p] = moved[p] + n
      BY <2>1 DEF TypeOK
    <3> QED  BY <1>2, <2>3, <3>1, <3>2 DEF Present
  <2>5. moved' \in [Party -> Nat]
    BY <2>1, <2>3 DEF TypeOK
  <2>6. ASSUME NEW q \in Party
        PROVE  moved'[q] > 0 => /\ pc'[q] <= Len(script[q])
                                /\ moved'[q] < script[q][pc'[q]].bytes
    <3>1. CASE q = p
      BY <2>1, <2>2, <2>4, <3>1
    <3>2. CASE q # p
      <4>1. moved'[q] = moved[q] /\ pc'[q] = pc[q]
        BY <2>1, <3>2 DEF TypeOK
      <4>2. pc[q] \in Nat /\ Len(script[q]) \in Nat
        BY DEF TypeOK
      <4>3. moved[q] > 0 => ~Idle(q) /\ moved[q] < Present(q).bytes
        BY DEF TypeOK
      <4> QED  BY <4>1, <4>2, <4>3 DEF Idle, Present
    <3> QED  BY <3>1, <3>2
  <2> QED  BY <2>1, <2>5, <2>6 DEF TypeOK, Located
<1> QED  BY <1>1, <1>2

\* A new connection.
LEMMA ConnectType ==
    ASSUME TypeOK, NEW scripts \in [Party -> Seq(Operation)], Connect(scripts),
           command' \in [Party -> CommandLine]
    PROVE  TypeOK'
<1>1. 0 \in Party /\ 1 \in Party /\ \A p \in Party : Other(p) \in Party
  BY DEF Party, Other
<1>2. <<Fresh>> \in Seq(Place) /\ Len(<<Fresh>>) = 1
  BY DEF Fresh, Place
<1>3. Nothing \in Holdings
  BY DEF Nothing, Holdings
<1>4. /\ script' \in [Party -> Seq(Operation)]
      /\ pc' = [p \in Party |-> 1]
      /\ moved' = Zero /\ sent' = Zero /\ got' = Zero
      /\ reached' = [p \in Party |-> <<Fresh>>]
      /\ held' = [p \in Party |-> Nothing]
      /\ throws' = throws /\ round' = round + 1
  BY DEF Connect
<1>5. /\ round' \in Nat /\ throws' \in Nat /\ pc' \in [Party -> Nat]
      /\ moved' \in [Party -> Nat] /\ sent' \in [Party -> Nat] /\ got' \in [Party -> Nat]
      /\ reached' \in [Party -> Seq(Place)] /\ held' \in [Party -> Holdings]
  BY <1>2, <1>3, <1>4 DEF TypeOK, Zero
<1>6. ASSUME NEW p \in Party
      PROVE  /\ pc'[p] \in 1 .. Len(script'[p]) + 1
             /\ Len(reached'[p]) = pc'[p]
             /\ moved'[p] = 0
             /\ sent'[p] - got'[Other(p)] \in 0 .. Capacity
  <2>1. Len(script'[p]) \in Nat
    BY <1>4
  <2> QED  BY <1>1, <1>2, <1>4, <2>1, SizesAssumption DEF Zero
<1> QED  BY <1>4, <1>5, <1>6 DEF TypeOK, InFlight

LEMMA MoveType ==
    ASSUME TypeOK, command' = command, round' = round, script' = script, throws' \in Nat,
           Located, Balanced
    PROVE  TypeOK'
<1>1. ASSUME NEW q \in Party
      PROVE  /\ pc'[q] \in 1 .. Len(script'[q]) + 1
             /\ Len(reached'[q]) = pc'[q]
             /\ moved'[q] > 0 => ~(pc'[q] > Len(script'[q])) /\ moved'[q] < script'[q][pc'[q]].bytes
             /\ sent'[q] - got'[Other(q)] \in 0 .. Capacity
  <2>1. Len(script[q]) \in Nat /\ pc'[q] \in Nat
    BY DEF TypeOK, Located
  <2>2. /\ pc'[q] \in 1 .. Len(script[q]) + 1 /\ Len(reached'[q]) = pc'[q]
        /\ moved'[q] > 0 => /\ pc'[q] <= Len(script[q])
                            /\ moved'[q] < script[q][pc'[q]].bytes
    BY Zenon DEF Located
  <2>3. sent'[q] - got'[Other(q)] \in 0 .. Capacity
    BY DEF Balanced
  <2> QED  BY <2>1, <2>2, <2>3
<1> QED  BY <1>1 DEF TypeOK, InFlight, Idle, Present, Located, Balanced

LEMMA SendDataType == ASSUME TypeOK, NEW p \in Party, SendData(p) PROVE TypeOK'
<1>1. PICK n \in 1 .. Least(Present(p).bytes - moved[p], Capacity - InFlight(p)) :
          /\ sent' = [sent EXCEPT ![p] = @ + n]
          /\ got' = got
          /\ Progress(p, n)
  BY DEF SendData, Room
<1>2. /\ Other(p) \in Party /\ Other(p) # p /\ Other(Other(p)) = p
      /\ \A q \in Party : q = p \/ q = Other(p)
  BY DEF Party, Other
<1>3. /\ ~Idle(p) /\ UNCHANGED <<command, round, script, throws>>
      /\ pc[p] \in 1 .. Len(script[p]) /\ Present(p) \in Operation
  BY DEF SendData, TypeOK, Idle, Present
<1>4. /\ Present(p).bytes \in Nat /\ moved[p] \in Nat /\ Capacity \in Nat
      /\ InFlight(p) \in 0 .. Capacity /\ sent[p] \in Nat
  BY <1>3, SizesAssumption DEF TypeOK, Operation
<1>5. n \in Nat /\ moved[p] + n <= Present(p).bytes /\ n <= Capacity - InFlight(p)
  BY <1>4 DEF Least
<1>6. sent' \in [Party -> Nat] /\ got' \in [Party -> Nat]
  BY <1>1, <1>4, <1>5, SMTT(30) DEF TypeOK
<1>7. ASSUME NEW q \in Party PROVE sent'[q] - got'[Other(q)] \in 0 .. Capacity
  <2>1. InFlight(q) \in 0 .. Capacity /\ sent[q] \in Nat /\ got[Other(q)] \in Nat
    BY <1>2 DEF TypeOK
  <2>2. CASE q = p
    <3>1. sent'[q] = sent[q] + n /\ got'[Other(q)] = got[Other(q)]
      BY <1>1, <2>2 DEF TypeOK
    <3> QED  BY <1>4, <1>5, <2>1, <2>2, <3>1 DEF InFlight
  <2>3. CASE q # p
    BY <1>1, <2>1, <2>3 DEF TypeOK, InFlight
  <2> QED  BY <2>2, <2>3
<1>8. Located
  BY <1>1, <1>3, <1>5, <1>6, ProgressType
<1>9. Balanced /\ throws' \in Nat
  BY <1>3, <1>6, <1>7 DEF TypeOK, Balanced
<1> QED  BY <1>3, <1>8, <1>9, MoveType

LEMMA RecvDataType == ASSUME TypeOK, NEW p \in Party, RecvData(p) PROVE TypeOK'
<1>1. PICK n \in 1 .. Least(Present(p).bytes - moved[p], InFlight(Other(p))) :
          /\ got' = [got EXCEPT ![p] = @ + n]
          /\ sent' = sent
          /\ Progress(p, n)
  BY DEF RecvData, Ready
<1>2. /\ Other(p) \in Party /\ Other(p) # p /\ Other(Other(p)) = p
      /\ \A q \in Party : q = p \/ q = Other(p)
  BY DEF Party, Other
<1>3. /\ ~Idle(p) /\ UNCHANGED <<command, round, script, throws>>
      /\ pc[p] \in 1 .. Len(script[p]) /\ Present(p) \in Operation
  BY DEF RecvData, TypeOK, Idle, Present
<1>4. /\ Present(p).bytes \in Nat /\ moved[p] \in Nat /\ Capacity \in Nat
      /\ InFlight(Other(p)) \in 0 .. Capacity /\ got[p] \in Nat
  BY <1>2, <1>3, SizesAssumption DEF TypeOK, Operation
<1>5. n \in Nat /\ moved[p] + n <= Present(p).bytes /\ n <= InFlight(Other(p))
  BY <1>4 DEF Least
<1>6. sent' \in [Party -> Nat] /\ got' \in [Party -> Nat]
  BY <1>1, <1>4, <1>5, SMTT(30) DEF TypeOK
<1>7. ASSUME NEW q \in Party PROVE sent'[q] - got'[Other(q)] \in 0 .. Capacity
  <2>1. InFlight(q) \in 0 .. Capacity /\ sent[q] \in Nat /\ got[Other(q)] \in Nat
    BY <1>2 DEF TypeOK
  <2>2. CASE q = Other(p)
    <3>1. sent'[q] = sent[q] /\ got'[Other(q)] = got[Other(q)] + n
      BY <1>1, <1>2, <2>2 DEF TypeOK
    <3> QED  BY <1>4, <1>5, <2>1, <2>2, <3>1 DEF InFlight
  <2>3. CASE q = p
    <3>1. sent'[q] = sent[q] /\ got'[Other(q)] = got[Other(q)]
      BY <1>1, <1>2, <2>3 DEF TypeOK
    <3> QED  BY <2>1, <3>1 DEF InFlight
  <2> QED  BY <1>2, <2>2, <2>3
<1>8. Located
  BY <1>1, <1>3, <1>5, <1>6, ProgressType
<1>9. Balanced /\ throws' \in Nat
  BY <1>3, <1>6, <1>7 DEF TypeOK, Balanced
<1> QED  BY <1>3, <1>8, <1>9, MoveType

LEMMA RunLocalType == ASSUME TypeOK, NEW p \in Party, RunLocal(p) PROVE TypeOK'
<1>1. /\ ~Idle(p) /\ Complete(p) /\ UNCHANGED <<command, round, script, throws, sent, got>>
  BY DEF RunLocal
<1>2. \A q \in Party : Other(q) \in Party
  BY DEF Party, Other
<1>3. Balanced /\ throws' \in Nat /\ sent' \in [Party -> Nat] /\ got' \in [Party -> Nat]
  BY <1>1 DEF TypeOK, InFlight, Balanced
<1>4. Located
  BY <1>1, <1>3, CompleteType
<1> QED  BY <1>1, <1>3, <1>4, MoveType

LEMMA ThrowType == ASSUME TypeOK, NEW p \in Party, Throw(p) PROVE TypeOK'
<1> DEFINE a == AfterJob(p)
           r == [k \in 1 .. a |-> IF k \in DOMAIN reached[p] THEN reached[p][k] ELSE Counts(p)]
<1>1. /\ ~Idle(p) /\ moved[p] = 0 /\ throws' = throws + 1
      /\ pc' = [pc EXCEPT ![p] = a] /\ reached' = [reached EXCEPT ![p] = r]
      /\ UNCHANGED <<command, round, script, moved, sent, got, held>>
  BY DEF Throw, TypeOK
<1>2. a \in pc[p] .. Len(script[p]) + 1 /\ pc[p] \in Nat \ {0} /\ Len(script[p]) \in Nat
  BY AfterJobPlace, SMTT(30) DEF TypeOK
<1>3. Counts(p) \in Place /\ reached[p] \in Seq(Place)
  BY DEF TypeOK, Counts, Place
<1> HIDE DEF a
<1>4. a \in Nat /\ r \in [1 .. a -> Place]
  BY <1>2, <1>3
<1>5. r \in Seq(Place) /\ Len(r) = a
  BY <1>4
<1> HIDE DEF r
<1>6. /\ pc' \in [Party -> Nat] /\ reached' \in [Party -> Seq(Place)]
      /\ moved' \in [Party -> Nat] /\ held' \in [Party -> Holdings] /\ throws' \in Nat
      /\ sent' \in [Party -> Nat] /\ got' \in [Party -> Nat]
  BY <1>1, <1>4, <1>5 DEF TypeOK
<1>7. ASSUME NEW q \in Party
      PROVE  /\ pc'[q] \in 1 .. Len(script[q]) + 1
             /\ Len(reached'[q]) = pc'[q]
             /\ moved'[q] > 0 => /\ pc'[q] <= Len(script[q])
                                 /\ moved'[q] < script[q][pc'[q]].bytes
             /\ sent'[q] - got'[Other(q)] \in 0 .. Capacity
  <2>1. /\ pc[q] \in Nat /\ Len(script[q]) \in Nat
        /\ pc[q] \in 1 .. Len(script[q]) + 1 /\ Len(reached[q]) = pc[q]
        /\ moved[q] > 0 => ~Idle(q) /\ moved[q] < Present(q).bytes
        /\ InFlight(q) \in 0 .. Capacity
    BY DEF TypeOK
  <2>2. CASE q = p
    BY <1>1, <1>2, <1>5, <2>1, <2>2 DEF TypeOK, InFlight
  <2>3. CASE q # p
    <3>1. pc'[q] = pc[q] /\ reached'[q] = reached[q] /\ moved'[q] = moved[q]
      BY <1>1, <2>3 DEF TypeOK
    <3> QED  BY <1>1, <2>1, <3>1 DEF Idle, Present, InFlight
  <2> QED  BY <2>2, <2>3
<1>8. Located /\ Balanced
  BY <1>6, <1>7 DEF Located, Balanced
<1> QED  BY <1>1, <1>6, <1>8, MoveType

LEMMA InitType == Init => TypeOK
<1> SUFFICES ASSUME Init PROVE TypeOK
  OBVIOUS
<1>1. \A p \in Party : Other(p) \in Party
  BY DEF Party, Other
<1>2. <<Fresh>> \in Seq(Place) /\ Len(<<Fresh>>) = 1 /\ Nothing \in Holdings
  BY DEF Fresh, Place, Nothing, Holdings
<1>3. command \in [Party -> CommandLine]
  BY CommandsAssumption DEF Init
<1>4. script \in [Party -> Seq(Operation)] /\ \A p \in Party : Len(script[p]) = 0
  BY DEF Init
<1>5. /\ pc = [p \in Party |-> 1] /\ moved = Zero /\ sent = Zero /\ got = Zero
      /\ reached = [p \in Party |-> <<Fresh>>] /\ held = [p \in Party |-> Nothing]
      /\ round = 0 /\ throws = 0
  BY DEF Init
<1>6. Capacity \in Nat
  BY SizesAssumption
<1> QED  BY <1>1, <1>2, <1>3, <1>4, <1>5, <1>6 DEF TypeOK, Zero, InFlight

LEMMA StepType == TypeOK /\ [Next]_vars => TypeOK'
<1> SUFFICES ASSUME TypeOK, [Next]_vars PROVE TypeOK'
  OBVIOUS
<1>1. CASE BenchConnect
  <2>1. /\ Connect([p \in Party |-> BenchMain(command[p].case, p, command[p].number)])
        /\ command' = command
    BY <1>1 DEF BenchConnect
  <2>2. \A p \in Party : command[p].number \in Nat
    BY DEF TypeOK, CommandLine
  <2>3. [p \in Party |-> BenchMain(command[p].case, p, command[p].number)]
            \in [Party -> Seq(Operation)]
    BY <2>2, ScriptTypes
  <2> QED  BY <2>1, <2>3, ConnectType DEF TypeOK
<1>2. CASE ExampleConnect
  <2>1. PICK selection \in [Party -> Jobs] :
            /\ command' = [p \in Party |-> [command[p] EXCEPT !.case = selection[p]]]
            /\ Connect([p \in Party |-> Example(selection[p], p)])
    BY <1>2 DEF ExampleConnect
  <2>2. [p \in Party |-> Example(selection[p], p)] \in [Party -> Seq(Operation)]
    BY ScriptTypes
  <2>3. Jobs \subseteq Cases
    BY DEF Cases
  <2>4. \A p \in Party : command[p] \in CommandLine /\ selection[p] \in Cases
    BY <2>3 DEF TypeOK
  <2>5. \A p \in Party : [command[p] EXCEPT !.case = selection[p]] \in CommandLine
    BY <2>4 DEF CommandLine
  <2> QED  BY <2>1, <2>2, <2>5, ConnectType
<1>3. ASSUME NEW p \in Party, Step(p) \/ Throw(p) PROVE TypeOK'
  BY <1>3, SendDataType, RecvDataType, RunLocalType, ThrowType DEF Step
<1>4. CASE UNCHANGED vars
  BY <1>4 DEF TypeOK, vars, Idle, Present, InFlight
<1> QED  BY <1>1, <1>2, <1>3, <1>4 DEF Next

\* Every variable keeps its type, no party leaves its script, and no more is in
\* flight than the connection holds.
THEOREM TypeCorrectness == Spec => []TypeOK
<1>1. Init => TypeOK
  BY InitType
<1>2. TypeOK /\ [Next]_vars => TypeOK'
  BY StepType
<1> QED  BY <1>1, <1>2, PTL DEF Spec

-----------------------------------------------------------------------------
(* The two parties' places.                                                *)

\* What the operation at place k of a script adds to the counts.
Share(p, k, do) == IF script[p][k].do = do THEN script[p][k].bytes ELSE 0

\* What the present operation has added so far.
Part(p, do) == IF ~Idle(p) /\ Present(p).do = do THEN moved[p] ELSE 0

\* ran[p] is the place until which party p has run its script.  Only a party at
\* the end is further: by the last operation, or because an exception left out
\* the places in between.
Left(p, ran) ==
    /\ ran[p] \in 1 .. pc[p]
    /\ ran[p] > 1 => ran[p] <= Len(script[p])
    /\ ran[p] < pc[p] => Idle(p) /\ (throws = 0 => ran[p] = pc[p] - 1)
    /\ \A k \in ran[p] .. pc[p] : reached[p][k] = reached[p][ran[p]]

Stepwise(p, ran) ==
    \A k \in 1 .. ran[p] - 1 :
        /\ reached[p][k + 1].sent = reached[p][k].sent + Share(p, k, "send")
        /\ reached[p][k + 1].got = reached[p][k].got + Share(p, k, "recv")

Counted(p, ran) ==
    /\ sent[p] = reached[p][ran[p]].sent + Part(p, "send")
    /\ got[p] = reached[p][ran[p]].got + Part(p, "recv")
    /\ \A k \in 1 .. ran[p] : reached[p][k].sent <= sent[p]

\* At a place where both have been, one had sent what the other had received.
Crossed(p, ran) ==
    \A k \in 1 .. Least(ran[p], ran[Other(p)]) : reached[p][k].sent = reached[Other(p)][k].got

\* A party that is ahead has received nothing since.
Ahead(p, ran) ==
    /\ \A k \in ran[Other(p)] .. ran[p] - 1 : script[p][k].do # "recv"
    /\ \A k \in ran[Other(p)] .. ran[p] : reached[p][k].got = reached[p][ran[Other(p)]].got

Together(p, ran) ==
    Left(p, ran) /\ Stepwise(p, ran) /\ Counted(p, ran) /\ Crossed(p, ran) /\ Ahead(p, ran)

InStep == \E ran \in [Party -> Nat] : \A p \in Party : Together(p, ran)

\* Both run one and the same protocol, any number of times.
OneCase == command[0].case = command[1].case /\ command[0].case # "all"

Twin == OneCase \/ (Agreed /\ throws = 0) =>
            /\ Alike(script[0], script[1])
            /\ OneCase => OneJob(script[0]) /\ OneJob(script[1])
            /\ Agreed => Paired(Jobs, script[0], script[1])
            /\ InStep

LEMMA Parties ==
    ASSUME NEW p \in Party
    PROVE  /\ Other(p) \in Party /\ Other(p) # p /\ Other(Other(p)) = p
           /\ \A q \in Party : q = p \/ q = Other(p)
BY DEF Party, Other

\* Either party's script mirrors the other one's.
LEMMA AlikeParty ==
    ASSUME Alike(script[0], script[1]), NEW p \in Party
    PROVE  Alike(script[p], script[Other(p)])
<1>1. CASE p = 0
  BY <1>1 DEF Other
<1>2. CASE p = 1
  BY <1>2, AlikeConverse DEF Other
<1> QED  BY <1>1, <1>2 DEF Party

\* The opposite ends of a place.
LEMMA Opposite ==
    ASSUME TypeOK, Alike(script[0], script[1]), NEW p \in Party, NEW k \in Nat,
           k \in 1 .. Len(script[p]) - 1, k \in 1 .. Len(script[Other(p)]) - 1
    PROVE  /\ Share(p, k, "send") = Share(Other(p), k, "recv")
           /\ Share(p, k, "recv") = Share(Other(p), k, "send")
           /\ Share(p, k, "send") \in Nat /\ Share(p, k, "recv") \in Nat
           /\ script[p][k].do = "recv" => /\ script[Other(p)][k].do = "send"
                                          /\ script[Other(p)][k].bytes = script[p][k].bytes
                                          /\ script[p][k].bytes > 0
           /\ script[Other(p)][k].do = "send" => script[p][k].do = "recv"
<1>1. Alike(script[p], script[Other(p)])
  BY AlikeParty
<1> DEFINE a == script[p][k]
           b == script[Other(p)][k]
<1>2. a \in Ops(Jobs) /\ b \in Ops(Jobs) /\ Mirrors(a, b)
  <2>1. script[p] \in Seq(Ops(Jobs)) /\ script[Other(p)] \in Seq(Ops(Jobs)) /\ Mirrors(a, b)
    BY <1>1 DEF Alike, Closed
  <2>2. k \in 1 .. Len(script[p]) /\ k \in 1 .. Len(script[Other(p)])
    BY <2>1
  <2> QED  BY <2>1, <2>2
<1> HIDE DEF a, b
<1>3. /\ a.do \in Transfer <=> b.do \in Transfer
      /\ a.do \in Transfer => a.do # b.do /\ a.bytes = b.bytes /\ a.bytes > 0
      /\ a.bytes \in Nat /\ b.bytes \in Nat
  BY <1>2 DEF Mirrors, Ops
<1>4. /\ Share(p, k, "send") = IF a.do = "send" THEN a.bytes ELSE 0
      /\ Share(p, k, "recv") = IF a.do = "recv" THEN a.bytes ELSE 0
      /\ Share(Other(p), k, "send") = IF b.do = "send" THEN b.bytes ELSE 0
      /\ Share(Other(p), k, "recv") = IF b.do = "recv" THEN b.bytes ELSE 0
  BY DEF Share, a, b
<1>5. /\ a.do = "recv" <=> b.do = "send"
      /\ a.do = "send" <=> b.do = "recv"
  BY <1>3 DEF Transfer
<1>6. /\ a.do = "recv" => a.bytes = b.bytes /\ a.bytes > 0
      /\ a.do = "send" => a.bytes = b.bytes
  BY <1>3 DEF Transfer
<1>7. /\ Share(p, k, "send") = Share(Other(p), k, "recv")
      /\ Share(p, k, "recv") = Share(Other(p), k, "send")
      /\ Share(p, k, "send") \in Nat /\ Share(p, k, "recv") \in Nat
  BY <1>3, <1>4, <1>5, <1>6
<1> QED  BY <1>5, <1>6, <1>7 DEF a, b

\* A party that is not at the end has run its script until its place; a transfer
\* is not the last operation.
LEMMA RanUntil ==
    ASSUME TypeOK, Alike(script[0], script[1]), NEW ran \in [Party -> Nat],
           NEW p \in Party, Together(p, ran), ~Idle(p)
    PROVE  /\ ran[p] = pc[p] /\ pc[p] \in 1 .. Len(script[p])
           /\ Len(script[p]) \in Nat /\ pc[p] \in Nat
           /\ Present(p).do \in Transfer => pc[p] < Len(script[p]) /\ Present(p).bytes > 0
<1>1. ran[p] = pc[p]
  BY DEF Together, Left, TypeOK
<1>2. pc[p] \in Nat /\ Len(script[p]) \in Nat /\ pc[p] \in 1 .. Len(script[p])
  <2>1. pc[p] \in Nat /\ Len(script[p]) \in Nat /\ pc[p] \in 1 .. Len(script[p]) + 1
    BY DEF TypeOK
  <2> QED  BY <2>1 DEF Idle
<1>3. Closed(script[p])
  BY DEF Alike, Party
<1> QED  BY <1>1, <1>2, <1>3 DEF Closed, Present

LEMMA RanBounds ==
    ASSUME TypeOK, NEW ran \in [Party -> Nat], NEW p \in Party, Together(p, ran)
    PROVE  /\ ran[p] \in Nat /\ ran[p] >= 1 /\ ran[p] <= pc[p]
           /\ pc[p] \in Nat /\ Len(script[p]) \in Nat /\ pc[p] <= Len(script[p]) + 1
           /\ ran[p] > 1 => ran[p] <= Len(script[p])
           /\ \A k \in 1 .. pc[p] : /\ reached[p][k] \in Place
                                    /\ reached[p][k].sent \in Nat /\ reached[p][k].got \in Nat
<1>1. /\ pc[p] \in Nat /\ Len(script[p]) \in Nat /\ pc[p] \in 1 .. Len(script[p]) + 1
      /\ reached[p] \in Seq(Place) /\ Len(reached[p]) = pc[p]
  BY DEF TypeOK
<1>2. ran[p] \in 1 .. pc[p] /\ (ran[p] > 1 => ran[p] <= Len(script[p]))
  BY DEF Together, Left
<1>3. \A k \in 1 .. pc[p] : reached[p][k] \in Place
  BY <1>1
<1> QED  BY <1>1, <1>2, <1>3 DEF Place

\* A party that completes a receive is behind the other one.
LEMMA ReceiverBehind ==
    ASSUME TypeOK, Alike(script[0], script[1]), NEW ran \in [Party -> Nat],
           \A q \in Party : Together(q, ran),
           NEW p \in Party, ~Idle(p), Present(p).do = "recv",
           NEW n \in Nat, n <= InFlight(Other(p)), moved[p] + n = Present(p).bytes
    PROVE  ran[p] < ran[Other(p)]
<1> DEFINE q == Other(p)
           j == ran[p]
           m == ran[q]
<1>1. q \in Party /\ Other(q) = p /\ Together(p, ran) /\ Together(q, ran)
  BY Parties
<1>2. /\ j = pc[p] /\ j \in Nat /\ j \in 1 .. Len(script[p]) - 1 /\ Len(script[p]) \in Nat
      /\ script[p][j].do = "recv" /\ Present(p).bytes = script[p][j].bytes
      /\ script[p][j].bytes > 0
  <2>1. Present(p).do \in Transfer
    BY DEF Transfer
  <2> QED  BY <1>1, <2>1, RanUntil DEF Present
<1>3. /\ m \in Nat /\ m >= 1 /\ m <= pc[q] /\ Len(script[q]) \in Nat
      /\ reached[q][m].sent \in Nat
  BY <1>1, RanBounds
<1> SUFFICES ASSUME m <= j PROVE FALSE
  BY <1>2, <1>3
<1>4. sent[q] = reached[q][m].sent + Part(q, "send")
  BY <1>1 DEF Together, Counted
<1>5. reached[q][m].sent = reached[p][m].got
  <2>1. m \in 1 .. Least(m, j)
    BY <1>2, <1>3 DEF Least
  <2> QED  BY <1>1, <2>1 DEF Together, Crossed
<1>6. reached[p][j].got = reached[p][m].got
  <2>1. j \in m .. j
    BY <1>2, <1>3
  <2> QED  BY <1>1, <2>1 DEF Together, Ahead
<1>7. got[p] = reached[p][j].got + moved[p]
  BY <1>1 DEF Together, Counted, Part
<1>8. sent[q] - got[p] >= n
  BY <1>1 DEF InFlight
<1>9. /\ script[p][j].bytes \in Nat /\ moved[p] \in Nat /\ moved[q] \in Nat
      /\ sent[q] \in Nat /\ got[p] \in Nat /\ reached[p][j].got \in Nat
  <2>1. script[p][j] \in Operation
    BY <1>2 DEF TypeOK
  <2>2. reached[p][j].got \in Nat
    BY <1>1, <1>2, RanBounds
  <2> QED  BY <1>1, <2>1, <2>2 DEF TypeOK, Operation
<1>10. Part(q, "send") >= script[p][j].bytes /\ Part(q, "send") \in Nat
  <2>1. Part(q, "send") \in Nat
    BY <1>9 DEF Part
  <2> HIDE DEF q, j, m
  <2>2. n = script[p][j].bytes - moved[p]
    BY <1>2, <1>9
  <2>3. sent[q] = reached[p][j].got + Part(q, "send")
    BY <1>4, <1>5, <1>6
  <2> QED  BY <1>7, <1>8, <1>9, <2>1, <2>2, <2>3
<1>11. ~Idle(q) /\ Present(q).do = "send" /\ moved[q] >= script[p][j].bytes
  BY <1>2, <1>9, <1>10 DEF Part
<1>12. m = pc[q] /\ m \in 1 .. Len(script[q]) - 1 /\ script[q][m].do = "send"
  <2>1. Present(q).do \in Transfer
    BY <1>11 DEF Transfer
  <2> QED  BY <1>1, <1>11, <2>1, RanUntil DEF Present
<1>13. m \in 1 .. Len(script[p]) - 1
  BY <1>2, <1>3
<1>14. CASE m = j
  <2>1. script[q][m].bytes = script[p][j].bytes
    <3>1. script[p][m].do = "recv" /\ script[p][m] = script[p][j]
      BY <1>2, <1>14
    <3>2. script[q][m].bytes = script[p][m].bytes
      BY <1>3, <1>12, <1>13, <3>1, Opposite
    <3> QED  BY <3>1, <3>2
  <2>2. moved[q] < script[q][m].bytes
    <3>1. moved[q] > 0
      BY <1>2, <1>9, <1>11
    <3>2. Present(q) = script[q][m] /\ q \in Party
      BY <1>1, <1>12 DEF Present
    <3>3. \A r \in Party : moved[r] > 0 => moved[r] < Present(r).bytes
      BY DEF TypeOK
    <3> HIDE DEF q, m
    <3> QED  BY <3>1, <3>2, <3>3
  <2> QED  BY <1>9, <1>11, <2>1, <2>2
<1>15. CASE m < j
  <2>1. script[p][m].do # "recv"
    <3>1. m \in m .. j - 1
      BY <1>2, <1>3, <1>15
    <3> QED  BY <1>1, <3>1 DEF Together, Ahead
  <2>2. script[p][m].do = "recv"
    BY <1>3, <1>12, <1>13, Opposite
  <2> QED  BY <2>1, <2>2
<1> QED  BY <1>2, <1>3, <1>14, <1>15

\* The other party of a step stays as it is.
LEMMA OtherKept ==
    ASSUME NEW ran, NEW f, NEW q, f[q] = ran[q], script' = script, throws' = 0 => throws = 0,
           pc'[q] = pc[q], moved'[q] = moved[q], reached'[q] = reached[q],
           sent'[q] = sent[q], got'[q] = got[q],
           Left(q, ran), Stepwise(q, ran), Counted(q, ran)
    PROVE  Left(q, f)' /\ Stepwise(q, f)' /\ Counted(q, f)'
<1>1. Left(q, f)'
  BY DEF Left, Idle
<1>2. Stepwise(q, f)'
  BY DEF Stepwise, Share
<1>3. Part(q, "send")' = Part(q, "send") /\ Part(q, "recv")' = Part(q, "recv")
  BY DEF Part, Idle, Present
<1>4. Counted(q, f)'
  BY <1>3 DEF Counted
<1> QED  BY <1>1, <1>2, <1>4

\* A party comes to the next place.
Came(p) ==
    /\ ~Idle(p) /\ script' = script /\ throws' = throws
    /\ pc'[p] = pc[p] + 1 /\ moved'[p] = 0
    /\ \A k \in 1 .. pc[p] : reached'[p][k] = reached[p][k]
    /\ reached'[p][pc[p] + 1] = [sent |-> sent'[p], got |-> got'[p]]
    /\ sent'[p] = reached[p][pc[p]].sent + Share(p, pc[p], "send")
    /\ got'[p] = reached[p][pc[p]].got + Share(p, pc[p], "recv")
    /\ sent[p] <= sent'[p]

Stayed(q) ==
    /\ pc'[q] = pc[q] /\ moved'[q] = moved[q] /\ reached'[q] = reached[q]
    /\ sent'[q] = sent[q] /\ got'[q] = got[q]

LEMMA CompleteCame ==
    ASSUME TypeOK, NEW p \in Party, ~Idle(p), Complete(p), script' = script, throws' = throws,
           sent'[p] \in Nat, got'[p] \in Nat,
           sent'[p] = reached[p][pc[p]].sent + Share(p, pc[p], "send"),
           got'[p] = reached[p][pc[p]].got + Share(p, pc[p], "recv"),
           sent[p] <= sent'[p],
           sent'[Other(p)] = sent[Other(p)], got'[Other(p)] = got[Other(p)]
    PROVE  Came(p) /\ Stayed(Other(p))
<1> DEFINE q == Other(p)
           now == [sent |-> sent'[p], got |-> got'[p]]
<1>1. q \in Party /\ q # p
  BY Parties
<1>2. pc'[p] = pc[p] + 1 /\ pc'[q] = pc[q] /\ moved'[p] = 0 /\ moved'[q] = moved[q]
  BY <1>1 DEF Complete, TypeOK
<1>3. reached[p] \in Seq(Place) /\ Len(reached[p]) = pc[p] /\ now \in Place /\ pc[p] \in Nat
  BY DEF TypeOK, Place
<1>4. reached' = [reached EXCEPT ![p] = Append(reached[p], now)]
  BY DEF Complete, TypeOK
<1> HIDE DEF now
<1>5. reached'[p] = Append(reached[p], now) /\ reached'[q] = reached[q]
  BY <1>1, <1>4 DEF TypeOK
<1>6. /\ \A k \in 1 .. pc[p] : reached'[p][k] = reached[p][k]
      /\ reached'[p][pc[p] + 1] = now
  BY <1>3, <1>5, AppendProperties
<1> QED  BY <1>2, <1>5, <1>6 DEF now, Came, Stayed

\* The last operation of a script: what it ran until stays.
LEMMA LastInStep ==
    ASSUME TypeOK, TypeOK', Alike(script[0], script[1]), NEW ran \in [Party -> Nat],
           \A r \in Party : Together(r, ran),
           NEW p \in Party, Came(p), Stayed(Other(p)), pc[p] = Len(script[p])
    PROVE  InStep'
<1> DEFINE q == Other(p)
           j == pc[p]
<1>1. q \in Party /\ q # p /\ Other(q) = p /\ \A r \in Party : r = p \/ r = q
  BY Parties
<1>2. Together(p, ran) /\ Together(q, ran)
  BY <1>1
<1>3. /\ ran[p] = j /\ j \in Nat \ {0} /\ Present(p).do \notin Transfer
      /\ ran[q] \in Nat /\ ran[q] >= 1
      /\ \A k \in 1 .. j : reached[p][k].sent \in Nat /\ reached[p][k].got \in Nat
  <2>1. ran[p] = j /\ j \in 1 .. Len(script[p])
    BY <1>2, RanUntil DEF Came
  <2>2. Present(p).do \notin Transfer
    BY <1>2, RanUntil DEF Came
  <2>3. ran[q] \in Nat /\ ran[q] >= 1
    BY <1>1, <1>2, RanBounds
  <2>4. \A k \in 1 .. j : reached[p][k].sent \in Nat /\ reached[p][k].got \in Nat
    BY <1>2, RanBounds
  <2> QED  BY <2>1, <2>2, <2>3, <2>4
<1>4. Share(p, j, "send") = 0 /\ Share(p, j, "recv") = 0
  BY <1>3 DEF Share, Present, Transfer
<1>5. /\ sent'[p] = reached[p][j].sent /\ got'[p] = reached[p][j].got
      /\ reached[p][j] \in Place
  <2>1. reached[p][j] \in Place
    BY <1>2, <1>3, RanBounds
  <2> QED  BY <1>3, <1>4, <2>1 DEF Came
<1>6. /\ \A k \in 1 .. j : reached'[p][k] = reached[p][k]
      /\ reached'[p][j + 1] = reached[p][j]
  BY <1>5 DEF Came, Place
<1>7. Left(p, ran)'
  <2>1. pc'[p] = j + 1 /\ script' = script /\ ran[p] <= Len(script[p])
    BY <1>3 DEF Came
  <2>2. Idle(p)'
    BY <1>3, <2>1 DEF Idle
  <2>3. \A k \in ran[p] .. j + 1 : reached'[p][k] = reached'[p][ran[p]]
    <3>1. \A k \in ran[p] .. j + 1 : k = j \/ k = j + 1
      BY <1>3
    <3> QED  BY <1>3, <1>6, <3>1
  <2> QED  BY <1>3, <2>1, <2>2, <2>3 DEF Left
<1>8. Stepwise(p, ran)'
  <2>1. \A k \in 1 .. ran[p] - 1 : k \in 1 .. j /\ k + 1 \in 1 .. j
    BY <1>3
  <2>2. \A k \in 1 .. ran[p] - 1 :
           /\ reached[p][k + 1].sent = reached[p][k].sent + Share(p, k, "send")
           /\ reached[p][k + 1].got = reached[p][k].got + Share(p, k, "recv")
    BY <1>2 DEF Together, Stepwise
  <2>3. \A k, do : Share(p, k, do)' = Share(p, k, do)
    BY DEF Share, Came
  <2>4. \A k \in 1 .. ran[p] - 1 :
           reached'[p][k] = reached[p][k] /\ reached'[p][k + 1] = reached[p][k + 1]
    BY <1>6, <2>1
  <2> QED  BY <2>2, <2>3, <2>4 DEF Stepwise
<1>9. Counted(p, ran)'
  <2>1. Part(p, "send")' = 0 /\ Part(p, "recv")' = 0
    BY DEF Came, Part
  <2>2. \A k \in 1 .. ran[p] : reached'[p][k].sent <= sent'[p]
    <3>1. \A k \in 1 .. ran[p] : reached'[p][k].sent = reached[p][k].sent
                                 /\ reached[p][k].sent <= sent[p]
      BY <1>2, <1>3, <1>6 DEF Together, Counted
    <3>2. sent[p] \in Nat /\ sent'[p] \in Nat /\ sent[p] <= sent'[p]
      BY DEF TypeOK, Came
    <3> QED  BY <1>3, <3>1, <3>2
  <2>3. j \in 1 .. j
    BY <1>3
  <2>4. reached'[p][j].sent + 0 = sent'[p] /\ reached'[p][j].got + 0 = got'[p]
    <3>1. reached'[p][j] = reached[p][j]
      BY <1>6, <2>3
    <3>2. reached[p][j].sent \in Nat /\ reached[p][j].got \in Nat
      BY <1>3, <2>3
    <3> QED  BY <3>1, <3>2, <1>5
  <2> QED  BY <1>3, <2>1, <2>2, <2>4 DEF Counted
<1>10. Left(q, ran)' /\ Stepwise(q, ran)' /\ Counted(q, ran)'
  BY <1>2, OtherKept DEF Together, Came, Stayed
<1>11. Crossed(p, ran)' /\ Crossed(q, ran)'
  <2>1. /\ \A k \in 1 .. Least(ran[p], ran[q]) : k \in 1 .. j
        /\ \A k \in 1 .. Least(ran[q], ran[p]) : k \in 1 .. j
    BY <1>3 DEF Least
  <2> QED  BY <1>1, <1>2, <1>6, <2>1 DEF Crossed, Together, Stayed
<1>12. Ahead(p, ran)'
  <2>1. \A k \in ran[q] .. ran[p] : k \in 1 .. j /\ ran[q] \in 1 .. j
    BY <1>3
  <2> QED  BY <1>2, <1>6, <2>1 DEF Ahead, Together, Came
<1>13. Ahead(q, ran)'
  BY <1>1, <1>2 DEF Ahead, Together, Came, Stayed
<1>14. Together(p, ran)' /\ Together(q, ran)'
  BY <1>7, <1>8, <1>9, <1>10, <1>11, <1>12, <1>13 DEF Together
<1> QED  BY <1>1, <1>14 DEF InStep

\* Any other operation: the party has run one more.
LEMMA NextInStep ==
    ASSUME TypeOK, TypeOK', Alike(script[0], script[1]), NEW ran \in [Party -> Nat],
           \A r \in Party : Together(r, ran),
           NEW p \in Party, Came(p), Stayed(Other(p)), pc[p] < Len(script[p]),
           Present(p).do = "recv" => ran[p] < ran[Other(p)]
    PROVE  InStep'
<1> DEFINE q == Other(p)
           j == pc[p]
           m == ran[q]
<1>1. q \in Party /\ q # p /\ Other(q) = p /\ \A r \in Party : r = p \/ r = q
  BY Parties
<1>2. Together(p, ran) /\ Together(q, ran)
  BY <1>1
<1>3. /\ ran[p] = j /\ j \in Nat \ {0} /\ j \in 1 .. Len(script[p]) - 1
      /\ Len(script[p]) \in Nat
      /\ m \in Nat /\ m >= 1 /\ Len(script[q]) \in Nat /\ (m > 1 => m <= Len(script[q]))
      /\ \A k \in 1 .. j : reached[p][k].sent \in Nat /\ reached[p][k].got \in Nat
  <2>1. ran[p] = j /\ j \in 1 .. Len(script[p]) /\ Len(script[p]) \in Nat
    BY <1>2, RanUntil DEF Came
  <2>2. m \in Nat /\ m >= 1 /\ Len(script[q]) \in Nat /\ (m > 1 => m <= Len(script[q]))
    BY <1>1, <1>2, RanBounds
  <2>3. \A k \in 1 .. j : reached[p][k].sent \in Nat /\ reached[p][k].got \in Nat
    BY <1>2, RanBounds
  <2> QED  BY <2>1, <2>2, <2>3
<1>4. PICK f : f = [ran EXCEPT ![p] = j + 1]
  OBVIOUS
<1>5. f \in [Party -> Nat] /\ f[p] = j + 1 /\ f[q] = m
  BY <1>1, <1>3, <1>4
<1>6. /\ \A k \in 1 .. j : reached'[p][k] = reached[p][k]
      /\ reached'[p][j + 1].sent = reached[p][j].sent + Share(p, j, "send")
      /\ reached'[p][j + 1].got = reached[p][j].got + Share(p, j, "recv")
      /\ reached'[p][j + 1].sent = sent'[p] /\ reached'[p][j + 1].got = got'[p]
      /\ reached'[q] = reached[q]
  BY DEF Came, Stayed
<1>7. \A k \in Nat, do \in Do : /\ Share(p, k, do)' = Share(p, k, do)
                               /\ Share(q, k, do)' = Share(q, k, do)
  BY DEF Share, Came
<1>8. "send" \in Do /\ "recv" \in Do
  BY DEF Do
<1>9. j < m => /\ Share(p, j, "send") = Share(q, j, "recv")
               /\ Share(p, j, "recv") = Share(q, j, "send")
  <2>1. SUFFICES ASSUME j < m
                 PROVE  /\ Share(p, j, "send") = Share(q, j, "recv")
                        /\ Share(p, j, "recv") = Share(q, j, "send")
    OBVIOUS
  <2>2. j \in 1 .. Len(script[q]) - 1 /\ j \in Nat /\ j \in 1 .. Len(script[p]) - 1
    BY <1>3, <2>1
  <2> QED  BY <2>2, Opposite
<1>10. script[p][j].do = "recv" => j < m
  BY <1>3 DEF Present
<1>11. /\ Stepwise(p, ran) /\ Counted(p, ran) /\ Crossed(p, ran) /\ Crossed(q, ran)
       /\ Ahead(p, ran) /\ Ahead(q, ran)
       /\ Left(q, ran) /\ Stepwise(q, ran) /\ Counted(q, ran)
  BY <1>2 DEF Together
<1>12. Left(p, f)'
  <2>1. pc'[p] = j + 1 /\ script' = script
    BY DEF Came
  <2>2. \A k \in j + 1 .. j + 1 : k = j + 1
    BY <1>3
  <2> QED  BY <1>3, <1>5, <2>1, <2>2 DEF Left
<1>13. Stepwise(p, f)'
  <2>1. ASSUME NEW k \in 1 .. j
        PROVE  /\ reached'[p][k + 1].sent = reached'[p][k].sent + Share(p, k, "send")
               /\ reached'[p][k + 1].got = reached'[p][k].got + Share(p, k, "recv")
    <3>1. CASE k = j
      BY <1>3, <1>6, <3>1
    <3>2. CASE k < j
      <4>1. k \in 1 .. ran[p] - 1 /\ k + 1 \in 1 .. j
        BY <1>3, <3>2
      <4> QED  BY <1>6, <1>11, <4>1 DEF Stepwise
    <3> QED  BY <1>3, <3>1, <3>2
  <2>2. \A k \in 1 .. f[p] - 1 : k \in 1 .. j /\ k \in Nat
    BY <1>3, <1>5
  <2> QED  BY <1>7, <1>8, <2>1, <2>2 DEF Stepwise
<1>14. Counted(p, f)'
  <2>1. Part(p, "send")' = 0 /\ Part(p, "recv")' = 0
    BY DEF Part, Came
  <2>2. sent[p] \in Nat /\ sent'[p] \in Nat /\ got'[p] \in Nat /\ sent[p] <= sent'[p]
    BY DEF TypeOK, Came
  <2>3. ASSUME NEW k \in 1 .. j + 1 PROVE reached'[p][k].sent <= sent'[p]
    <3>1. CASE k = j + 1
      BY <1>6, <2>2, <3>1
    <3>2. CASE k # j + 1
      <4>1. k \in 1 .. j /\ k \in 1 .. ran[p]
        BY <1>3, <3>2
      <4>2. reached'[p][k].sent = reached[p][k].sent /\ reached[p][k].sent <= sent[p]
        BY <1>6, <1>11, <4>1 DEF Counted
      <4> QED  BY <1>3, <2>2, <4>1, <4>2
    <3> QED  BY <3>1, <3>2
  <2> QED  BY <1>5, <1>6, <2>1, <2>2, <2>3 DEF Counted
<1>15. Left(q, f)' /\ Stepwise(q, f)' /\ Counted(q, f)'
  BY <1>5, <1>11, OtherKept DEF Came, Stayed
<1>16. ASSUME NEW k \in 1 .. Least(j + 1, m)
       PROVE  /\ reached'[p][k].sent = reached[q][k].got
              /\ reached'[p][k].got = reached[q][k].sent
  <2>1. k \in 1 .. m /\ k \in 1 .. j + 1
    BY <1>3 DEF Least
  <2>2. CASE k <= j
    <3>1. k \in 1 .. Least(ran[p], m) /\ k \in 1 .. Least(m, ran[p]) /\ k \in 1 .. j
      BY <1>3, <2>1, <2>2 DEF Least
    <3> QED  BY <1>1, <1>6, <1>11, <3>1 DEF Crossed
  <2>3. CASE k = j + 1
    <3>1. /\ j \in 1 .. m - 1 /\ j < m
          /\ j \in 1 .. Least(ran[p], m) /\ j \in 1 .. Least(m, ran[p])
      BY <1>3, <2>1, <2>3 DEF Least
    <3>2. /\ reached[q][j + 1].sent = reached[q][j].sent + Share(q, j, "send")
          /\ reached[q][j + 1].got = reached[q][j].got + Share(q, j, "recv")
      BY <1>11, <3>1 DEF Stepwise
    <3>3. reached[p][j].sent = reached[q][j].got /\ reached[q][j].sent = reached[p][j].got
      BY <1>1, <1>11, <3>1 DEF Crossed
    <3> QED  BY <1>6, <1>9, <2>3, <3>1, <3>2, <3>3
  <2> QED  BY <1>3, <2>1, <2>2, <2>3
<1>17. Crossed(p, f)' /\ Crossed(q, f)'
  <2>1. Least(f[p], f[q]) = Least(j + 1, m) /\ Least(f[q], f[p]) = Least(j + 1, m)
    BY <1>3, <1>5 DEF Least
  <2> QED  BY <1>1, <1>6, <1>16, <2>1 DEF Crossed
<1>18. Ahead(p, f)'
  <2>1. ASSUME NEW k \in m .. j PROVE script[p][k].do # "recv"
    <3>1. CASE k = j
      BY <1>3, <1>10, <3>1
    <3>2. CASE k < j
      <4>1. k \in m .. ran[p] - 1
        BY <1>3, <3>2
      <4> QED  BY <1>11, <4>1 DEF Ahead
    <3> QED  BY <1>3, <3>1, <3>2
  <2>2. ASSUME NEW k \in m .. j + 1 PROVE reached'[p][k].got = reached'[p][m].got
    <3>1. CASE k <= j
      <4>1. k \in m .. ran[p] /\ k \in 1 .. j /\ m \in 1 .. j
        BY <1>3, <3>1
      <4> QED  BY <1>6, <1>11, <4>1 DEF Ahead
    <3>2. CASE k = j + 1 /\ m <= j
      <4>1. j \in m .. ran[p] /\ j \in m .. j /\ m \in 1 .. j
        BY <1>3, <3>2
      <4>2. reached[p][j].got = reached[p][m].got
        BY <1>11, <4>1 DEF Ahead
      <4>3. Share(p, j, "recv") = 0
        BY <2>1, <4>1 DEF Share
      <4>4. reached[p][j].got \in Nat /\ reached'[p][m] = reached[p][m]
        BY <1>3, <1>6, <4>1
      <4> QED  BY <1>6, <3>2, <4>2, <4>3, <4>4
    <3>3. CASE k = j + 1 /\ m = j + 1
      BY <3>3
    <3> QED  BY <1>3, <3>1, <3>2, <3>3
  <2>3. f[q] .. f[p] - 1 = m .. j /\ f[q] .. f[p] = m .. j + 1
    BY <1>3, <1>5
  <2> QED  BY <1>5, <2>1, <2>2, <2>3 DEF Ahead, Came
<1>19. Ahead(q, f)'
  <2>1. ASSUME NEW k \in j + 1 .. m - 1 PROVE script[q][k].do # "recv"
    <3>1. k \in ran[p] .. m - 1
      BY <1>3
    <3> QED  BY <1>1, <1>11, <3>1 DEF Ahead
  <2>2. ASSUME NEW k \in j + 1 .. m PROVE reached[q][k].got = reached[q][j + 1].got
    <3>1. k \in ran[p] .. m /\ j + 1 \in ran[p] .. m
      BY <1>3
    <3> QED  BY <1>1, <1>11, <3>1 DEF Ahead
  <2> QED  BY <1>1, <1>5, <1>6, <2>1, <2>2 DEF Ahead, Came
<1>20. Together(p, f)' /\ Together(q, f)'
  BY <1>12, <1>13, <1>14, <1>15, <1>17, <1>18, <1>19 DEF Together
<1> QED  BY <1>1, <1>5, <1>20 DEF InStep

LEMMA CompleteInStep ==
    ASSUME TypeOK, TypeOK', Alike(script[0], script[1]), NEW ran \in [Party -> Nat],
           \A r \in Party : Together(r, ran),
           NEW p \in Party, Came(p), Stayed(Other(p)),
           Present(p).do = "recv" => ran[p] < ran[Other(p)]
    PROVE  InStep'
<1>1. pc[p] \in 1 .. Len(script[p]) /\ Len(script[p]) \in Nat /\ pc[p] \in Nat
  BY RanUntil DEF Came
<1> QED  BY <1>1, LastInStep, NextInStep

\* They are kept in step by a part of a transfer too.
LEMMA PartInStep ==
    ASSUME TypeOK, NEW ran \in [Party -> Nat], \A r \in Party : Together(r, ran),
           NEW p \in Party, NEW n \in Nat, ~Idle(p),
           script' = script, throws' = throws, pc' = pc, reached' = reached,
           moved' = [moved EXCEPT ![p] = @ + n],
           sent' = [sent EXCEPT ![p] = @ + (IF Present(p).do = "send" THEN n ELSE 0)],
           got' = [got EXCEPT ![p] = @ + (IF Present(p).do = "recv" THEN n ELSE 0)]
    PROVE  InStep'
<1>1. ASSUME NEW r \in Party
      PROVE  Left(r, ran)' /\ Stepwise(r, ran)' /\ Crossed(r, ran)' /\ Ahead(r, ran)'
  <2>1. Left(r, ran)'
    BY DEF Together, Left, Idle
  <2>2. Stepwise(r, ran)' /\ Crossed(r, ran)' /\ Ahead(r, ran)'
    BY DEF Together, Stepwise, Crossed, Ahead, Share
  <2> QED  BY <2>1, <2>2
<1>2. ASSUME NEW r \in Party PROVE Counted(r, ran)'
  <2>1. Counted(r, ran)
    BY DEF Together
  <2>2. /\ moved[r] \in Nat /\ ran[r] \in Nat /\ ran[r] >= 1
        /\ \A k \in 1 .. ran[r] : reached[r][k].sent \in Nat /\ reached[r][k].got \in Nat
    <3>1. /\ ran[r] \in Nat /\ ran[r] >= 1 /\ ran[r] <= pc[r] /\ pc[r] \in Nat
          /\ \A k \in 1 .. pc[r] : reached[r][k].sent \in Nat /\ reached[r][k].got \in Nat
      BY RanBounds
    <3>2. \A k \in 1 .. ran[r] : k \in 1 .. pc[r]
      BY <3>1
    <3> QED  BY <3>1, <3>2 DEF TypeOK
  <2>3. CASE r # p
    <3>1. Part(r, "send")' = Part(r, "send") /\ Part(r, "recv")' = Part(r, "recv")
      BY <2>3 DEF TypeOK, Part, Idle, Present
    <3>2. sent'[r] = sent[r] /\ got'[r] = got[r]
      BY <2>3 DEF TypeOK
    <3> QED  BY <2>1, <3>1, <3>2 DEF Counted
  <2>4. CASE r = p
    <3>1. /\ moved'[p] = moved[p] + n
          /\ sent'[p] = sent[p] + (IF Present(p).do = "send" THEN n ELSE 0)
          /\ got'[p] = got[p] + (IF Present(p).do = "recv" THEN n ELSE 0)
          /\ sent[p] \in Nat /\ got[p] \in Nat
      BY DEF TypeOK
    <3>2. Idle(p)' = Idle(p) /\ Present(p)' = Present(p)
      BY DEF Idle, Present
    <3>3. /\ Part(p, "send")' = Part(p, "send") + (IF Present(p).do = "send" THEN n ELSE 0)
          /\ Part(p, "recv")' = Part(p, "recv") + (IF Present(p).do = "recv" THEN n ELSE 0)
      BY <2>2, <2>4, <3>1, <3>2 DEF Part
    <3>4. Part(p, "send") \in Nat /\ Part(p, "recv") \in Nat
      BY <2>2, <2>4 DEF Part
    <3>5. reached[p][ran[p]].sent \in Nat /\ reached[p][ran[p]].got \in Nat
      BY <2>2, <2>4
    <3>6. /\ sent[p] = reached[p][ran[p]].sent + Part(p, "send")
          /\ got[p] = reached[p][ran[p]].got + Part(p, "recv")
          /\ \A k \in 1 .. ran[p] : reached[p][k].sent <= sent[p] /\ reached[p][k].sent \in Nat
      BY <2>1, <2>2, <2>4 DEF Counted
    <3>7. /\ sent'[p] = reached[p][ran[p]].sent + Part(p, "send")'
          /\ got'[p] = reached[p][ran[p]].got + Part(p, "recv")'
      BY <3>1, <3>3, <3>4, <3>5, <3>6
    <3>8. \A k \in 1 .. ran[p] : reached[p][k].sent <= sent'[p]
      BY <3>1, <3>6
    <3> QED  BY <2>4, <3>7, <3>8 DEF Counted
  <2> QED  BY <2>3, <2>4
<1> QED  BY <1>1, <1>2 DEF Together, InStep

LEMMA SendDataInStep ==
    ASSUME TypeOK, TypeOK', Alike(script[0], script[1]), NEW ran \in [Party -> Nat],
           \A r \in Party : Together(r, ran), NEW p \in Party, SendData(p)
    PROVE  InStep'
<1>1. PICK n \in 1 .. Least(Present(p).bytes - moved[p], Capacity - InFlight(p)) :
          /\ sent' = [sent EXCEPT ![p] = @ + n]
          /\ got' = got
          /\ Progress(p, n)
  BY DEF SendData, Room
<1>2. /\ ~Idle(p) /\ Present(p).do = "send" /\ script' = script /\ throws' = throws /\ n \in Nat
      /\ Other(p) \in Party /\ Other(p) # p
  BY Parties DEF SendData
<1>3. CASE moved[p] + n = Present(p).bytes
  <2>1. Complete(p)
    BY <1>1, <1>3 DEF Progress
  <2>2. /\ ran[p] = pc[p] /\ reached[p][pc[p]].sent \in Nat /\ reached[p][pc[p]].got \in Nat
    BY <1>2, RanUntil, RanBounds
  <2>3. /\ sent[p] = reached[p][pc[p]].sent + moved[p]
        /\ got[p] = reached[p][pc[p]].got + 0
    BY <1>2, <2>2 DEF Together, Counted, Part
  <2>4. /\ sent'[p] = sent[p] + n /\ got'[p] = got[p] /\ moved[p] \in Nat
        /\ sent'[Other(p)] = sent[Other(p)] /\ got'[Other(p)] = got[Other(p)]
        /\ sent'[p] \in Nat /\ got'[p] \in Nat /\ sent[p] \in Nat
    BY <1>1, <1>2 DEF TypeOK
  <2>5. Share(p, pc[p], "send") = Present(p).bytes /\ Share(p, pc[p], "recv") = 0
    BY <1>2 DEF Share, Present
  <2>6. sent'[p] = reached[p][pc[p]].sent + Share(p, pc[p], "send") /\ sent[p] <= sent'[p]
    BY <1>2, <1>3, <2>2, <2>3, <2>4, <2>5
  <2>7. got'[p] = reached[p][pc[p]].got + Share(p, pc[p], "recv")
    BY <2>3, <2>4, <2>5
  <2>8. Came(p) /\ Stayed(Other(p))
    BY <1>2, <2>1, <2>4, <2>6, <2>7, CompleteCame
  <2> QED  BY <1>2, <2>8, CompleteInStep
<1>4. CASE moved[p] + n # Present(p).bytes
  <2>1. moved' = [moved EXCEPT ![p] = @ + n] /\ pc' = pc /\ reached' = reached
    BY <1>1, <1>4 DEF Progress
  <2>2. /\ sent' = [sent EXCEPT ![p] = @ + (IF Present(p).do = "send" THEN n ELSE 0)]
        /\ got' = [got EXCEPT ![p] = @ + (IF Present(p).do = "recv" THEN n ELSE 0)]
    BY <1>1, <1>2 DEF TypeOK
  <2> QED  BY <1>2, <2>1, <2>2, PartInStep
<1> QED  BY <1>3, <1>4

LEMMA RecvDataInStep ==
    ASSUME TypeOK, TypeOK', Alike(script[0], script[1]), NEW ran \in [Party -> Nat],
           \A r \in Party : Together(r, ran), NEW p \in Party, RecvData(p)
    PROVE  InStep'
<1>1. PICK n \in 1 .. Least(Present(p).bytes - moved[p], InFlight(Other(p))) :
          /\ got' = [got EXCEPT ![p] = @ + n]
          /\ sent' = sent
          /\ Progress(p, n)
  BY DEF RecvData, Ready
<1>2. /\ ~Idle(p) /\ Present(p).do = "recv" /\ script' = script /\ throws' = throws /\ n \in Nat
      /\ Other(p) \in Party /\ Other(p) # p
  BY Parties DEF RecvData
<1>3. CASE moved[p] + n = Present(p).bytes
  <2>1. Complete(p)
    BY <1>1, <1>3 DEF Progress
  <2>2. /\ ran[p] = pc[p] /\ reached[p][pc[p]].sent \in Nat /\ reached[p][pc[p]].got \in Nat
    BY <1>2, RanUntil, RanBounds
  <2>3. /\ got[p] = reached[p][pc[p]].got + moved[p]
        /\ sent[p] = reached[p][pc[p]].sent + 0
    BY <1>2, <2>2 DEF Together, Counted, Part
  <2>4. /\ got'[p] = got[p] + n /\ sent'[p] = sent[p] /\ moved[p] \in Nat
        /\ sent'[Other(p)] = sent[Other(p)] /\ got'[Other(p)] = got[Other(p)]
        /\ sent'[p] \in Nat /\ got'[p] \in Nat /\ sent[p] \in Nat
    BY <1>1, <1>2 DEF TypeOK
  <2>5. Share(p, pc[p], "recv") = Present(p).bytes /\ Share(p, pc[p], "send") = 0
    BY <1>2 DEF Share, Present
  <2>6. got'[p] = reached[p][pc[p]].got + Share(p, pc[p], "recv")
    BY <1>2, <1>3, <2>2, <2>3, <2>4, <2>5
  <2>7. sent'[p] = reached[p][pc[p]].sent + Share(p, pc[p], "send") /\ sent[p] <= sent'[p]
    BY <2>3, <2>4, <2>5
  <2>8. n <= InFlight(Other(p))
    <3>1. InFlight(Other(p)) \in Nat
      BY <1>2, SizesAssumption DEF TypeOK
    <3>2. Present(p).bytes - moved[p] = n
      BY <1>2, <1>3, <2>4
    <3> QED  BY <1>2, <3>1, <3>2 DEF Least
  <2>9. ran[p] < ran[Other(p)]
    BY <1>2, <1>3, <2>8, ReceiverBehind
  <2>10. Came(p) /\ Stayed(Other(p))
    BY <1>2, <2>1, <2>4, <2>6, <2>7, CompleteCame
  <2> QED  BY <2>9, <2>10, CompleteInStep
<1>4. CASE moved[p] + n # Present(p).bytes
  <2>1. moved' = [moved EXCEPT ![p] = @ + n] /\ pc' = pc /\ reached' = reached
    BY <1>1, <1>4 DEF Progress
  <2>2. /\ sent' = [sent EXCEPT ![p] = @ + (IF Present(p).do = "send" THEN n ELSE 0)]
        /\ got' = [got EXCEPT ![p] = @ + (IF Present(p).do = "recv" THEN n ELSE 0)]
    BY <1>1, <1>2 DEF TypeOK
  <2> QED  BY <1>2, <2>1, <2>2, PartInStep
<1> QED  BY <1>3, <1>4

LEMMA RunLocalInStep ==
    ASSUME TypeOK, TypeOK', Alike(script[0], script[1]), NEW ran \in [Party -> Nat],
           \A r \in Party : Together(r, ran), NEW p \in Party, RunLocal(p)
    PROVE  InStep'
<1>1. /\ ~Idle(p) /\ Complete(p) /\ script' = script /\ throws' = throws
      /\ sent' = sent /\ got' = got
      /\ Present(p).do # "send" /\ Present(p).do # "recv"
  BY DEF RunLocal
<1>2. ran[p] = pc[p]
  BY <1>1, RanUntil
<1>3. sent[p] = reached[p][pc[p]].sent + 0 /\ got[p] = reached[p][pc[p]].got + 0
  BY <1>1, <1>2 DEF Together, Counted, Part
<1>4. Share(p, pc[p], "send") = 0 /\ Share(p, pc[p], "recv") = 0
  BY <1>1 DEF Share, Present
<1>5. sent'[p] \in Nat /\ got'[p] \in Nat /\ sent[p] <= sent'[p]
  BY <1>1 DEF TypeOK
<1>6. Came(p) /\ Stayed(Other(p))
  BY <1>1, <1>3, <1>4, <1>5, CompleteCame
<1> QED  BY <1>1, <1>6, CompleteInStep

\* An exception in a script of one job leads to its end: what the party ran
\* until stays.
LEMMA ThrowInStep ==
    ASSUME TypeOK, Alike(script[0], script[1]), OneJob(script[0]), OneJob(script[1]),
           NEW ran \in [Party -> Nat],
           \A r \in Party : Together(r, ran), NEW p \in Party, Throw(p)
    PROVE  InStep'
<1> DEFINE q == Other(p)
           j == pc[p]
<1>1. q \in Party /\ q # p /\ Other(q) = p /\ \A r \in Party : r = p \/ r = q
  BY Parties
<1>2. Together(p, ran) /\ Together(q, ran)
  BY <1>1
<1>3. PICK a : a = AfterJob(p)
  OBVIOUS
<1>4. /\ ~Idle(p) /\ moved[p] = 0 /\ throws' = throws + 1 /\ throws \in Nat
      /\ pc' = [pc EXCEPT ![p] = a]
      /\ reached' = [reached EXCEPT ![p] = [k \in 1 .. a |->
                        IF k \in DOMAIN @ THEN @[k] ELSE Counts(p)]]
      /\ script' = script /\ moved' = moved /\ sent' = sent /\ got' = got
  BY <1>3 DEF Throw, TypeOK
<1>5. /\ ran[p] = j /\ j \in Nat \ {0} /\ j \in 1 .. Len(script[p]) /\ Len(script[p]) \in Nat
  BY <1>2, <1>4, RanUntil
<1>6. a = Len(script[p]) + 1
  <2>1. /\ a \in j .. Len(script[p]) + 1
        /\ a <= Len(script[p]) => script[p][a].job # script[p][j].job
    BY <1>3, AfterJobPlace DEF Present
  <2>2. OneJob(script[p])
    BY DEF Party
  <2>3. ASSUME a <= Len(script[p]) PROVE FALSE
    <3>1. a \in 1 .. Len(script[p])
      BY <1>5, <2>1, <2>3
    <3> QED  BY <1>5, <2>1, <2>2, <2>3, <3>1 DEF OneJob
  <2> QED  BY <1>5, <2>1, <2>3
<1>7. DOMAIN reached[p] = 1 .. j
  BY DEF TypeOK
<1>8. reached[p][j] = Counts(p)
  <2>1. reached[p][j] \in Place
    BY <1>2, <1>5, RanBounds
  <2>2. sent[p] = reached[p][j].sent + 0 /\ got[p] = reached[p][j].got + 0
    BY <1>2, <1>4, <1>5 DEF Together, Counted, Part
  <2>3. sent[p] = reached[p][j].sent /\ got[p] = reached[p][j].got
    BY <2>1, <2>2 DEF Place
  <2> QED  BY <2>1, <2>3 DEF Place, Counts
<1>9. /\ pc'[p] = a /\ pc'[q] = pc[q] /\ reached'[q] = reached[q]
      /\ reached'[p] = [k \in 1 .. a |-> IF k \in 1 .. j THEN reached[p][k] ELSE Counts(p)]
  BY <1>1, <1>4, <1>7 DEF TypeOK
<1>10. /\ \A k \in 1 .. j : reached'[p][k] = reached[p][k]
       /\ \A k \in j .. a : reached'[p][k] = reached[p][j]
  <2>1. ASSUME NEW k \in 1 .. j PROVE reached'[p][k] = reached[p][k]
    <3>1. k \in 1 .. a
      BY <1>5, <1>6
    <3> QED  BY <1>9, <3>1
  <2>2. ASSUME NEW k \in j .. a PROVE reached'[p][k] = reached[p][j]
    <3>1. k \in 1 .. a /\ (k \in 1 .. j => k = j)
      BY <1>5, <1>6
    <3> QED  BY <1>8, <1>9, <3>1
  <2> QED  BY <2>1, <2>2
<1>11. throws' # 0
  BY <1>4
<1>12. Left(p, ran)'
  <2>1. Idle(p)' /\ j \in 1 .. a /\ j <= Len(script[p])
    BY <1>4, <1>5, <1>6, <1>9 DEF Idle
  <2>2. \A k \in j .. a : reached'[p][k] = reached'[p][j]
    <3>1. j \in j .. a
      BY <1>5, <1>6
    <3> QED  BY <1>10, <3>1
  <2> QED  BY <1>4, <1>5, <1>9, <1>11, <2>1, <2>2 DEF Left
<1>13. Stepwise(p, ran)'
  <2>1. ASSUME NEW k \in 1 .. ran[p] - 1
        PROVE  /\ reached'[p][k + 1].sent = reached'[p][k].sent + Share(p, k, "send")'
               /\ reached'[p][k + 1].got = reached'[p][k].got + Share(p, k, "recv")'
    <3>1. k \in 1 .. j /\ k + 1 \in 1 .. j
      BY <1>5
    <3>2. reached'[p][k + 1] = reached[p][k + 1] /\ reached'[p][k] = reached[p][k]
      BY <1>10, <3>1
    <3>3. Share(p, k, "send")' = Share(p, k, "send") /\ Share(p, k, "recv")' = Share(p, k, "recv")
      BY <1>4 DEF Share
    <3>4. /\ reached[p][k + 1].sent = reached[p][k].sent + Share(p, k, "send")
          /\ reached[p][k + 1].got = reached[p][k].got + Share(p, k, "recv")
      BY <1>2 DEF Together, Stepwise
    <3> QED  BY <3>2, <3>3, <3>4
  <2> QED  BY <2>1 DEF Stepwise
<1>14. Counted(p, ran)'
  <2>1. Part(p, "send")' = 0 /\ Part(p, "recv")' = 0 /\ Part(p, "send") = 0 /\ Part(p, "recv") = 0
    BY <1>4 DEF Part
  <2>2. j \in 1 .. j
    BY <1>5
  <2> QED  BY <1>2, <1>4, <1>5, <1>10, <2>1, <2>2 DEF Counted, Together
<1>15. Left(q, ran)' /\ Stepwise(q, ran)' /\ Counted(q, ran)'
  BY <1>2, <1>4, <1>9, <1>11, OtherKept DEF Together
<1>16. Crossed(p, ran)' /\ Crossed(q, ran)'
  <2>1. ran[q] \in Nat
    BY <1>1
  <2>2. /\ \A k \in 1 .. Least(ran[p], ran[q]) : k \in 1 .. j
        /\ \A k \in 1 .. Least(ran[q], ran[p]) : k \in 1 .. j
    BY <1>5, <2>1 DEF Least
  <2> QED  BY <1>1, <1>2, <1>9, <1>10, <2>2 DEF Crossed, Together
<1>17. Ahead(p, ran)'
  <2>1. ran[q] \in Nat /\ ran[q] >= 1
    BY <1>1, <1>2, RanBounds
  <2>2. \A k \in ran[q] .. ran[p] : k \in 1 .. j /\ ran[q] \in 1 .. j
    BY <1>5, <2>1
  <2> QED  BY <1>2, <1>4, <1>10, <2>2 DEF Ahead, Together
<1>18. Ahead(q, ran)'
  BY <1>1, <1>2, <1>4, <1>9 DEF Ahead, Together
<1>19. Together(p, ran)' /\ Together(q, ran)'
  BY <1>12, <1>13, <1>14, <1>15, <1>16, <1>17, <1>18 DEF Together
<1> QED  BY <1>1, <1>19 DEF InStep


-----------------------------------------------------------------------------
(* The invariant of the places.                                            *)

\* At the beginning of a connection.
LEMMA FreshTogether ==
    ASSUME NEW ran \in [Party -> Nat], NEW p \in Party,
           ran[p] = 1, ran[Other(p)] = 1,
           pc[p] = 1, moved[p] = 0, sent[p] = 0, got[p] = 0,
           reached[p] = <<Fresh>>, reached[Other(p)] = <<Fresh>>
    PROVE  Together(p, ran)
<1>1. <<Fresh>>[1].sent = 0 /\ <<Fresh>>[1].got = 0
  BY DEF Fresh
<1>2. Left(p, ran)
  <2>1. \A k \in 1 .. 1 : k = 1
    OBVIOUS
  <2> QED  BY <2>1 DEF Left
<1>3. Stepwise(p, ran)
  BY DEF Stepwise
<1>4. Counted(p, ran)
  <2>1. \A k \in 1 .. 1 : k = 1
    OBVIOUS
  <2> QED  BY <1>1, <2>1 DEF Counted, Part
<1>5. Crossed(p, ran)
  <2>1. \A k \in 1 .. Least(1, 1) : k = 1
    BY DEF Least
  <2> QED  BY <1>1, <2>1 DEF Crossed
<1>6. Ahead(p, ran)
  <2>1. \A k \in 1 .. 1 : k = 1
    OBVIOUS
  <2>2. \A k \in 1 .. 1 - 1 : FALSE
    OBVIOUS
  <2> QED  BY <2>1, <2>2 DEF Ahead
<1> QED  BY <1>2, <1>3, <1>4, <1>5, <1>6 DEF Together

Begun == /\ pc = [p \in Party |-> 1] /\ moved = Zero /\ sent = Zero /\ got = Zero
         /\ reached = [p \in Party |-> <<Fresh>>]

LEMMA BegunInStep == Begun => InStep
<1> SUFFICES ASSUME Begun PROVE InStep
  OBVIOUS
<1>1. PICK ran : ran = [p \in Party |-> 1]
  OBVIOUS
<1>2. ran \in [Party -> Nat]
  BY <1>1
<1>3. ASSUME NEW p \in Party PROVE Together(p, ran)
  <2>1. Other(p) \in Party
    BY Parties
  <2> QED  BY <1>1, <1>2, <2>1, FreshTogether DEF Begun, Zero
<1> QED  BY <1>2, <1>3 DEF InStep

LEMMA NextInStepBegun == Begun' => InStep'
BY BegunInStep, PTL

\* What Twin promises of the scripts.
Fitting(s, t, one, agreed) ==
    /\ Alike(s, t)
    /\ one => OneJob(s) /\ OneJob(t)
    /\ agreed => Paired(Jobs, s, t)

LEMMA ConnectTwin ==
    ASSUME NEW scripts, Connect(scripts),
           OneCase' \/ (Agreed' /\ throws' = 0) =>
               Fitting(scripts[0], scripts[1], OneCase', Agreed')
    PROVE  Twin'
<1>1. Begun' /\ script' = scripts
  BY DEF Connect, Begun, Zero
<1> QED  BY <1>1, NextInStepBegun DEF Twin, Fitting

LEMMA InitTwin == Init => Twin
<1> SUFFICES ASSUME Init PROVE Twin
  OBVIOUS
<1>1. Begun
  BY DEF Init, Begun
<1>2. script[0] = <<>> /\ script[1] = <<>>
  BY DEF Init, Party
<1>3. Paired(Jobs, <<>>, <<>>) /\ OneJob(<<>>)
  BY EmptyPaired DEF OneJob
<1> QED  BY <1>1, <1>2, <1>3, EmptyAlike, BegunInStep DEF Twin

LEMMA BenchConnectTwin == ASSUME TypeOK, BenchConnect PROVE Twin'
<1> DEFINE scripts == [p \in Party |-> BenchMain(command[p].case, p, command[p].number)]
<1>1. Connect(scripts) /\ command' = command /\ throws' = throws
  BY DEF BenchConnect, Connect
<1>2. /\ 0 \in Party /\ 1 \in Party
      /\ \A p \in Party : command[p].number \in Nat /\ command[p].main = "verse_bench"
  BY DEF BenchConnect, TypeOK, CommandLine, Party
<1>3. PICK case, m, n : /\ case = command[0].case /\ m = command[0].number
                        /\ n = command[1].number
  OBVIOUS
<1>4. ASSUME command[0].case = command[1].case, case = "all" => m = n
      PROVE  /\ Alike(scripts[0], scripts[1])
             /\ case # "all" => OneJob(scripts[0]) /\ OneJob(scripts[1])
  <2>1. scripts[0] = BenchMain(case, 0, m) /\ scripts[1] = BenchMain(case, 1, n)
    BY <1>2, <1>3, <1>4
  <2>2. m \in Nat /\ n \in Nat
    BY <1>2, <1>3
  <2>3. /\ Alike(BenchMain(case, 0, m), BenchMain(case, 1, n))
        /\ case # "all" => OneJob(BenchMain(case, 0, m)) /\ OneJob(BenchMain(case, 1, n))
    BY <1>4, <2>2, BenchMainAlike
  <2> QED  BY <2>1, <2>3
<1>5. ASSUME Agreed PROVE Paired(Jobs, scripts[0], scripts[1]) /\ m = n
  <2>1. command[0].case = command[1].case /\ m = n
    BY <1>2, <1>3, <1>5 DEF Agreed
  <2>2. scripts[0] = BenchMain(case, 0, n) /\ scripts[1] = BenchMain(case, 1, n) /\ n \in Nat
    BY <1>2, <1>3, <2>1
  <2>3. Paired(Jobs, BenchMain(case, 0, n), BenchMain(case, 1, n))
    BY <2>2, BenchMainPaired
  <2> QED  BY <2>1, <2>2, <2>3
<1> HIDE DEF scripts
<1>6. (OneCase' <=> OneCase) /\ (Agreed' <=> Agreed)
  BY <1>1 DEF OneCase, Agreed
<1>7. OneCase <=> command[0].case = command[1].case /\ case # "all"
  BY <1>3 DEF OneCase
<1>8. Agreed => command[0].case = command[1].case
  BY DEF Agreed
<1>9. OneCase \/ Agreed => Fitting(scripts[0], scripts[1], OneCase, Agreed)
  BY <1>4, <1>5, <1>7, <1>8 DEF Fitting
<1> QED  BY <1>1, <1>6, <1>9, ConnectTwin DEF Fitting

LEMMA ExampleConnectTwin == ASSUME TypeOK, ExampleConnect PROVE Twin'
<1>1. PICK selection \in [Party -> Jobs] :
          /\ command' = [p \in Party |-> [command[p] EXCEPT !.case = selection[p]]]
          /\ Connect([p \in Party |-> Example(selection[p], p)])
  BY DEF ExampleConnect
<1> DEFINE scripts == [p \in Party |-> Example(selection[p], p)]
<1>2. 0 \in Party /\ 1 \in Party
  BY DEF Party
<1>3. command'[0].case = selection[0] /\ command'[1].case = selection[1]
  <2>1. ASSUME NEW p \in Party PROVE command'[p].case = selection[p]
    <3>1. command'[p] = [command[p] EXCEPT !.case = selection[p]]
      BY <1>1
    <3>2. command[p] \in CommandLine
      BY DEF TypeOK
    <3> QED  BY <3>1, <3>2 DEF CommandLine
  <2> QED  BY <1>2, <2>1
<1>4. ASSUME selection[0] = selection[1]
      PROVE  /\ Alike(scripts[0], scripts[1]) /\ Paired(Jobs, scripts[0], scripts[1])
             /\ OneJob(scripts[0]) /\ OneJob(scripts[1])
  <2>1. PICK job, s, t : job = selection[0] /\ s = Example(job, 0) /\ t = Example(job, 1)
    OBVIOUS
  <2>2. job \in Jobs /\ scripts[0] = s /\ scripts[1] = t
    BY <1>2, <1>4, <2>1
  <2>3. Alike(s, t) /\ Paired(Jobs, s, t)
    BY <2>1, <2>2, ExampleAlike, ExamplePaired
  <2>4. (\A k \in 1 .. Len(s) : s[k].job = job) /\ (\A k \in 1 .. Len(t) : t[k].job = job)
    BY <1>2, <2>1, <2>2, ExamplePlaces
  <2>5. OneJob(s) /\ OneJob(t)
    BY <2>4 DEF OneJob
  <2> QED  BY <2>2, <2>3, <2>5
<1>5. Connect(scripts)
  BY <1>1
<1> HIDE DEF scripts
<1>6. OneCase' \/ Agreed' => selection[0] = selection[1]
  BY <1>3 DEF OneCase, Agreed
<1>7. OneCase' \/ Agreed' => Fitting(scripts[0], scripts[1], OneCase', Agreed')
  BY <1>4, <1>6 DEF Fitting
<1> QED  BY <1>5, <1>7, ConnectTwin

LEMMA StepTwin == TypeOK /\ Twin /\ [Next]_vars => Twin'
<1> SUFFICES ASSUME TypeOK, Twin, [Next]_vars PROVE Twin'
  OBVIOUS
<1>1. TypeOK'
  BY StepType
<1>2. CASE BenchConnect
  BY <1>2, BenchConnectTwin
<1>3. CASE ExampleConnect
  BY <1>3, ExampleConnectTwin
<1>4. ASSUME NEW p \in Party, Step(p) PROVE Twin'
  <2>1. command' = command /\ script' = script /\ throws' = throws
    BY <1>4 DEF Step, SendData, RecvData, RunLocal
  <2>2. (OneCase' <=> OneCase) /\ (Agreed' <=> Agreed)
    BY <2>1 DEF OneCase, Agreed
  <2>3. ASSUME OneCase \/ (Agreed /\ throws = 0) PROVE InStep'
    <3>1. Alike(script[0], script[1]) /\ InStep
      BY <2>3 DEF Twin
    <3>2. PICK ran \in [Party -> Nat] : \A r \in Party : Together(r, ran)
      BY <3>1 DEF InStep
    <3> QED  BY <1>1, <1>4, <3>1, <3>2, SendDataInStep, RecvDataInStep, RunLocalInStep DEF Step
  <2> QED  BY <2>1, <2>2, <2>3 DEF Twin
<1>5. ASSUME NEW p \in Party, Throw(p) PROVE Twin'
  <2>1. command' = command /\ script' = script /\ throws' = throws + 1 /\ throws \in Nat
    BY <1>5 DEF Throw, TypeOK
  <2>2. (OneCase' <=> OneCase) /\ (Agreed' <=> Agreed) /\ throws' # 0
    BY <2>1 DEF OneCase, Agreed
  <2>3. ASSUME OneCase PROVE InStep'
    <3>1. /\ Alike(script[0], script[1]) /\ OneJob(script[0]) /\ OneJob(script[1])
          /\ InStep
      BY <2>3 DEF Twin
    <3>2. PICK ran \in [Party -> Nat] : \A r \in Party : Together(r, ran)
      BY <3>1 DEF InStep
    <3> QED  BY <1>5, <3>1, <3>2, ThrowInStep
  <2> QED  BY <2>1, <2>2, <2>3 DEF Twin
<1>6. CASE UNCHANGED vars
  <2>1. /\ command' = command /\ script' = script /\ throws' = throws
        /\ pc' = pc /\ moved' = moved /\ sent' = sent /\ got' = got /\ reached' = reached
    BY <1>6 DEF vars
  <2>2. ASSUME NEW p \in Party, NEW ran, Together(p, ran) PROVE Together(p, ran)'
    BY <2>1, <2>2 DEF Together, Left, Stepwise, Counted, Crossed, Ahead, Share, Part,
                      Idle, Present
  <2>3. InStep => InStep'
    BY <2>2 DEF InStep
  <2> QED  BY <2>1, <2>3 DEF Twin, OneCase, Agreed
<1> QED  BY <1>2, <1>3, <1>4, <1>5, <1>6 DEF Next

\* The scripts mirror each other and the places are in step, also of parties that
\* run one protocol a different number of times or leave it by an exception.
THEOREM TwinHolds == Spec => [](TypeOK /\ Twin)
<1>1. Init => TypeOK /\ Twin
  BY InitType, InitTwin
<1>2. TypeOK /\ Twin /\ [Next]_vars => (TypeOK /\ Twin)'
  BY StepType, StepTwin
<1> QED  BY <1>1, <1>2, PTL DEF Spec

-----------------------------------------------------------------------------
(* What the invariant says of messages.                                    *)

\* A receive that is complete is one of an operation that the party ran, and the
\* other party ran the same place before.
LEMMA RanBoth ==
    ASSUME TypeOK, Alike(script[0], script[1]), NEW ran \in [Party -> Nat],
           \A r \in Party : Together(r, ran),
           NEW p \in Party, NEW k \in DOMAIN script[p],
           script[p][k].do = "recv", Transferred(p, k)
    PROVE  /\ k \in Nat /\ k >= 1 /\ k < ran[p] /\ k < ran[Other(p)]
           /\ k \in 1 .. Len(script[p]) - 1 /\ k \in 1 .. Len(script[Other(p)]) - 1
<1> DEFINE q == Other(p)
           j == ran[p]
           m == ran[q]
<1>1. q \in Party /\ Other(q) = p /\ Together(p, ran) /\ Together(q, ran)
  BY Parties
<1>2. /\ j \in Nat /\ j >= 1 /\ j <= pc[p] /\ pc[p] \in Nat /\ Len(script[p]) \in Nat
      /\ (j > 1 => j <= Len(script[p]))
      /\ \A l \in 1 .. pc[p] : reached[p][l].got \in Nat
  BY <1>1, RanBounds
<1>3. /\ m \in Nat /\ m >= 1 /\ Len(script[q]) \in Nat /\ (m > 1 => m <= Len(script[q]))
  BY <1>1, RanBounds
<1>4. /\ k \in Nat /\ k \in 1 .. Len(script[p]) /\ k < pc[p]
      /\ reached[p][k + 1].got = reached[p][k].got + script[p][k].bytes
      /\ script[p][k].bytes \in Nat /\ script[p][k].bytes > 0 /\ k < Len(script[p])
  <2>1. Closed(script[p]) /\ script[p] \in Seq(Operation)
    <3>1. p = 0 \/ p = 1
      BY DEF Party
    <3>2. Closed(script[0]) /\ Closed(script[1])
      BY DEF Alike
    <3>3. script[p] \in Seq(Operation)
      BY DEF TypeOK
    <3> QED  BY <3>1, <3>2, <3>3
  <2>2. k \in 1 .. Len(script[p]) /\ script[p][k] \in Operation
    BY <2>1
  <2>3. k < pc[p] /\ reached[p][k + 1].got = reached[p][k].got + script[p][k].bytes
    BY DEF Transferred
  <2>4. script[p][k].bytes > 0 /\ k < Len(script[p])
    BY <2>1, <2>2 DEF Closed, Transfer
  <2> QED  BY <1>2, <2>2, <2>3, <2>4 DEF Operation
<1>5. k < j
  <2>1. SUFFICES ASSUME j <= k PROVE FALSE
    BY <1>2, <1>4
  <2>2. k \in j .. pc[p] /\ k + 1 \in j .. pc[p] /\ k \in 1 .. pc[p]
    BY <1>2, <1>4, <2>1
  <2>3. reached[p][k] = reached[p][j] /\ reached[p][k + 1] = reached[p][j]
    BY <1>1, <2>2 DEF Together, Left
  <2>4. reached[p][k].got \in Nat
    BY <1>2, <2>2
  <2> QED  BY <1>4, <2>3, <2>4
<1>6. k < m
  <2>1. SUFFICES ASSUME m <= k PROVE FALSE
    BY <1>3, <1>4
  <2>2. k \in m .. j - 1
    BY <1>2, <1>3, <1>4, <1>5, <2>1
  <2> QED  BY <1>1, <2>2 DEF Together, Ahead
<1>7. k \in 1 .. Len(script[p]) - 1 /\ k \in 1 .. Len(script[q]) - 1 /\ k >= 1
  BY <1>2, <1>3, <1>4, <1>5, <1>6
<1> QED  BY <1>4, <1>5, <1>6, <1>7

LEMMA InStepReads ==
    ASSUME TypeOK, Alike(script[0], script[1]), InStep, NEW p \in Party
    PROVE  ReadsWhole(p)
<1> DEFINE q == Other(p)
<1>1. PICK ran \in [Party -> Nat] : \A r \in Party : Together(r, ran)
  BY DEF InStep
<1>2. q \in Party /\ Other(q) = p /\ Together(p, ran) /\ Together(q, ran)
  BY <1>1, Parties
<1> SUFFICES ASSUME NEW k \in DOMAIN script[p],
                    script[p][k].do = "recv", Transferred(p, k)
             PROVE  \E l \in DOMAIN script[q] :
                        /\ script[q][l] = [script[p][k] EXCEPT !.do = "send"]
                        /\ Transferred(q, l)
                        /\ reached[q][l].sent = reached[p][k].got
  BY DEF ReadsWhole, ReadsWholeAt
<1>3. /\ k \in Nat /\ k >= 1 /\ k < ran[p] /\ k < ran[q]
      /\ k \in 1 .. Len(script[p]) - 1 /\ k \in 1 .. Len(script[q]) - 1
  BY <1>1, RanBoth
<1>4. Mirrors(script[p][k], script[q][k])
  BY <1>3, AlikeParty DEF Alike
<1>5. script[q][k].do = "send" /\ script[q][k] = [script[p][k] EXCEPT !.do = "send"]
  <2>1. script[p][k].do \in Transfer
    BY DEF Transfer
  <2>2. /\ script[q][k].do \in Transfer /\ script[q][k].do # "recv"
        /\ script[q][k] = [script[p][k] EXCEPT !.do = script[q][k].do]
    BY <1>4, <2>1 DEF Mirrors
  <2>3. script[q][k].do = "send"
    BY <2>2 DEF Transfer
  <2> QED  BY <2>2, <2>3
<1>6. ran[q] \in Nat /\ ran[p] \in Nat /\ ran[q] <= pc[q] /\ pc[q] \in Nat /\ Len(script[q]) \in Nat
  BY <1>2, RanBounds
<1>7. Transferred(q, k)
  <2>1. k \in 1 .. ran[q] - 1 /\ k < pc[q]
    BY <1>3, <1>6
  <2>2. reached[q][k + 1].sent = reached[q][k].sent + script[q][k].bytes
    BY <1>2, <1>5, <2>1 DEF Together, Stepwise, Share
  <2> QED  BY <1>5, <2>1, <2>2 DEF Transferred
<1>8. reached[q][k].sent = reached[p][k].got
  <2>1. k \in 1 .. Least(ran[q], ran[p])
    BY <1>3, <1>6 DEF Least
  <2> QED  BY <1>2, <2>1 DEF Together, Crossed
<1>9. k \in DOMAIN script[q]
  <2>1. script[q] \in Seq(Operation) /\ k \in 1 .. Len(script[q])
    BY <1>2, <1>3, <1>6 DEF TypeOK
  <2> QED  BY <2>1
<1> QED  BY <1>5, <1>7, <1>8, <1>9

\* Two parties that run one protocol a different number of times, or of which one
\* leaves it by an exception, still read only whole messages of the call they are
\* in: what the longer one waits for does not come, and nothing else comes.
THEOREM OneCaseContainedHolds == Spec => []OneCaseContained
<1>1. TypeOK /\ Twin => OneCaseContained
  BY InStepReads DEF Twin, OneCase, OneCaseContained
<1> QED  BY <1>1, TwinHolds, PTL

-----------------------------------------------------------------------------
(* The parties do not wait for each other.                                 *)

\* A party that is not ahead of the other one receives what the other one has
\* sent.
LEMMA BehindCanStep ==
    ASSUME TypeOK, Alike(script[0], script[1]), NEW ran \in [Party -> Nat],
           \A r \in Party : Together(r, ran),
           NEW p \in Party, ~Idle(p), ran[p] < ran[Other(p)]
    PROVE  CanStep(p)
<1> DEFINE q == Other(p)
           j == pc[p]
           bytes == script[p][j].bytes
<1>1. q \in Party /\ Other(q) = p /\ Together(p, ran) /\ Together(q, ran)
  BY Parties
<1>2. /\ ran[p] = j /\ j \in Nat /\ j \in 1 .. Len(script[p]) /\ Len(script[p]) \in Nat
      /\ Present(p).do \in Transfer => j < Len(script[p]) /\ Present(p).bytes > 0
  BY <1>1, RanUntil
<1>3. /\ ran[q] \in Nat /\ ran[q] <= pc[q] /\ pc[q] \in Nat /\ Len(script[q]) \in Nat
      /\ ran[q] > 1 => ran[q] <= Len(script[q])
      /\ \A k \in 1 .. pc[q] : reached[q][k].sent \in Nat
  BY <1>1, RanBounds
<1> SUFFICES ASSUME Present(p).do \in Transfer PROVE CanStep(p)
  BY DEF CanStep, Transfer
<1>4. /\ j \in 1 .. Len(script[p]) - 1 /\ j \in 1 .. Len(script[q]) - 1
      /\ j \in 1 .. ran[q] - 1 /\ j + 1 \in 1 .. ran[q]
  BY <1>2, <1>3
<1>5. Present(p).do = "recv"
  <2>1. SUFFICES ASSUME script[p][j].do = "send" PROVE FALSE
    BY DEF Present, Transfer
  <2>2. script[q][j].do = "recv"
    <3>1. PICK k, t : k = j /\ t = q
      OBVIOUS
    <3>2. /\ t \in Party /\ Other(t) = p /\ k \in Nat
          /\ k \in 1 .. Len(script[t]) - 1 /\ k \in 1 .. Len(script[Other(t)]) - 1
      BY <1>1, <1>2, <1>4, <3>1
    <3>3. script[Other(t)][k].do = "send" => script[t][k].do = "recv"
      BY <3>2, Opposite
    <3> QED  BY <2>1, <3>1, <3>2, <3>3
  <2>3. j \in ran[p] .. ran[q] - 1
    BY <1>2, <1>3
  <2> QED  BY <1>1, <2>2, <2>3 DEF Together, Ahead
<1>6. bytes \in Nat /\ moved[p] \in Nat /\ moved[p] < bytes /\ Present(p).bytes = bytes
  <2>1. script[p][j] \in Operation /\ Present(p) = script[p][j]
    BY <1>2 DEF TypeOK, Present
  <2>2. bytes \in Nat
    BY <2>1 DEF Operation
  <2>3. moved[p] \in Nat /\ (moved[p] > 0 => moved[p] < Present(p).bytes)
    BY DEF TypeOK
  <2> QED  BY <1>2, <2>1, <2>2, <2>3
<1>7. reached[q][j + 1].sent = reached[q][j].sent + bytes
  <2>1. Share(q, j, "send") = bytes
    <3>1. script[p][j].do = "recv"
      BY <1>5 DEF Present
    <3>2. Share(p, j, "recv") = Share(q, j, "send")
      BY <1>2, <1>4, Opposite
    <3> QED  BY <3>1, <3>2 DEF Share
  <2> QED  BY <1>1, <1>4, <2>1 DEF Together, Stepwise
<1>8. reached[q][j].sent = reached[p][j].got
  <2>1. j \in 1 .. Least(ran[q], ran[p])
    BY <1>2, <1>3 DEF Least
  <2> QED  BY <1>1, <2>1 DEF Together, Crossed
<1>9. reached[q][j + 1].sent <= sent[q]
  BY <1>1, <1>4 DEF Together, Counted
<1>10. got[p] = reached[p][j].got + moved[p]
  BY <1>1, <1>2, <1>5 DEF Together, Counted, Part
<1>11. /\ reached[q][j + 1].sent \in Nat /\ reached[q][j].sent \in Nat
       /\ sent[q] \in Nat /\ got[p] \in Nat
  <2>1. j \in 1 .. pc[q] /\ j + 1 \in 1 .. pc[q]
    BY <1>3, <1>4
  <2> QED  BY <1>1, <1>3, <2>1 DEF TypeOK
<1>12. InFlight(q) > 0 /\ InFlight(q) \in Int
  <2>1. InFlight(q) = sent[q] - got[p]
    BY <1>1 DEF InFlight
  <2> HIDE DEF q, j, bytes
  <2> QED  BY <1>6, <1>7, <1>8, <1>9, <1>10, <1>11, <2>1
<1>13. Ready(p) > 0
  BY <1>6, <1>12 DEF Ready, Least
<1> QED  BY <1>5, <1>13 DEF CanStep

\* Of two parties at the two ends of a transfer one can go on: there is something
\* in the connection, or there is room in it.
LEMMA EndsCanStep ==
    ASSUME TypeOK, NEW ran \in [Party -> Nat], \A r \in Party : Together(r, ran),
           NEW p \in Party, NEW q \in Party, q = Other(p), ~Idle(p), ~Idle(q),
           Present(p).do = "send", Present(q).do = "recv",
           moved[p] < Present(p).bytes, moved[q] < Present(q).bytes,
           Present(p).bytes \in Nat, Present(q).bytes \in Nat
    PROVE  CanStep(p) \/ CanStep(q)
<1>1. Other(q) = p
  BY Parties
<1>2. /\ InFlight(p) \in 0 .. Capacity /\ Capacity \in Nat \ {0}
      /\ moved[p] \in Nat /\ moved[q] \in Nat
  BY SizesAssumption DEF TypeOK
<1>3. CASE InFlight(p) > 0
  <2>1. Ready(q) > 0
    BY <1>1, <1>2, <1>3 DEF Ready, Least
  <2> QED  BY <2>1 DEF CanStep
<1>4. CASE InFlight(p) = 0
  <2>1. Room(p) > 0
    BY <1>2, <1>4 DEF Room, Least
  <2> QED  BY <2>1 DEF CanStep
<1> QED  BY <1>2, <1>3, <1>4

LEMMA TwinNeverStuck ==
    ASSUME TypeOK, Twin
    PROVE  NeverStuck
<1> SUFFICES ASSUME Agreed, throws = 0, NEW r \in Party, ~Idle(r)
             PROVE  \E p \in Party : CanStep(p)
  BY DEF NeverStuck
<1>1. Alike(script[0], script[1]) /\ Paired(Jobs, script[0], script[1]) /\ InStep
  BY DEF Twin
<1>2. PICK ran \in [Party -> Nat] : \A p \in Party : Together(p, ran)
  BY <1>1 DEF InStep
<1>3. ASSUME NEW p \in Party
      PROVE  /\ ran[p] \in Nat /\ ran[p] <= pc[p] /\ ran[p] >= 1
             /\ pc[p] \in Nat /\ Len(script[p]) \in Nat /\ pc[p] <= Len(script[p]) + 1
             /\ ran[p] < pc[p] => ran[p] = pc[p] - 1
             /\ Idle(p) <=> pc[p] = Len(script[p]) + 1
             /\ ran[p] > 1 => ran[p] <= Len(script[p])
  <2>1. Together(p, ran)
    BY <1>2
  <2>2. /\ ran[p] \in Nat /\ ran[p] <= pc[p] /\ ran[p] >= 1
        /\ pc[p] \in Nat /\ Len(script[p]) \in Nat /\ pc[p] <= Len(script[p]) + 1
        /\ ran[p] > 1 => ran[p] <= Len(script[p])
    BY <2>1, RanBounds
  <2>3. ran[p] < pc[p] => ran[p] = pc[p] - 1
    BY <2>1 DEF Together, Left
  <2> QED  BY <2>2, <2>3 DEF Idle
<1>4. \A p \in Party : Other(p) \in Party /\ Other(Other(p)) = p
  BY Parties
<1>5. \A p \in Party : Len(script[p]) = Len(script[Other(p)])
  BY <1>1 DEF Paired, Party, Other
\* The one that is behind, or not at its end.
<1>6. PICK p \in Party : ~Idle(p) /\ ran[p] <= ran[Other(p)]
  <2>1. SUFFICES ASSUME ran[Other(r)] < ran[r]
                 PROVE  ~Idle(Other(r)) /\ ran[Other(r)] <= ran[Other(Other(r))]
    BY <1>3, <1>4
  <2>2. ran[r] <= Len(script[r])
    BY <1>3, <1>4, <2>1
  <2>3. ~Idle(Other(r))
    <3>1. /\ Other(r) \in Party /\ Len(script[Other(r)]) = Len(script[r])
          /\ ran[Other(r)] \in Nat /\ pc[Other(r)] \in Nat /\ ran[r] \in Nat
      BY <1>3, <1>4, <1>5
    <3>2. SUFFICES ASSUME pc[Other(r)] = Len(script[r]) + 1 PROVE FALSE
      BY <1>3, <3>1
    <3>3. ran[Other(r)] >= Len(script[r])
      BY <1>3, <3>1, <3>2
    <3> QED  BY <1>3, <2>1, <2>2, <3>1, <3>3
  <2> QED  BY <1>3, <1>4, <2>1, <2>3
<1> DEFINE q == Other(p)
           j == pc[p]
<1>7. /\ ran[p] = j /\ j \in Nat /\ j \in 1 .. Len(script[p]) /\ Len(script[p]) \in Nat
      /\ Present(p).do \in Transfer => j < Len(script[p]) /\ Present(p).bytes > 0
  BY <1>1, <1>2, <1>6, RanUntil
<1>8. CASE ran[p] < ran[q]
  <2>1. CanStep(p)
    BY <1>1, <1>2, <1>6, <1>8, BehindCanStep
  <2> QED  BY <2>1
<1>9. CASE Present(p).do \notin Transfer
  <2>1. CanStep(p)
    BY <1>6, <1>9 DEF CanStep, Transfer
  <2> QED  BY <2>1
<1>10. CASE ran[p] = ran[q] /\ Present(p).do \in Transfer
  <2>1. q \in Party /\ Other(q) = p /\ Len(script[q]) = Len(script[p])
    BY <1>4, <1>5
  <2>2. /\ ran[q] = j /\ pc[q] \in Nat /\ pc[q] = j /\ ~Idle(q)
        /\ j \in 1 .. Len(script[p]) - 1 /\ j \in 1 .. Len(script[q]) - 1
    <3>1. /\ j < Len(script[q]) /\ ran[q] = j
      BY <1>7, <1>10, <2>1
    <3>2. ran[q] < pc[q] => Idle(q) /\ ran[q] = pc[q] - 1
      BY <1>2, <2>1 DEF Together, Left
    <3>3. pc[q] \in Nat /\ ran[q] <= pc[q] /\ (Idle(q) <=> pc[q] = Len(script[q]) + 1)
      BY <1>3, <2>1
    <3> QED  BY <1>7, <2>1, <3>1, <3>2, <3>3
  <2>3. Present(p) = script[p][j] /\ Present(q) = script[q][j]
    BY <2>2 DEF Present
  <2>4. Present(p).bytes \in Nat /\ Present(q).bytes \in Nat
    <3>1. Present(p) \in Operation /\ Present(q) \in Operation
      <4>1. script[p] \in Seq(Operation) /\ script[q] \in Seq(Operation)
        BY <2>1 DEF TypeOK
      <4>2. j \in 1 .. Len(script[p]) /\ j \in 1 .. Len(script[q])
        BY <1>7, <2>1
      <4> QED  BY <2>3, <4>1, <4>2
    <3> QED  BY <3>1 DEF Operation
  <2>5. /\ Present(p).do = "send" => Present(q).do = "recv"
        /\ Present(p).do = "recv" => Present(q).do = "send"
    <3>1. /\ script[q][j].do = "send" => script[p][j].do = "recv"
          /\ script[p][j].do = "recv" => script[q][j].do = "send"
          /\ script[p][j].do = "send" => script[q][j].do = "recv"
      BY <1>1, <1>7, <2>1, <2>2, Opposite, SMTT(30)
    <3> QED  BY <2>3, <3>1
  <2>6. Present(q).do \in Transfer
    BY <1>10, <2>5 DEF Transfer
  <2>7. Present(q).bytes > 0
    BY <1>1, <1>2, <2>1, <2>2, <2>6, RanUntil
  <2>8. moved[p] < Present(p).bytes /\ moved[q] < Present(q).bytes
    <3>1. /\ moved[p] \in Nat /\ (moved[p] > 0 => moved[p] < Present(p).bytes)
          /\ moved[q] \in Nat /\ (moved[q] > 0 => moved[q] < Present(q).bytes)
      BY <2>1 DEF TypeOK
    <3> QED  BY <1>7, <1>10, <2>4, <2>7, <3>1
  <2>9. CASE Present(p).do = "send"
    <3>1. CanStep(p) \/ CanStep(q)
      BY <1>2, <1>6, <2>1, <2>2, <2>4, <2>5, <2>8, <2>9, EndsCanStep
    <3> QED  BY <2>1, <3>1
  <2>10. CASE Present(p).do = "recv"
    <3>1. CanStep(q) \/ CanStep(p)
      BY <1>2, <1>6, <2>1, <2>2, <2>4, <2>5, <2>8, <2>10, EndsCanStep
    <3> QED  BY <2>1, <3>1
  <2> QED  BY <1>10, <2>9, <2>10 DEF Transfer
<1> QED
  <2>1. ran[p] < ran[q] \/ ran[p] = ran[q]
    BY <1>3, <1>4, <1>6
  <2> QED  BY <1>8, <1>9, <1>10, <2>1

\* Two parties that run the same case never wait for each other: for every capacity
\* of the connection, every message size and number of calls, one of them can go on.
THEOREM NeverStuckHolds == Spec => []NeverStuck
<1>1. TypeOK /\ Twin => NeverStuck
  BY TwinNeverStuck
<1> QED  BY <1>1, TwinHolds, PTL

-----------------------------------------------------------------------------
(* What the objects hold.                                                  *)

\* The calls that a party has made in its present job have left their sizes.
HeldOf(p) ==
    \A l \in 1 .. pc[p] - 1 : ~Idle(p) /\ InRun(script[p], l, pc[p]) =>
        /\ script[p][l].what = "offers" => held[p].base = BaseOtSizes(script[p][l].job)
        /\ script[p][l].what = "set_base_ots" => held[p].prng >= BaseOtSizes(script[p][l].job)
        /\ script[p][l].what = "matrix" /\ script[p][l].do = "recv"
               /\ script[p][l].job = "kkrt_ot" => held[p].q_mat = Pad(ExtOts)

Equipped == \A p \in Party : Orderly(script[p]) /\ HeldOf(p)

\* Nothing but the log line at the beginning of a job makes new objects.
LEMMA HoldingKeeps ==
    ASSUME NEW h \in Holdings, NEW op \in Operation, op.do # "begin",
           NEW g, g = Holding(h, op)
    PROVE  /\ g.base = h.base \/ g.base = BaseOtSizes(op.job)
           /\ g.prng >= h.prng
           /\ g.q_mat = h.q_mat \/ g.q_mat = Pad(ExtOts)
           /\ op.what = "offers" => g.base = BaseOtSizes(op.job)
           /\ op.what = "set_base_ots" => g.prng = h.prng + h.base
           /\ op.what = "matrix" /\ op.do = "recv" /\ op.job = "kkrt_ot" => g.q_mat = Pad(ExtOts)
<1>1. h.base \in Nat /\ h.prng \in Nat /\ h.q_mat \in Nat
  BY DEF Holdings
<1>2. CASE op.what = "offers"
  <2>1. g = [h EXCEPT !.base = BaseOtSizes(op.job)]
    BY <1>2 DEF Holding
  <2> QED  BY <1>1, <1>2, <2>1 DEF Holdings
<1>3. CASE op.what = "set_base_ots"
  <2>1. g = [h EXCEPT !.prng = h.prng + h.base]
    BY <1>3 DEF Holding
  <2> QED  BY <1>1, <1>3, <2>1 DEF Holdings
<1>4. CASE op.what = "matrix" /\ op.do = "recv" /\ op.job = "kkrt_ot"
  <2>1. g = [h EXCEPT !.q_mat = Pad(ExtOts)]
    BY <1>4 DEF Holding
  <2> QED  BY <1>1, <1>4, <2>1 DEF Holdings
<1>5. CASE /\ op.what # "offers" /\ op.what # "set_base_ots"
           /\ ~(op.what = "matrix" /\ op.do = "recv" /\ op.job = "kkrt_ot")
  <2>1. g = h
    BY <1>5 DEF Holding
  <2> QED  BY <1>1, <1>5, <2>1
<1> QED  BY <1>2, <1>3, <1>4, <1>5

\* A step of the other party, or a part of a transfer.
LEMMA HeldStays ==
    ASSUME NEW p, HeldOf(p), script' = script, pc'[p] = pc[p], held'[p] = held[p]
    PROVE  HeldOf(p)'
<1>1. Idle(p)' <=> Idle(p)
  BY DEF Idle
<1>2. script'[p] = script[p]
  OBVIOUS
<1> QED  BY <1>1, <1>2 DEF HeldOf

LEMMA CompleteHeld ==
    ASSUME TypeOK, Equipped, NEW p \in Party, ~Idle(p), Complete(p), script' = script
    PROVE  Equipped'
<1> DEFINE s == script[p]
           a == pc[p]
           op == Present(p)
           h == held[p]
           g == Holding(h, op)
<1>1. /\ a \in Nat \ {0} /\ Len(s) \in Nat /\ a \in 1 .. Len(s) /\ op = s[a]
      /\ op \in Operation /\ h \in Holdings
  <2>1. a \in Nat /\ Len(s) \in Nat /\ a \in 1 .. Len(s) + 1 /\ s \in Seq(Operation)
    BY DEF TypeOK
  <2>2. a \in 1 .. Len(s)
    BY <2>1 DEF Idle
  <2> QED  BY <2>1, <2>2 DEF TypeOK, Present
<1>2. pc'[p] = a + 1 /\ held'[p] = g /\ script'[p] = s
  BY DEF Complete, TypeOK
<1>3. Orderly(s) /\ HeldOf(p) /\ OrderlyAt(s, a)
  BY <1>1 DEF Equipped, Orderly
<1>4. ASSUME NEW r \in Party, r # p PROVE HeldOf(r)'
  <2>1. pc'[r] = pc[r] /\ held'[r] = held[r]
    BY <1>4 DEF Complete, TypeOK
  <2> QED  BY <2>1, HeldStays DEF Equipped
<1>5. ASSUME NEW l \in 1 .. a, InRun(s, l, a + 1)
      PROVE  /\ s[l].what = "offers" => g.base = BaseOtSizes(s[l].job)
             /\ s[l].what = "set_base_ots" => g.prng >= BaseOtSizes(s[l].job)
             /\ s[l].what = "matrix" /\ s[l].do = "recv" /\ s[l].job = "kkrt_ot" =>
                    g.q_mat = Pad(ExtOts)
  <2>1. InRun(s, l, a) /\ s[l].job = s[a].job
    <3>1. \A i \in l .. a + 1 : s[i].job = s[a + 1].job
      BY <1>5 DEF InRun
    <3>2. PICK t, c, b : t = s /\ c = a /\ b = a + 1
      OBVIOUS
    <3> HIDE DEF s, a, op, h, g
    <3>3. c \in Nat /\ l \in 1 .. c /\ b = c + 1
      BY <1>1, <3>2
    <3>4. c \in l .. b /\ l \in l .. b /\ \A i \in l .. c : i \in l .. b
      BY <3>3
    <3>5. \A i \in l .. b : t[i].job = t[b].job
      BY <3>1, <3>2
    <3>6. t[c].job = t[b].job /\ t[l].job = t[b].job
      BY <3>4, <3>5
    <3>7. \A i \in l .. c : t[i].job = t[c].job
      BY <3>4, <3>5, <3>6
    <3> QED  BY <3>2, <3>6, <3>7 DEF InRun
  <2>2. CASE op.do = "begin"
    <3>1. op.what \in Jobs /\ (a > 1 => s[a - 1].job # s[a].job)
      BY <1>1, <1>3, <2>2 DEF OrderlyAt
    <3>2. l = a
      <4>1. SUFFICES ASSUME l # a PROVE FALSE
        OBVIOUS
      <4>2. a - 1 \in l .. a /\ a > 1
        BY <1>1, <4>1
      <4> QED  BY <2>1, <3>1, <4>2 DEF InRun
    <3> QED  BY <1>1, <3>1, <3>2 DEF Jobs
  <2>3. CASE op.do # "begin"
    <3>1. PICK f : f = g
      OBVIOUS
    <3>2. /\ f.base = h.base \/ f.base = BaseOtSizes(op.job)
          /\ f.prng >= h.prng
          /\ f.q_mat = h.q_mat \/ f.q_mat = Pad(ExtOts)
          /\ op.what = "offers" => f.base = BaseOtSizes(op.job)
          /\ op.what = "set_base_ots" => f.prng = h.prng + h.base
          /\ op.what = "matrix" /\ op.do = "recv" /\ op.job = "kkrt_ot" => f.q_mat = Pad(ExtOts)
      BY <1>1, <2>3, <3>1, HoldingKeeps
    <3>3. f \in Holdings /\ BaseOtSizes(op.job) \in Nat
      BY <1>1, <3>1, HoldingType, SizesAssumption, SMTT(30) DEF BaseOtSizes
    <3>4. f.prng \in Nat /\ h.prng \in Nat /\ h.base \in Nat
      BY <1>1, <3>3 DEF Holdings
    <3>5. CASE l = a
      <4>1. op.what = "set_base_ots" => h.base = BaseOtSizes(op.job)
        <5>1. SUFFICES ASSUME op.what = "set_base_ots" PROVE h.base = BaseOtSizes(op.job)
          OBVIOUS
        <5>2. PICK i \in 1 .. a - 1 : InRun(s, i, a) /\ s[i].what = "offers"
          BY <1>1, <1>3, <5>1 DEF OrderlyAt, Preceded
        <5>3. h.base = BaseOtSizes(s[i].job)
          BY <1>3, <5>2 DEF HeldOf
        <5>4. s[i].job = op.job
          BY <1>1, <5>2 DEF InRun
        <5> QED  BY <5>3, <5>4
      <4>2. s[l] = op
        BY <1>1, <3>5
      <4> HIDE DEF s, a, op, h, g
      <4> QED  BY <3>1, <3>2, <3>3, <3>4, <4>1, <4>2
    <3>6. CASE l # a
      <4>1. l \in 1 .. a - 1
        BY <1>1, <3>6
      <4>2. /\ s[l].what = "offers" => h.base = BaseOtSizes(s[l].job)
            /\ s[l].what = "set_base_ots" => h.prng >= BaseOtSizes(s[l].job)
            /\ s[l].what = "matrix" /\ s[l].do = "recv" /\ s[l].job = "kkrt_ot" =>
                   h.q_mat = Pad(ExtOts)
        BY <1>3, <2>1, <4>1 DEF HeldOf
      <4>3. s[l].job = op.job
        BY <1>1, <2>1
      <4> HIDE DEF s, a, op, h, g
      <4> QED  BY <3>1, <3>2, <3>3, <3>4, <4>2, <4>3
    <3> QED  BY <3>5, <3>6
  <2> QED  BY <2>2, <2>3
<1>6. HeldOf(p)'
  <2>1. pc'[p] - 1 = a
    BY <1>1, <1>2
  <2> HIDE DEF s, a, op, h, g
  <2>2. ASSUME NEW l \in 1 .. a, InRun(s, l, a + 1)
        PROVE  /\ s[l].what = "offers" => held'[p].base = BaseOtSizes(s[l].job)
               /\ s[l].what = "set_base_ots" => held'[p].prng >= BaseOtSizes(s[l].job)
               /\ s[l].what = "matrix" /\ s[l].do = "recv" /\ s[l].job = "kkrt_ot" =>
                      held'[p].q_mat = Pad(ExtOts)
    BY <1>2, <1>5, <2>2
  <2>3. ASSUME NEW l \in 1 .. pc'[p] - 1, InRun(script'[p], l, pc'[p])
        PROVE  /\ script'[p][l].what = "offers" =>
                      held'[p].base = BaseOtSizes(script'[p][l].job)
               /\ script'[p][l].what = "set_base_ots" =>
                      held'[p].prng >= BaseOtSizes(script'[p][l].job)
               /\ script'[p][l].what = "matrix" /\ script'[p][l].do = "recv"
                      /\ script'[p][l].job = "kkrt_ot" => held'[p].q_mat = Pad(ExtOts)
    <3>1. l \in 1 .. a /\ InRun(s, l, a + 1)
      BY <1>2, <2>1, <2>3
    <3> QED  BY <1>2, <2>2, <3>1
  <2> QED  BY <2>3 DEF HeldOf
<1> QED  BY <1>3, <1>4, <1>6 DEF Equipped

\* An exception leads into another job, of which nothing has run.
LEMMA ThrowHeld ==
    ASSUME TypeOK, Equipped, NEW p \in Party, Throw(p)
    PROVE  Equipped'
<1>1. PICK a : a = AfterJob(p)
  OBVIOUS
<1>2. /\ ~Idle(p) /\ pc' = [pc EXCEPT ![p] = a] /\ script' = script /\ held' = held
  BY <1>1 DEF Throw
<1>3. /\ a \in pc[p] .. Len(script[p]) + 1
      /\ \A k \in pc[p] .. a - 1 : script[p][k].job = Present(p).job
      /\ a <= Len(script[p]) => script[p][a].job # Present(p).job
      /\ pc[p] \in Nat \ {0} /\ Len(script[p]) \in Nat
  BY <1>1, AfterJobPlace, SMTT(30) DEF TypeOK
<1>4. HeldOf(p)'
  <2>1. SUFFICES ASSUME NEW l \in 1 .. a - 1, a <= Len(script[p]), InRun(script[p], l, a)
                 PROVE  FALSE
    <3>1. pc'[p] = a
      BY <1>2 DEF TypeOK
    <3>2. ASSUME NEW l \in 1 .. a - 1, ~Idle(p)', InRun(script'[p], l, a) PROVE FALSE
      <4>1. a <= Len(script[p]) /\ InRun(script[p], l, a)
        BY <1>2, <1>3, <3>1, <3>2 DEF Idle
      <4> QED  BY <2>1, <4>1
    <3> QED  BY <3>1, <3>2 DEF HeldOf
  <2>2. a # pc[p]
    BY <1>3, <2>1 DEF Present
  <2>3. a - 1 \in pc[p] .. a - 1 /\ a - 1 \in l .. a
    BY <1>3, <2>2
  <2>4. script[p][a - 1].job = script[p][a].job
    BY <2>1, <2>3 DEF InRun
  <2> QED  BY <1>3, <2>1, <2>3, <2>4
<1>5. ASSUME NEW r \in Party, r # p PROVE HeldOf(r)'
  <2>1. pc'[r] = pc[r] /\ held'[r] = held[r]
    BY <1>2, <1>5 DEF TypeOK
  <2> QED  BY <1>2, <2>1, HeldStays DEF Equipped
<1>6. \A r \in Party : Orderly(script'[r])
  BY <1>2 DEF Equipped
<1> QED  BY <1>4, <1>5, <1>6 DEF Equipped

LEMMA ConnectHeld ==
    ASSUME NEW scripts, Connect(scripts), \A p \in Party : Orderly(scripts[p])
    PROVE  Equipped'
<1>1. script' = scripts /\ pc' = [p \in Party |-> 1]
  BY DEF Connect
<1>2. ASSUME NEW p \in Party PROVE HeldOf(p)'
  <2>1. pc'[p] - 1 = 0
    BY <1>1
  <2>2. \A l \in 1 .. 0 : FALSE
    OBVIOUS
  <2> QED  BY <2>1, <2>2 DEF HeldOf
<1>3. \A p \in Party : Orderly(script'[p])
  BY <1>1
<1> QED  BY <1>2, <1>3 DEF Equipped

LEMMA InitHeld == Init => Equipped
<1> SUFFICES ASSUME Init, NEW p \in Party PROVE Orderly(script[p]) /\ HeldOf(p)
  BY DEF Equipped
<1>1. script[p] = <<>> /\ pc[p] = 1
  BY DEF Init
<1>2. HeldOf(p)
  <2>1. pc[p] - 1 = 0
    BY <1>1
  <2>2. \A l \in 1 .. 0 : FALSE
    OBVIOUS
  <2> QED  BY <2>1, <2>2 DEF HeldOf
<1>3. Orderly(<<>>)
  BY DEF Orderly
<1> QED  BY <1>1, <1>2, <1>3

LEMMA StepHeld == TypeOK /\ Equipped /\ [Next]_vars => Equipped'
<1> SUFFICES ASSUME TypeOK, Equipped, [Next]_vars PROVE Equipped'
  OBVIOUS
<1>1. CASE BenchConnect
  <2> DEFINE scripts == [p \in Party |-> BenchMain(command[p].case, p, command[p].number)]
  <2>1. Connect(scripts)
    BY <1>1 DEF BenchConnect
  <2>2. ASSUME NEW p \in Party PROVE Orderly(scripts[p])
    <3>1. command[p].number \in Nat /\ scripts[p] = BenchMain(command[p].case, p, command[p].number)
      BY DEF TypeOK, CommandLine
    <3>2. PICK case, n : case = command[p].case /\ n = command[p].number
      OBVIOUS
    <3>3. Orderly(BenchMain(case, p, n))
      BY <3>1, <3>2, BenchMainOrderly
    <3> QED  BY <3>1, <3>2, <3>3
  <2> HIDE DEF scripts
  <2> QED  BY <2>1, <2>2, ConnectHeld
<1>2. CASE ExampleConnect
  <2>1. PICK selection \in [Party -> Jobs] :
            Connect([p \in Party |-> Example(selection[p], p)])
    BY <1>2 DEF ExampleConnect
  <2> DEFINE scripts == [p \in Party |-> Example(selection[p], p)]
  <2>2. ASSUME NEW p \in Party PROVE Orderly(scripts[p])
    <3>1. PICK job, s : job = selection[p] /\ s = Example(job, p)
      OBVIOUS
    <3>2. job \in Jobs
      BY <3>1
    <3> QED  BY <3>1, <3>2, ExampleOrderly
  <2>3. Connect(scripts)
    BY <2>1
  <2> HIDE DEF scripts
  <2> QED  BY <2>2, <2>3, ConnectHeld
<1>3. ASSUME NEW p \in Party, Step(p) PROVE Equipped'
  <2>1. script' = script /\ ~Idle(p)
    BY <1>3 DEF Step, SendData, RecvData, RunLocal
  <2>2. CASE Complete(p)
    BY <2>1, <2>2, CompleteHeld
  <2>3. CASE UNCHANGED <<pc, held>>
    <3>1. \A r \in Party : HeldOf(r)'
      BY <2>1, <2>3, HeldStays DEF Equipped
    <3> QED  BY <2>1, <3>1 DEF Equipped
  <2> QED  BY <1>3, <2>2, <2>3 DEF Step, SendData, RecvData, RunLocal, Progress
<1>4. ASSUME NEW p \in Party, Throw(p) PROVE Equipped'
  BY <1>4, ThrowHeld
<1>5. CASE UNCHANGED vars
  <2>1. script' = script /\ pc' = pc /\ held' = held
    BY <1>5 DEF vars
  <2>2. \A r \in Party : HeldOf(r)'
    BY <2>1, HeldStays DEF Equipped
  <2> QED  BY <2>1, <2>2 DEF Equipped
<1> QED  BY <1>1, <1>2, <1>3, <1>4, <1>5 DEF Next

\* In each job the objects hold what the calls before have left in them: the
\* sizes of the base OT, generators for every row, the rows of the matrix.
THEOREM EquippedHolds == Spec => [](TypeOK /\ Equipped)
<1>1. Init => TypeOK /\ Equipped
  BY InitType, InitHeld
<1>2. TypeOK /\ Equipped /\ [Next]_vars => (TypeOK /\ Equipped)'
  BY StepType, StepHeld
<1> QED  BY <1>1, <1>2, PTL DEF Spec

\* A smaller divisor gives no less.
LEMMA DivAntitone ==
    ASSUME NEW n \in Nat, NEW w \in Nat \ {0}, NEW b \in 1 .. w
    PROVE  n \div b >= n \div w
<1>1. PICK c, d : c = n \div b /\ d = n \div w
  OBVIOUS
<1>2. c \in Nat /\ d \in Nat /\ b \in Nat \ {0} /\ b <= w
  BY <1>1
<1>3. n < b * c + b /\ w * d <= n
  BY <1>1, <1>2
<1>4. SUFFICES ASSUME c + 1 <= d PROVE FALSE
  BY <1>1, <1>2
<1>5. b * d <= w * d
  <2>1. PICK e \in Nat : w = b + e
    <3>1. w - b \in Nat /\ w = b + (w - b)
      BY <1>2
    <3> QED  BY <3>1
  <2>2. e * d \in Nat /\ (b + e) * d = b * d + e * d /\ b * d \in Nat
    BY <1>2, <2>1
  <2> QED  BY <2>1, <2>2
<1>6. b * c + b <= b * d
  <2>1. PICK e \in Nat : d = c + 1 + e
    <3>1. d - (c + 1) \in Nat /\ d = c + 1 + (d - (c + 1))
      BY <1>2, <1>4
    <3> QED  BY <3>1
  <2>2. b * e \in Nat /\ b * (c + 1 + e) = b * c + b + b * e /\ b * c \in Nat
    BY <1>2, <2>1
  <2> QED  BY <2>1, <2>2
<1>7. b * c \in Nat /\ b * d \in Nat /\ w * d \in Nat
  BY <1>2
<1> QED  BY <1>2, <1>3, <1>5, <1>6, <1>7

LEMMA EquippedDuties ==
    ASSUME TypeOK, Equipped
    PROVE  DutiesMet
<1> SUFFICES ASSUME NEW p \in Party, ~Idle(p)
             PROVE  LET op == Present(p)
                        rows == BaseOtSizes(op.job)
                    IN  /\ op.do = "recv" /\ op.what = "keys" => W * BaseChoices(op.job) >= rows
                        /\ op.what = "matrix" => /\ rows > 0 /\ rows % W = 0
                                                 /\ held[p].prng >= rows
                        /\ op.do = "send" /\ op.what = "matrix" /\ op.job = "iknp_ot" =>
                               ExtChoices(op.job) >= ExtOts \div W
                        /\ op.what = "encode" => held[p].q_mat >= Shown
  BY DEF DutiesMet
<1> DEFINE s == script[p]
           a == pc[p]
           op == Present(p)
           rows == BaseOtSizes(op.job)
<1>1. /\ a \in Nat \ {0} /\ Len(s) \in Nat /\ a \in 1 .. Len(s) /\ op = s[a]
      /\ op \in Operation
  <2>1. a \in Nat /\ Len(s) \in Nat /\ a \in 1 .. Len(s) + 1 /\ s \in Seq(Operation)
    BY DEF TypeOK
  <2>2. a \in 1 .. Len(s)
    BY <2>1 DEF Idle
  <2> QED  BY <2>1, <2>2 DEF Present
<1>2. HeldOf(p) /\ OrderlyAt(s, a)
  BY <1>1 DEF Equipped, Orderly
<1>3. /\ W \in Nat \ {0} /\ BlockLen \in 1 .. W /\ ExtOts \in Nat \ {0} /\ ExtOts % W = 0
      /\ Shown \in 0 .. ExtOts
  BY SizesAssumption
<1>4. op.job = "kkrt_ot" \/ op.job # "kkrt_ot"
  OBVIOUS
<1>5. W * BaseChoices(op.job) >= rows
  BY <1>3 DEF BaseChoices, BaseOtSizes
<1>6. rows > 0 /\ rows % W = 0
  <2>1. W % W = 0 /\ (4 * W) % W = 0
    BY <1>3
  <2> QED  BY <1>3, <2>1 DEF BaseOtSizes
<1>7. op.what = "matrix" => held[p].prng >= rows
  <2>1. SUFFICES ASSUME op.what = "matrix" PROVE held[p].prng >= rows
    OBVIOUS
  <2>2. PICK l \in 1 .. a - 1 : InRun(s, l, a) /\ s[l].what = "set_base_ots"
    BY <1>1, <1>2, <2>1 DEF OrderlyAt, Preceded
  <2>3. s[l].job = op.job
    BY <1>1, <2>2 DEF InRun
  <2> QED  BY <1>2, <2>2, <2>3 DEF HeldOf
<1>8. op.job = "iknp_ot" => ExtChoices(op.job) >= ExtOts \div W
  <2>1. ExtOts \div BlockLen >= ExtOts \div W
    BY <1>3, DivAntitone
  <2> QED  BY <2>1 DEF ExtChoices
<1>9. op.what = "encode" => held[p].q_mat >= Shown
  <2>1. SUFFICES ASSUME op.what = "encode" PROVE held[p].q_mat >= Shown
    OBVIOUS
  <2>2. op.job = "kkrt_ot" /\ Received(s, a)
    BY <1>1, <1>2, <2>1 DEF OrderlyAt
  <2>3. PICK l \in 1 .. a - 1 : InRun(s, l, a) /\ s[l].what = "matrix" /\ s[l].do = "recv"
    BY <2>2 DEF Received
  <2>4. s[l].job = "kkrt_ot"
    BY <1>1, <2>2, <2>3 DEF InRun
  <2>5. held[p].q_mat = Pad(ExtOts)
    BY <1>2, <2>3, <2>4 DEF HeldOf
  <2> QED  BY <1>3, <2>5, PadWhole
<1> QED  BY <1>5, <1>6, <1>7, <1>8, <1>9

\* What a call demands of its caller holds whenever a program makes one, after an
\* exception too.
THEOREM DutiesMetHolds == Spec => []DutiesMet
<1>1. TypeOK /\ Equipped => DutiesMet
  BY EquippedDuties
<1> QED  BY <1>1, EquippedHolds, PTL
=============================================================================
