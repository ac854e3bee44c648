--------------------------- MODULE VerseSessionPaths ---------------------------
(***************************************************************************)
(* What two parties that run the same case exchange before an exception    *)
(* leaves out a transfer, in the case of several protocols too, for every  *)
(* size, capacity and number of iterations.  The inductive invariant is    *)
(* about each party alone: Walked says that its counters grow at every     *)
(* place by the bytes of the operation there, or not at all where an       *)
(* exception has left it out.  That the two parties agree, place by place  *)
(* until the first transfer that is left out, follows in each state.       *)
(***************************************************************************)
EXTENDS VerseSessionProofs

-----------------------------------------------------------------------------
(* The path of a party.                                                    *)

\* The operation at place k has moved all its bytes, or none.
Ran(p, k) ==
    /\ reached[p][k + 1].sent = reached[p][k].sent + Share(p, k, "send")
    /\ reached[p][k + 1].got = reached[p][k].got + Share(p, k, "recv")

Skipped(p, k) ==
    reached[p][k + 1].sent = reached[p][k].sent /\ reached[p][k + 1].got = reached[p][k].got

Rising(p) ==
    \A k, l \in 1 .. pc[p] : k <= l => reached[p][k].got <= reached[p][l].got

Walked(p) ==
    /\ reached[p][1] = Fresh
    /\ \A k \in 1 .. pc[p] - 1 : Ran(p, k) \/ Skipped(p, k)
    /\ Rising(p)
    /\ sent[p] = reached[p][pc[p]].sent + Part(p, "send")
    /\ got[p] = reached[p][pc[p]].got + Part(p, "recv")

\* The scripts of parties that run the same case mirror each other.
Fitted == Agreed => Paired(Jobs, script[0], script[1])

Paths == Fitted /\ \A p \in Party : Walked(p)

\* What the types say of a party's place.
LEMMA PlaceBounds ==
    ASSUME TypeOK, NEW p \in Party
    PROVE  /\ pc[p] \in Nat /\ Len(script[p]) \in Nat /\ pc[p] >= 1
           /\ pc[p] <= Len(script[p]) + 1
           /\ DOMAIN script[p] = 1 .. Len(script[p])
           /\ moved[p] \in Nat /\ sent[p] \in Nat /\ got[p] \in Nat
           /\ \A k \in 1 .. pc[p] : /\ reached[p][k] \in Place
                                    /\ reached[p][k].sent \in Nat /\ reached[p][k].got \in Nat
           /\ \A k \in 1 .. Len(script[p]) : /\ script[p][k] \in Operation
                                             /\ script[p][k].bytes \in Nat
<1>1. /\ pc[p] \in Nat /\ script[p] \in Seq(Operation) /\ pc[p] \in 1 .. Len(script[p]) + 1
      /\ reached[p] \in Seq(Place) /\ Len(reached[p]) = pc[p]
      /\ moved[p] \in Nat /\ sent[p] \in Nat /\ got[p] \in Nat
  BY DEF TypeOK
<1>2. Len(script[p]) \in Nat /\ DOMAIN script[p] = 1 .. Len(script[p])
  BY <1>1
<1>3. ASSUME NEW k \in 1 .. pc[p]
      PROVE  /\ reached[p][k] \in Place
             /\ reached[p][k].sent \in Nat /\ reached[p][k].got \in Nat
  <2>1. reached[p][k] \in Place
    BY <1>1
  <2> QED  BY <2>1 DEF Place
<1>4. ASSUME NEW k \in 1 .. Len(script[p])
      PROVE  script[p][k] \in Operation /\ script[p][k].bytes \in Nat
  <2>1. script[p][k] \in Operation
    BY <1>1
  <2> QED  BY <2>1 DEF Operation
<1> QED  BY <1>1, <1>2, <1>3, <1>4

LEMMA ShareType ==
    ASSUME TypeOK, NEW p \in Party, NEW k \in 1 .. Len(script[p]), NEW do
    PROVE  Share(p, k, do) \in Nat
BY PlaceBounds DEF Share

-----------------------------------------------------------------------------
(* The steps of a party.                                                   *)

\* A completed operation adds a place.
LEMMA CameWalked ==
    ASSUME TypeOK, NEW p \in Party, Walked(p), Came(p)
    PROVE  Walked(p)'
<1> DEFINE a == pc[p]
           f == reached[p]
           g == reached'[p]
<1>1. /\ a \in Nat /\ a >= 1 /\ a \in 1 .. Len(script[p])
      /\ \A k \in 1 .. a : f[k].sent \in Nat /\ f[k].got \in Nat
  BY PlaceBounds DEF Came, Idle
<1>2. /\ pc'[p] = a + 1 /\ script' = script /\ moved'[p] = 0
      /\ \A k \in 1 .. a : g[k] = f[k]
      /\ g[a + 1].sent = sent'[p] /\ g[a + 1].got = got'[p]
      /\ sent'[p] = f[a].sent + Share(p, a, "send")
      /\ got'[p] = f[a].got + Share(p, a, "recv")
  BY DEF Came
<1>3. Share(p, a, "send") \in Nat /\ Share(p, a, "recv") \in Nat
  BY <1>1, ShareType
<1> HIDE DEF a, f, g
<1>4. g[1] = Fresh
  BY <1>1, <1>2 DEF Walked, f
<1>5. ASSUME NEW k \in 1 .. a PROVE Ran(p, k)' \/ Skipped(p, k)'
  <2>1. Share(p, k, "send")' = Share(p, k, "send") /\ Share(p, k, "recv")' = Share(p, k, "recv")
    BY <1>2 DEF Share
  <2>2. CASE k = a
    <3>1. g[k] = f[k]
      BY <1>2
    <3> QED  BY <1>2, <2>1, <2>2, <3>1 DEF Ran, g
  <2>3. CASE k # a
    <3>1. k \in 1 .. a - 1 /\ k + 1 \in 1 .. a /\ k \in 1 .. a
      BY <1>1, <2>3
    <3>2. g[k] = f[k] /\ g[k + 1] = f[k + 1]
      BY <1>2, <3>1
    <3>3. Ran(p, k) \/ Skipped(p, k)
      BY <3>1 DEF Walked, a
    <3> QED  BY <2>1, <3>2, <3>3 DEF Ran, Skipped, f, g
  <2> QED  BY <2>2, <2>3
<1>6. ASSUME NEW k \in 1 .. a + 1, NEW l \in 1 .. a + 1, k <= l PROVE g[k].got <= g[l].got
  <2>1. ASSUME NEW i \in 1 .. a, NEW j \in 1 .. a, i <= j
        PROVE  f[i].got <= f[j].got /\ f[i].got \in Nat /\ f[j].got \in Nat
    BY <1>1, <2>1 DEF Walked, Rising, a, f
  <2>2. CASE l \in 1 .. a
    <3>1. k \in 1 .. a
      BY <1>1, <1>6, <2>2
    <3> QED  BY <1>2, <1>6, <2>1, <2>2, <3>1
  <2>3. CASE l = a + 1 /\ k \in 1 .. a
    <3>1. a \in 1 .. a /\ k <= a
      BY <1>1, <2>3
    <3>2. f[k].got <= f[a].got /\ f[k].got \in Nat /\ f[a].got \in Nat /\ g[k] = f[k]
      BY <1>2, <2>1, <2>3, <3>1
    <3> QED  BY <1>2, <1>3, <2>3, <3>2
  <2>4. CASE l = a + 1 /\ k = a + 1
    <3>1. g[l].got = f[a].got + Share(p, a, "recv") /\ f[a].got \in Nat
      BY <1>1, <1>2, <2>4
    <3> QED  BY <1>3, <2>4, <3>1
  <2> QED  BY <1>1, <1>6, <2>2, <2>3, <2>4
<1>7. Part(p, "send")' = 0 /\ Part(p, "recv")' = 0
  BY <1>2 DEF Part
<1>8. /\ sent'[p] = g[a + 1].sent + 0 /\ got'[p] = g[a + 1].got + 0
  <2>1. sent'[p] \in Nat /\ got'[p] \in Nat
    <3>1. f[a].sent \in Nat /\ f[a].got \in Nat
      BY <1>1
    <3> QED  BY <1>2, <1>3, <3>1
  <2> QED  BY <1>2, <2>1
<1>9. Rising(p)'
  BY <1>2, <1>6 DEF Rising, g
<1>10. \A k \in 1 .. pc'[p] - 1 : Ran(p, k)' \/ Skipped(p, k)'
  <2>1. pc'[p] - 1 = a
    BY <1>1, <1>2
  <2> QED  BY <1>5, <2>1
<1> QED  BY <1>2, <1>4, <1>7, <1>8, <1>9, <1>10 DEF Walked, g

\* A party that takes no step.
LEMMA StayedWalked ==
    ASSUME NEW p, Walked(p), Stayed(p), script' = script
    PROVE  Walked(p)'
<1>1. Part(p, "send")' = Part(p, "send") /\ Part(p, "recv")' = Part(p, "recv")
  BY DEF Stayed, Part, Idle, Present
<1> QED  BY <1>1 DEF Stayed, Walked, Ran, Skipped, Rising, Share

\* A part of a transfer.
LEMMA PartWalked ==
    ASSUME TypeOK, NEW p \in Party, Walked(p), NEW n \in Nat, ~Idle(p),
           script' = script, pc' = pc, reached' = reached, moved'[p] = moved[p] + n,
           sent'[p] = sent[p] + (IF Present(p).do = "send" THEN n ELSE 0),
           got'[p] = got[p] + (IF Present(p).do = "recv" THEN n ELSE 0)
    PROVE  Walked(p)'
<1>1. /\ pc[p] \in 1 .. pc[p] /\ moved[p] \in Nat
      /\ reached[p][pc[p]].sent \in Nat /\ reached[p][pc[p]].got \in Nat
  <2>1. pc[p] \in 1 .. pc[p]
    BY PlaceBounds
  <2> QED  BY <2>1, PlaceBounds
<1>2. /\ Part(p, "send")' = Part(p, "send") + (IF Present(p).do = "send" THEN n ELSE 0)
      /\ Part(p, "recv")' = Part(p, "recv") + (IF Present(p).do = "recv" THEN n ELSE 0)
  <2>1. Idle(p)' = Idle(p) /\ Present(p)' = Present(p)
    BY DEF Idle, Present
  <2> QED  BY <1>1, <2>1 DEF Part
<1>3. Part(p, "send") \in Nat /\ Part(p, "recv") \in Nat
  BY <1>1 DEF Part
<1>4. /\ sent[p] = reached[p][pc[p]].sent + Part(p, "send")
      /\ got[p] = reached[p][pc[p]].got + Part(p, "recv")
  BY DEF Walked
<1>5. /\ sent'[p] = reached[p][pc[p]].sent + Part(p, "send")'
      /\ got'[p] = reached[p][pc[p]].got + Part(p, "recv")'
  BY <1>1, <1>2, <1>3, <1>4
<1>6. Rising(p)' /\ (\A k \in 1 .. pc'[p] - 1 : Ran(p, k)' \/ Skipped(p, k)')
  BY DEF Walked, Rising, Ran, Skipped, Share
<1> QED  BY <1>5, <1>6 DEF Walked

\* n bytes of a transfer, perhaps the last ones.
LEMMA MoveWalked ==
    ASSUME TypeOK, NEW p \in Party, NEW n \in Nat, Walked(p), Walked(Other(p)),
           ~Idle(p), Progress(p, n), script' = script, throws' = throws,
           sent' = [sent EXCEPT ![p] = @ + (IF Present(p).do = "send" THEN n ELSE 0)],
           got' = [got EXCEPT ![p] = @ + (IF Present(p).do = "recv" THEN n ELSE 0)]
    PROVE  \A r \in Party : Walked(r)'
<1>1. Other(p) \in Party /\ Other(p) # p /\ \A r \in Party : r = p \/ r = Other(p)
  BY Parties
<1>2. /\ sent'[p] = sent[p] + (IF Present(p).do = "send" THEN n ELSE 0)
      /\ got'[p] = got[p] + (IF Present(p).do = "recv" THEN n ELSE 0)
      /\ sent'[Other(p)] = sent[Other(p)] /\ got'[Other(p)] = got[Other(p)]
      /\ sent[p] \in Nat /\ got[p] \in Nat /\ sent'[p] \in Nat /\ got'[p] \in Nat
  <2>1. PICK s, g : /\ s = (IF Present(p).do = "send" THEN n ELSE 0)
                    /\ g = (IF Present(p).do = "recv" THEN n ELSE 0)
    OBVIOUS
  <2>2. s \in Nat /\ g \in Nat
    BY <2>1
  <2>3. /\ sent' = [sent EXCEPT ![p] = @ + s] /\ got' = [got EXCEPT ![p] = @ + g]
        /\ sent \in [Party -> Nat] /\ got \in [Party -> Nat]
    BY <2>1 DEF TypeOK
  <2>4. /\ sent'[p] = sent[p] + s /\ got'[p] = got[p] + g
        /\ sent'[Other(p)] = sent[Other(p)] /\ got'[Other(p)] = got[Other(p)]
        /\ sent[p] \in Nat /\ got[p] \in Nat
    BY <1>1, <2>3
  <2> QED  BY <2>1, <2>2, <2>4
<1>3. CASE moved[p] + n = Present(p).bytes
  <2>1. Complete(p)
    BY <1>3 DEF Progress
  <2>2. /\ moved[p] \in Nat /\ reached[p][pc[p]].sent \in Nat /\ reached[p][pc[p]].got \in Nat
    <3>1. pc[p] \in 1 .. pc[p] /\ moved[p] \in Nat
      BY PlaceBounds
    <3> QED  BY <3>1, PlaceBounds
  <2>3. /\ sent[p] = reached[p][pc[p]].sent + (IF Present(p).do = "send" THEN moved[p] ELSE 0)
        /\ got[p] = reached[p][pc[p]].got + (IF Present(p).do = "recv" THEN moved[p] ELSE 0)
    BY DEF Walked, Part
  <2>4. /\ Share(p, pc[p], "send") = IF Present(p).do = "send" THEN moved[p] + n ELSE 0
        /\ Share(p, pc[p], "recv") = IF Present(p).do = "recv" THEN moved[p] + n ELSE 0
    BY <1>3 DEF Share, Present
  <2>5. /\ sent'[p] = reached[p][pc[p]].sent + Share(p, pc[p], "send")
        /\ got'[p] = reached[p][pc[p]].got + Share(p, pc[p], "recv")
        /\ sent[p] <= sent'[p]
    BY <1>2, <2>2, <2>3, <2>4
  <2>6. Came(p) /\ Stayed(Other(p))
    BY <1>2, <2>1, <2>5, CompleteCame
  <2> QED  BY <1>1, <2>6, CameWalked, StayedWalked
<1>4. CASE moved[p] + n # Present(p).bytes
  <2>1. /\ pc' = pc /\ reached' = reached
        /\ moved'[p] = moved[p] + n /\ moved'[Other(p)] = moved[Other(p)]
    BY <1>1, <1>4 DEF Progress, TypeOK
  <2>2. Walked(p)'
    BY <1>2, <2>1, PartWalked
  <2>3. Walked(Other(p))'
    BY <1>2, <2>1, StayedWalked DEF Stayed
  <2> QED  BY <1>1, <2>2, <2>3
<1> QED  BY <1>3, <1>4

LEMMA StepWalked ==
    ASSUME TypeOK, \A r \in Party : Walked(r), NEW p \in Party, Step(p)
    PROVE  \A r \in Party : Walked(r)'
<1>1. Other(p) \in Party /\ Other(p) # p /\ \A r \in Party : r = p \/ r = Other(p)
  BY Parties
<1>2. CASE SendData(p)
  <2>1. PICK n \in 1 .. Room(p) : sent' = [sent EXCEPT ![p] = @ + n] /\ got' = got /\ Progress(p, n)
    BY <1>2 DEF SendData
  <2>2. ~Idle(p) /\ Present(p).do = "send" /\ script' = script /\ throws' = throws /\ n \in Nat
    BY <1>2 DEF SendData
  <2>3. got' = [got EXCEPT ![p] = @ + 0]
    BY <2>1 DEF TypeOK
  <2> QED  BY <1>1, <2>1, <2>2, <2>3, MoveWalked
<1>3. CASE RecvData(p)
  <2>1. PICK n \in 1 .. Ready(p) : got' = [got EXCEPT ![p] = @ + n] /\ sent' = sent /\ Progress(p, n)
    BY <1>3 DEF RecvData
  <2>2. ~Idle(p) /\ Present(p).do = "recv" /\ script' = script /\ throws' = throws /\ n \in Nat
    BY <1>3 DEF RecvData
  <2>3. sent' = [sent EXCEPT ![p] = @ + 0]
    BY <2>1 DEF TypeOK
  <2> QED  BY <1>1, <2>1, <2>2, <2>3, MoveWalked
<1>4. CASE RunLocal(p)
  <2>1. /\ ~Idle(p) /\ Complete(p) /\ script' = script /\ throws' = throws
        /\ sent' = sent /\ got' = got
        /\ Present(p).do # "send" /\ Present(p).do # "recv"
    BY <1>4 DEF RunLocal
  <2>2. sent[p] = reached[p][pc[p]].sent + 0 /\ got[p] = reached[p][pc[p]].got + 0
    BY <2>1 DEF Walked, Part
  <2>3. Share(p, pc[p], "send") = 0 /\ Share(p, pc[p], "recv") = 0
    BY <2>1 DEF Share, Present
  <2>4. sent'[p] \in Nat /\ got'[p] \in Nat /\ sent[p] <= sent'[p]
    BY <2>1 DEF TypeOK
  <2>5. Came(p) /\ Stayed(Other(p))
    BY <2>1, <2>2, <2>3, <2>4, CompleteCame
  <2> QED  BY <1>1, <2>1, <2>5, CameWalked, StayedWalked
<1> QED  BY <1>2, <1>3, <1>4 DEF Step

\* An exception leads past the rest of the job, where nothing more moves.
LEMMA ThrowWalked ==
    ASSUME TypeOK, NEW p \in Party, Throw(p), \A r \in Party : Walked(r)
    PROVE  \A r \in Party : Walked(r)'
<1> DEFINE j == pc[p]
           f == reached[p]
           g == reached'[p]
<1>1. Other(p) \in Party /\ Other(p) # p /\ \A r \in Party : r = p \/ r = Other(p)
  BY Parties
<1>2. PICK a : a = AfterJob(p)
  OBVIOUS
<1>3. /\ ~Idle(p) /\ moved[p] = 0
      /\ pc' = [pc EXCEPT ![p] = a]
      /\ reached' = [reached EXCEPT ![p] = [k \in 1 .. a |->
                        IF k \in DOMAIN @ THEN @[k] ELSE Counts(p)]]
      /\ script' = script /\ moved' = moved /\ sent' = sent /\ got' = got
  BY <1>2 DEF Throw, TypeOK
<1>4. /\ j \in Nat /\ j >= 1 /\ Len(script[p]) \in Nat
      /\ \A k \in 1 .. j : f[k].sent \in Nat /\ f[k].got \in Nat
  BY PlaceBounds
<1>5. a \in j .. Len(script[p]) + 1 /\ a \in Nat
  BY <1>2, <1>4, AfterJobPlace
<1>6. DOMAIN f = 1 .. j
  BY DEF TypeOK
<1>7. /\ pc'[p] = a /\ g = [k \in 1 .. a |-> IF k \in 1 .. j THEN f[k] ELSE Counts(p)]
      /\ pc'[Other(p)] = pc[Other(p)] /\ reached'[Other(p)] = reached[Other(p)]
  BY <1>1, <1>3, <1>6 DEF TypeOK
<1>8. sent[p] = f[j].sent /\ got[p] = f[j].got
  <2>1. sent[p] = f[j].sent + 0 /\ got[p] = f[j].got + 0
    BY <1>3 DEF Walked, Part
  <2>2. j \in 1 .. j
    BY <1>4
  <2> QED  BY <1>4, <2>1, <2>2
<1> HIDE DEF j, f, g
<1>9. ASSUME NEW k \in 1 .. a
      PROVE  /\ k <= j => k \in 1 .. j /\ g[k] = f[k]
             /\ k >= j => g[k].sent = f[j].sent /\ g[k].got = f[j].got
  <2>1. CASE k <= j
    <3>1. k \in 1 .. j /\ g[k] = f[k] /\ (k >= j => k = j)
      BY <1>4, <1>5, <1>7, <2>1
    <3> QED  BY <3>1
  <2>2. CASE k > j
    <3>1. g[k] = Counts(p) /\ ~(k <= j)
      BY <1>4, <1>5, <1>7, <2>2
    <3> QED  BY <1>8, <3>1 DEF Counts
  <2> QED  BY <1>4, <1>5, <2>1, <2>2
<1>10. g[1] = Fresh
  <2>1. 1 \in 1 .. a /\ 1 <= j
    BY <1>4, <1>5
  <2> QED  BY <1>9, <2>1 DEF Walked, f
<1>11. ASSUME NEW k \in 1 .. a - 1 PROVE Ran(p, k)' \/ Skipped(p, k)'
  <2>1. k \in 1 .. a /\ k + 1 \in 1 .. a
    BY <1>5
  <2>2. CASE k >= j
    <3>1. k + 1 >= j
      BY <1>4, <1>5, <2>2
    <3> QED  BY <1>9, <2>1, <2>2, <3>1 DEF Skipped, g
  <2>3. CASE k < j
    <3>1. k \in 1 .. j - 1 /\ k <= j /\ k + 1 <= j
      BY <1>4, <1>5, <2>3
    <3>2. g[k] = f[k] /\ g[k + 1] = f[k + 1]
      BY <1>9, <2>1, <3>1
    <3>3. Ran(p, k) \/ Skipped(p, k)
      BY <3>1 DEF Walked, j
    <3>4. Share(p, k, "send")' = Share(p, k, "send") /\ Share(p, k, "recv")' = Share(p, k, "recv")
      BY <1>3 DEF Share
    <3> QED  BY <3>2, <3>3, <3>4 DEF Ran, Skipped, f, g
  <2> QED  BY <1>4, <1>5, <2>2, <2>3
<1>12. ASSUME NEW k \in 1 .. a, NEW l \in 1 .. a, k <= l PROVE g[k].got <= g[l].got
  <2>1. ASSUME NEW i \in 1 .. j, NEW m \in 1 .. j, i <= m
        PROVE  f[i].got <= f[m].got
    BY <2>1 DEF Walked, Rising, j, f
  <2>2. j \in 1 .. j /\ f[j].got \in Nat
    BY <1>4
  <2>3. CASE l <= j
    <3>1. k <= j
      BY <1>4, <1>5, <1>12, <2>3
    <3> QED  BY <1>9, <1>12, <2>1, <2>3, <3>1
  <2>4. CASE l > j /\ k <= j
    <3>1. g[l].got = f[j].got /\ g[k] = f[k] /\ k \in 1 .. j
      BY <1>4, <1>5, <1>9, <2>4
    <3> QED  BY <2>1, <2>2, <2>4, <3>1
  <2>5. CASE l > j /\ k > j
    <3>1. g[l].got = f[j].got /\ g[k].got = f[j].got
      BY <1>4, <1>5, <1>9, <2>5
    <3> QED  BY <2>2, <3>1
  <2> QED  BY <1>4, <1>5, <2>3, <2>4, <2>5
<1>13. Part(p, "send")' = 0 /\ Part(p, "recv")' = 0
  BY <1>3 DEF Part
<1>14. sent'[p] = g[a].sent + 0 /\ got'[p] = g[a].got + 0
  <2>1. a \in 1 .. a /\ a >= j /\ j \in 1 .. j
    BY <1>4, <1>5
  <2>2. g[a].sent = f[j].sent /\ g[a].got = f[j].got
    BY <1>9, <2>1
  <2>3. sent'[p] \in Nat /\ got'[p] \in Nat
    BY <1>3 DEF TypeOK
  <2> QED  BY <1>3, <1>8, <2>2, <2>3
<1>15. Walked(p)'
  <2>1. Rising(p)'
    BY <1>7, <1>12 DEF Rising, g
  <2> QED  BY <1>7, <1>10, <1>11, <1>13, <1>14, <2>1 DEF Walked, g
<1>16. Walked(Other(p))'
  BY <1>1, <1>3, <1>7, StayedWalked DEF Stayed
<1> QED  BY <1>1, <1>15, <1>16

-----------------------------------------------------------------------------
(* The invariant.                                                          *)

LEMMA BegunWalked ==
    ASSUME NEW p \in Party, pc[p] = 1, moved[p] = 0, sent[p] = 0, got[p] = 0,
           reached[p] = <<Fresh>>
    PROVE  Walked(p)
<1>1. Part(p, "send") = 0 /\ Part(p, "recv") = 0
  BY DEF Part
<1>2. reached[p][1] = Fresh /\ Fresh.sent = 0 /\ Fresh.got = 0
  BY DEF Fresh
<1>3. \A k, l \in 1 .. 1 : reached[p][k].got <= reached[p][l].got
  <2>1. \A k \in 1 .. 1 : k = 1
    OBVIOUS
  <2> QED  BY <1>2, <2>1
<1>4. \A k \in 1 .. 1 - 1 : FALSE
  OBVIOUS
<1> QED  BY <1>1, <1>2, <1>3, <1>4 DEF Walked, Rising

LEMMA BegunPaths == Begun => \A p \in Party : Walked(p)
BY BegunWalked DEF Begun, Zero

LEMMA NextBegunPaths == Begun' => (\A p \in Party : Walked(p))'
BY BegunPaths, PTL

LEMMA InitPaths == Init => Paths
<1> SUFFICES ASSUME Init PROVE Paths
  OBVIOUS
<1>1. Begun
  BY DEF Init, Begun
<1>2. script[0] = <<>> /\ script[1] = <<>>
  BY DEF Init, Party
<1> QED  BY <1>1, <1>2, BegunPaths, EmptyPaired DEF Paths, Fitted

LEMMA BenchConnectPaths == ASSUME TypeOK, BenchConnect PROVE Paths'
<1> DEFINE scripts == [p \in Party |-> BenchMain(command[p].case, p, command[p].number)]
<1>1. Connect(scripts) /\ command' = command
  BY DEF BenchConnect
<1>2. /\ 0 \in Party /\ 1 \in Party
      /\ \A p \in Party : command[p].number \in Nat /\ command[p].main = "verse_bench"
  BY DEF BenchConnect, TypeOK, CommandLine, Party
<1>3. ASSUME Agreed PROVE Paired(Jobs, scripts[0], scripts[1])
  <2>1. PICK case, n : case = command[0].case /\ n = command[0].number
    OBVIOUS
  <2>2. case = command[1].case /\ n = command[1].number /\ n \in Nat
    BY <1>2, <1>3, <2>1 DEF Agreed
  <2>3. scripts[0] = BenchMain(case, 0, n) /\ scripts[1] = BenchMain(case, 1, n)
    BY <1>2, <2>1, <2>2
  <2> QED  BY <2>2, <2>3, BenchMainPaired
<1> HIDE DEF scripts
<1>4. Begun' /\ script' = scripts
  BY <1>1 DEF Connect, Begun, Zero
<1>5. Fitted'
  BY <1>1, <1>3, <1>4 DEF Fitted, Agreed
<1> QED  BY <1>4, <1>5, NextBegunPaths DEF Paths

LEMMA ExampleConnectPaths == ASSUME TypeOK, ExampleConnect PROVE Paths'
<1>1. PICK selection \in [Party -> Jobs] :
          /\ command' = [p \in Party |-> [command[p] EXCEPT !.case = selection[p]]]
          /\ Connect([p \in Party |-> Example(selection[p], p)])
  BY DEF ExampleConnect
<1>2. PICK scripts : scripts = [p \in Party |-> Example(selection[p], p)]
  OBVIOUS
<1>3. 0 \in Party /\ 1 \in Party
  BY DEF Party
<1>4. ASSUME NEW p \in Party PROVE command'[p].case = selection[p]
  <2>1. command'[p] = [command[p] EXCEPT !.case = selection[p]]
    BY <1>1
  <2>2. command[p] \in CommandLine
    BY DEF TypeOK
  <2> QED  BY <2>1, <2>2 DEF CommandLine
<1>5. ASSUME Agreed' PROVE Paired(Jobs, scripts[0], scripts[1])
  <2>1. selection[0] = selection[1] /\ selection[0] \in Jobs
    BY <1>3, <1>4, <1>5 DEF Agreed
  <2>2. scripts[0] = Example(selection[0], 0) /\ scripts[1] = Example(selection[0], 1)
    BY <1>2, <1>3, <2>1
  <2> QED  BY <2>1, <2>2, ExamplePaired
<1>6. Begun' /\ script' = scripts
  BY <1>1, <1>2 DEF Connect, Begun, Zero
<1>7. Fitted'
  BY <1>5, <1>6 DEF Fitted
<1> QED  BY <1>6, <1>7, NextBegunPaths DEF Paths

LEMMA StepPaths == TypeOK /\ Paths /\ [Next]_vars => Paths'
<1> SUFFICES ASSUME TypeOK, Paths, [Next]_vars PROVE Paths'
  OBVIOUS
<1>1. CASE BenchConnect
  BY <1>1, BenchConnectPaths
<1>2. CASE ExampleConnect
  BY <1>2, ExampleConnectPaths
<1>3. ASSUME NEW p \in Party, Step(p) PROVE Paths'
  <2>1. command' = command /\ script' = script
    BY <1>3 DEF Step, SendData, RecvData, RunLocal
  <2>2. \A r \in Party : Walked(r)'
    BY <1>3, StepWalked DEF Paths
  <2> QED  BY <2>1, <2>2 DEF Paths, Fitted, Agreed
<1>4. ASSUME NEW p \in Party, Throw(p) PROVE Paths'
  <2>1. command' = command /\ script' = script
    BY <1>4 DEF Throw
  <2>2. \A r \in Party : Walked(r)'
    BY <1>4, ThrowWalked DEF Paths
  <2> QED  BY <2>1, <2>2 DEF Paths, Fitted, Agreed
<1>5. CASE UNCHANGED vars
  <2>1. command' = command /\ script' = script /\ \A r \in Party : Stayed(r)
    BY <1>5 DEF vars, Stayed
  <2>2. \A r \in Party : Walked(r)'
    BY <2>1, StayedWalked DEF Paths
  <2> QED  BY <2>1, <2>2 DEF Paths, Fitted, Agreed
<1> QED  BY <1>1, <1>2, <1>3, <1>4, <1>5 DEF Next

\* Whatever a party does and wherever exceptions strike, its counters have grown at
\* every place by the bytes of the operation there or not at all, and the scripts
\* of parties that run the same case mirror each other.
THEOREM PathsHold == Spec => [](TypeOK /\ Paths)
<1>1. Init => TypeOK /\ Paths
  BY InitType, InitPaths
<1>2. TypeOK /\ Paths /\ [Next]_vars => (TypeOK /\ Paths)'
  BY StepType, StepPaths
<1> QED  BY <1>1, <1>2, PTL DEF Spec

-----------------------------------------------------------------------------
(* What the paths say where nothing was left out.                          *)

\* The two ends of a place.
LEMMA Ends ==
    ASSUME TypeOK, Paired(Jobs, script[0], script[1]), NEW p \in Party,
           NEW k \in 1 .. Len(script[p])
    PROVE  /\ Len(script[Other(p)]) = Len(script[p])
           /\ Mirrors(script[p][k], script[Other(p)][k])
           /\ Share(p, k, "send") = Share(Other(p), k, "recv")
           /\ Share(p, k, "recv") = Share(Other(p), k, "send")
           /\ Share(p, k, "send") \in Nat /\ Share(p, k, "recv") \in Nat
           /\ script[p][k].do \in Transfer => script[p][k].bytes > 0
<1> DEFINE a == script[p][k]
           b == script[Other(p)][k]
<1>1. Paired(Jobs, script[p], script[Other(p)])
  <2>1. CASE p = 0
    BY <2>1 DEF Other
  <2>2. CASE p = 1
    BY <2>2, PairedConverse DEF Other
  <2> QED  BY <2>1, <2>2 DEF Party
<1>2. /\ Len(script[Other(p)]) = Len(script[p]) /\ Mirrors(a, b)
      /\ a \in Ops(Jobs) /\ b \in Ops(Jobs)
  BY <1>1 DEF Paired
<1>3. /\ Share(p, k, "send") = IF a.do = "send" THEN a.bytes ELSE 0
      /\ Share(p, k, "recv") = IF a.do = "recv" THEN a.bytes ELSE 0
      /\ Share(Other(p), k, "send") = IF b.do = "send" THEN b.bytes ELSE 0
      /\ Share(Other(p), k, "recv") = IF b.do = "recv" THEN b.bytes ELSE 0
  BY DEF Share, a, b
<1> HIDE DEF a, b
<1>4. /\ a.do \in Transfer <=> b.do \in Transfer
      /\ a.do \in Transfer => a.do # b.do /\ a.bytes = b.bytes /\ a.bytes > 0
      /\ a.bytes \in Nat /\ b.bytes \in Nat
  BY <1>2 DEF Mirrors, Ops
<1>5. /\ a.do = "recv" <=> b.do = "send"
      /\ a.do = "send" <=> b.do = "recv"
  BY <1>4 DEF Transfer
<1>6. a.do = "recv" \/ a.do = "send" => a.bytes = b.bytes
  BY <1>4 DEF Transfer
<1>7. /\ Share(p, k, "send") = Share(Other(p), k, "recv")
      /\ Share(p, k, "recv") = Share(Other(p), k, "send")
      /\ Share(p, k, "send") \in Nat /\ Share(p, k, "recv") \in Nat
  BY <1>3, <1>4, <1>5, <1>6
<1> QED  BY <1>2, <1>4, <1>7 DEF a, b

\* A place that was passed and not left out was run.
LEMMA NotLeftOut ==
    ASSUME TypeOK, Paths, Paired(Jobs, script[0], script[1]), NEW n \in Nat, WholeUntil(n),
           NEW p \in Party, NEW k \in Nat, k >= 1, k <= n, k < pc[p]
    PROVE  Ran(p, k)
<1>1. /\ k \in 1 .. Len(script[p]) /\ k \in 1 .. pc[p] - 1 /\ k \in DOMAIN script[p]
      /\ k \in 1 .. pc[p] /\ k + 1 \in 1 .. pc[p]
  BY PlaceBounds
<1>2. Ran(p, k) \/ Skipped(p, k)
  BY <1>1 DEF Paths, Walked
<1>3. /\ script[p][k].do \in Transfer => script[p][k].bytes > 0
      /\ script[p][k].bytes \in Nat
      /\ reached[p][k].sent \in Nat /\ reached[p][k].got \in Nat
  BY <1>1, Ends, PlaceBounds
<1>4. CASE script[p][k].do \in Transfer
  <2>1. Transferred(p, k)
    BY <1>1, <1>4 DEF WholeUntil, LeftOut, Transfer
  <2> QED  BY <1>2, <1>3, <1>4, <2>1 DEF Transferred, Skipped
<1>5. CASE script[p][k].do \notin Transfer
  <2>1. Share(p, k, "send") = 0 /\ Share(p, k, "recv") = 0
    BY <1>5 DEF Share, Transfer
  <2>2. Skipped(p, k) => Ran(p, k)
    BY <1>3, <2>1 DEF Skipped, Ran
  <2> QED  BY <1>2, <2>2
<1> QED  BY <1>4, <1>5

\* Until there, what one party had sent at a place is what the other had received.
LEMMA CrossedUntil ==
    ASSUME TypeOK, Paths, Paired(Jobs, script[0], script[1]), NEW n \in Nat, WholeUntil(n),
           NEW p \in Party, NEW k \in Nat, k >= 1, k <= n + 1, k <= pc[p], k <= pc[Other(p)]
    PROVE  reached[p][k].sent = reached[Other(p)][k].got
<1> DEFINE q == Other(p)
           D == {l \in Nat : /\ l >= 1 /\ l <= k
                             /\ reached[p][l].sent # reached[q][l].got}
<1> SUFFICES ASSUME k \in D PROVE FALSE
  OBVIOUS
<1>1. q \in Party
  BY Parties
<1>2. PICK l \in D : \A i \in D : ~(<<i, l>> \in OpToRel(<, Nat))
  <2>1. D \subseteq Nat
    OBVIOUS
  <2> HIDE DEF D
  <2> QED  BY <2>1, NatLessThanWellFounded, WFMin
<1>3. /\ l \in Nat /\ l >= 1 /\ l <= k /\ reached[p][l].sent # reached[q][l].got
      /\ pc[p] \in Nat /\ pc[q] \in Nat
  BY <1>1, <1>2, PlaceBounds
<1>4. l # 1
  <2>1. reached[p][1] = Fresh /\ reached[q][1] = Fresh
    BY <1>1 DEF Paths, Walked
  <2> QED  BY <1>3, <2>1 DEF Fresh
<1>5. PICK i : i = l - 1
  OBVIOUS
<1>6. /\ i \in Nat /\ i >= 1 /\ i <= n /\ i < pc[p] /\ i < pc[q] /\ i + 1 = l /\ i <= k
  BY <1>3, <1>4, <1>5
<1>7. i \notin D
  <2>1. <<i, l>> \in OpToRel(<, Nat)
    BY <1>3, <1>6 DEF OpToRel
  <2> QED  BY <1>2, <2>1
<1>8. reached[p][i].sent = reached[q][i].got
  BY <1>6, <1>7
<1>9. Ran(p, i) /\ Ran(q, i)
  BY <1>1, <1>6, NotLeftOut
<1>10. Share(p, i, "send") = Share(q, i, "recv")
  <2>1. i \in 1 .. Len(script[p])
    BY <1>6, PlaceBounds
  <2> QED  BY <2>1, Ends
<1> QED  BY <1>3, <1>6, <1>8, <1>9, <1>10 DEF Ran

\* A message that was received had been sent as a whole.
LEMMA SentBefore ==
    ASSUME TypeOK, Paths, Paired(Jobs, script[0], script[1]),
           NEW p \in Party, NEW k \in DOMAIN script[p], WholeUntil(k),
           script[p][k].do = "recv", Transferred(p, k)
    PROVE  k < pc[Other(p)]
<1> DEFINE q == Other(p)
           b == pc[q]
           x == reached[q][b].sent
<1>1. q \in Party /\ Other(q) = p
  BY Parties
<1>2. /\ k \in 1 .. Len(script[p]) /\ Len(script[q]) = Len(script[p]) /\ Len(script[p]) \in Nat
      /\ script[p][k].bytes > 0 /\ script[p][k].bytes \in Nat
  <2>1. k \in 1 .. Len(script[p]) /\ Len(script[p]) \in Nat
    BY PlaceBounds
  <2> QED  BY <2>1, Ends, PlaceBounds DEF Transfer
<1>3. k \in Nat /\ b \in Nat /\ b >= 1 /\ pc[p] \in Nat /\ k < pc[p]
  BY <1>1, <1>2, PlaceBounds DEF Transferred
<1> SUFFICES ASSUME b <= k PROVE FALSE
  BY <1>3
<1> HIDE DEF q, b, x
<1>4. /\ b \in 1 .. Len(script[q]) /\ b \in 1 .. Len(script[p])
      /\ b \in 1 .. pc[p] /\ b + 1 \in 1 .. pc[p] /\ k \in 1 .. pc[p] /\ k + 1 \in 1 .. pc[p]
      /\ pc[p] \in 1 .. pc[p]
  BY <1>2, <1>3
<1>5. x = reached[p][b].got /\ x \in Nat
  <2>1. b <= k + 1 /\ b <= pc[q] /\ b <= pc[p]
    BY <1>3 DEF b
  <2>2. reached[q][b].sent = reached[p][b].got
    BY <1>1, <1>3, <2>1, CrossedUntil
  <2> QED  BY <1>4, <2>2, PlaceBounds DEF x
<1>6. /\ reached[p][b].got <= reached[p][k].got
      /\ reached[p][b + 1].got <= reached[p][k + 1].got
      /\ reached[p][k + 1].got <= reached[p][pc[p]].got
  <2>1. Rising(p) /\ b <= k /\ b + 1 <= k + 1 /\ k + 1 <= pc[p]
    BY <1>3 DEF Paths, Walked
  <2> QED  BY <1>4, <2>1 DEF Rising
<1>7. /\ reached[p][k].got \in Nat /\ reached[p][k + 1].got \in Nat
      /\ reached[p][b + 1].got \in Nat /\ reached[p][pc[p]].got \in Nat
  BY <1>4, PlaceBounds
<1>8. got[p] >= reached[p][pc[p]].got /\ got[p] \in Nat /\ sent[q] \in Nat
  <2>1. got[p] = reached[p][pc[p]].got + Part(p, "recv") /\ Part(p, "recv") \in Nat
    BY PlaceBounds DEF Paths, Walked, Part
  <2> QED  BY <1>1, <1>7, <2>1, PlaceBounds
<1>9. sent[q] >= got[p]
  <2>1. InFlight(q) \in Nat
    BY <1>1, SizesAssumption DEF TypeOK
  <2> QED  BY <1>1, <1>8, <2>1 DEF InFlight
<1>10. sent[q] = x + Part(q, "send")
  BY <1>1 DEF Paths, Walked, x, b
<1>11. CASE script[q][b].do = "send"
  <2>1. /\ Share(p, b, "recv") = script[q][b].bytes
        /\ script[q][b].bytes \in Nat /\ script[q][b].bytes > 0
    <3>1. Share(q, b, "send") = Share(p, b, "recv") /\ script[q][b].bytes > 0
      BY <1>1, <1>4, <1>11, Ends DEF Transfer
    <3>2. Share(q, b, "send") = script[q][b].bytes
      BY <1>11 DEF Share
    <3> QED  BY <1>1, <1>4, <3>1, <3>2, PlaceBounds
  <2>2. reached[p][b + 1].got = x + script[q][b].bytes
    <3>1. Ran(p, b)
      BY <1>3, NotLeftOut
    <3> QED  BY <1>5, <2>1, <3>1 DEF Ran
  <2>3. Part(q, "send") < script[q][b].bytes /\ Part(q, "send") \in Nat
    <3>1. moved[q] \in Nat /\ (moved[q] > 0 => moved[q] < Present(q).bytes)
      BY <1>1, PlaceBounds DEF TypeOK
    <3> QED  BY <2>1, <3>1 DEF Part, Present, b
  <2> QED  BY <1>5, <1>6, <1>7, <1>8, <1>9, <1>10, <2>1, <2>2, <2>3
<1>12. CASE script[q][b].do # "send"
  <2>1. Part(q, "send") = 0
    BY <1>12 DEF Part, Present, b
  <2>2. reached[p][k + 1].got = reached[p][k].got + script[p][k].bytes
    BY DEF Transferred
  <2>3. sent[q] = reached[p][b].got /\ reached[p][b].got \in Nat
    BY <1>5, <1>10, <2>1
  <2>4. reached[p][b].got < reached[p][k + 1].got
    BY <1>2, <1>6, <1>7, <2>2, <2>3
  <2> QED  BY <1>6, <1>7, <1>8, <1>9, <2>3, <2>4
<1> QED  BY <1>11, <1>12

LEMMA PathsReadWhole ==
    ASSUME TypeOK, Paths, Agreed, NEW p \in Party, NEW k \in DOMAIN script[p], WholeUntil(k)
    PROVE  ReadsWholeAt(p, k)
<1> DEFINE q == Other(p)
<1> SUFFICES ASSUME script[p][k].do = "recv", Transferred(p, k)
             PROVE  \E l \in DOMAIN script[q] :
                        /\ script[q][l] = [script[p][k] EXCEPT !.do = "send"]
                        /\ Transferred(q, l)
                        /\ reached[q][l].sent = reached[p][k].got
  BY DEF ReadsWholeAt
<1>1. q \in Party /\ Other(q) = p /\ Paired(Jobs, script[0], script[1])
  BY Parties DEF Paths, Fitted
<1>2. /\ k \in 1 .. Len(script[p]) /\ k \in Nat /\ k >= 1
      /\ k < pc[p] /\ pc[p] \in Nat /\ pc[q] \in Nat
  BY <1>1, PlaceBounds DEF Transferred
<1>3. k \in DOMAIN script[q] /\ Mirrors(script[p][k], script[q][k])
  BY <1>1, <1>2, Ends, PlaceBounds
<1>4. script[q][k].do = "send" /\ script[q][k] = [script[p][k] EXCEPT !.do = "send"]
  <2>1. script[p][k].do \in Transfer
    BY DEF Transfer
  <2>2. /\ script[q][k].do \in Transfer /\ script[q][k].do # "recv"
        /\ script[q][k] = [script[p][k] EXCEPT !.do = script[q][k].do]
    BY <1>3, <2>1 DEF Mirrors
  <2>3. script[q][k].do = "send"
    BY <2>2 DEF Transfer
  <2> QED  BY <2>2, <2>3
<1>5. k < pc[q]
  BY <1>1, SentBefore
<1>6. Transferred(q, k)
  <2>1. Ran(q, k)
    BY <1>1, <1>2, <1>5, NotLeftOut
  <2> QED  BY <1>4, <1>5, <2>1 DEF Ran, Share, Transferred
<1>7. reached[q][k].sent = reached[p][k].got
  <2>1. k <= k + 1 /\ k <= pc[p] /\ k <= pc[q]
    BY <1>2, <1>5
  <2> QED  BY <1>1, <1>2, <2>1, CrossedUntil
<1> QED  BY <1>3, <1>4, <1>6, <1>7

LEMMA PathsLogs == ASSUME TypeOK, Paths PROVE LogsAgree
<1> SUFFICES ASSUME Agreed, NEW p \in Party, NEW k \in DOMAIN script[p],
                    k < pc[p], k < pc[Other(p)], WholeUntil(k)
             PROVE  reached[p][k].sent = reached[Other(p)][k].got
  BY DEF LogsAgree
<1>1. Other(p) \in Party /\ Paired(Jobs, script[0], script[1])
  BY Parties DEF Paths, Fitted
<1>2. k \in Nat /\ k >= 1 /\ k <= k + 1 /\ k <= pc[p] /\ k <= pc[Other(p)]
  BY <1>1, PlaceBounds
<1> QED  BY <1>1, <1>2, CrossedUntil

-----------------------------------------------------------------------------
(* The theorems.                                                           *)

\* Two parties that run the same case read only whole messages of the call they
\* are in, in several protocols after one another too, and an exception changes
\* nothing before the first transfer that it leaves out.
THEOREM MessagesWholeHolds == Spec => []MessagesWhole
<1>1. TypeOK /\ Paths => MessagesWhole
  BY PathsReadWhole DEF MessagesWhole
<1> QED  BY <1>1, PathsHold, PTL

\* What one of them logs as sent at the end of a case the other logs as received,
\* whatever exceptions there are in a later case.
THEOREM LogsAgreeHolds == Spec => []LogsAgree
<1>1. TypeOK /\ Paths => LogsAgree
  BY PathsLogs
<1> QED  BY <1>1, PathsHold, PTL

=============================================================================
